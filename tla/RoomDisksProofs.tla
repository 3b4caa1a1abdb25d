--------------------------- MODULE RoomDisksProofs ---------------------------
(***************************************************************************)
(* The garbage collection keeps the volumes that a Room still needs, for   *)
(* any generations, majors, changes and sweeps.                            *)
(*                                                                         *)
(* The argument.  The sweep protects what UndoReferences and the pointers  *)
(* name.  That this is enough needs what every change knows of itself: a   *)
(* publication that is still the latest replaced the generation before the *)
(* row's, which is on disk and is not the one that a Host sync retained    *)
(* (Held), and the generation that its undo throws away is newer than any  *)
(* that a clean install goes back to (Apart).                              *)
(***************************************************************************)
EXTENDS RoomDisks, SequenceTheorems, TLAPS

Entries == ToSet(log)

\* A change whose undo goes back to an older workspace, as long as nothing came after it
Latest(c) == c.kind \in {"install", "normalize"} /\ c.latest

\* What the undo of a change goes back to is there.
Held(c) ==
    /\ Latest(c) => /\ home.ws = c.ws[2] /\ c.ws[1] < c.ws[2] /\ home.kept # c.ws[2]
                    /\ Ws(c.ws[1]) \in disks
    /\ Latest(c) /\ c.kind = "install" => c.deps[1] # c.deps[2] /\ Deps(c.node, c.deps[1]) \in disks
    /\ c.kind = "clean" => c.deps[1] < top[c.node] /\ Deps(c.node, c.deps[1]) \in disks
    /\ c.kind = "switch" /\ LegacyGen = 0 => Deps(c.node, CurrentGen(c.node)) \in disks

\* The undo of an install does not throw away what a clean install goes back to.
Apart(c, e) ==
    Latest(c) /\ c.kind = "install" /\ e.kind = "clean" /\ e.node = c.node => e.deps[1] # c.deps[2]

\* What a Host sync retained is older than every workspace that is still to come.
Retained == home.kept # None => home.kept <= home.wsTop

\* A visit is counted when it ends.
Counted == sweep.phase # "idle" => sweeps < MaxSweeps

\* The part that says what the sweep has to respect.
Kept ==
    /\ RowHasItsDisks /\ Retained
    /\ home.row => (\A c \in Entries : Held(c)) /\ \A c, e \in Entries : Apart(c, e)

IInv == TypeOK /\ Counted /\ Kept

-----------------------------------------------------------------------------
(* The history *)

\* A history that a step makes out of another one: each of its changes was there, and none
\* of them becomes the latest again.
Older(c, d) ==
    /\ c \in RowType /\ c.kind = d.kind /\ c.node = d.node /\ c.ws = d.ws /\ c.deps = d.deps
    /\ c.latest => d.latest

LEMMA AgedIs ==
    ASSUME NEW s \in Seq(RowType)
    PROVE  /\ Aged(s) \in Seq(RowType)
           /\ \A c \in ToSet(Aged(s)) : ~c.latest /\ \E d \in ToSet(s) : Older(c, d)
<1>1. \A i \in DOMAIN s : s[i] \in RowType
  OBVIOUS
<1>2. Aged(s) \in Seq(RowType)
  <2>1. \A i \in DOMAIN s : [s[i] EXCEPT !.latest = FALSE] \in RowType
    BY <1>1, ZenonT(60) DEF RowType
  <2>2. DOMAIN s = 1 .. Len(s) /\ Len(s) \in Nat
    OBVIOUS
  <2>3. Aged(s) \in [1 .. Len(s) -> RowType]
    BY <2>1, <2>2 DEF Aged
  <2> QED
    BY <2>2, <2>3
<1>3. ASSUME NEW c \in ToSet(Aged(s))
      PROVE  ~c.latest /\ \E d \in ToSet(s) : Older(c, d)
  <2>1. PICK i \in DOMAIN s : c = [s[i] EXCEPT !.latest = FALSE]
    BY <1>3 DEF ToSet, Aged
  <2>2. s[i] \in ToSet(s) /\ s[i] \in RowType
    BY <1>1, <2>1 DEF ToSet
  <2>3. ~c.latest /\ Older(c, s[i])
    BY <2>1, <2>2 DEF Older, RowType
  <2> QED
    BY <2>2, <2>3
<1> QED
  BY <1>2, <1>3

LEMMA AppendedIs ==
    ASSUME NEW s \in Seq(RowType), NEW row \in RowType
    PROVE  Append(s, row) \in Seq(RowType) /\ ToSet(Append(s, row)) = ToSet(s) \cup {row}
<1>1. /\ Append(s, row) \in Seq(RowType) /\ Len(Append(s, row)) = Len(s) + 1
      /\ \A i \in 1 .. Len(s) : Append(s, row)[i] = s[i]
      /\ Append(s, row)[Len(s) + 1] = row
  BY AppendProperties
<1>2. DOMAIN s = 1 .. Len(s) /\ DOMAIN Append(s, row) = 1 .. Len(s) + 1 /\ Len(s) \in Nat
  BY <1>1
<1>3. \A i \in 1 .. Len(s) + 1 : i \in 1 .. Len(s) \/ i = Len(s) + 1
  BY <1>2
<1> QED
  BY <1>1, <1>2, <1>3 DEF ToSet

LEMMA RemovedIs ==
    ASSUME NEW s \in Seq(RowType), NEW i \in DOMAIN s
    PROVE  RemoveAt(s, i) \in Seq(RowType) /\ ToSet(RemoveAt(s, i)) \subseteq ToSet(s)
<1>1. i \in 1 .. Len(s) /\ Len(s) \in Nat /\ DOMAIN s = 1 .. Len(s)
  OBVIOUS
<1> DEFINE before == SubSeq(s, 1, i - 1)
           after == SubSeq(s, i + 1, Len(s))
<1>2. /\ before \in Seq(RowType) /\ Len(before) = i - 1
      /\ \A k \in 1 .. i - 1 : before[k] = s[k]
  BY <1>1, SubSeqProperties
<1>3. /\ after \in Seq(RowType) /\ Len(after) = Len(s) - i
      /\ \A k \in 1 .. Len(s) - i : after[k] = s[i + k]
  BY <1>1, SubSeqProperties, SMTT(30)
<1>4. RemoveAt(s, i) = before \o after
  BY DEF RemoveAt
<1> HIDE DEF before, after
<1>5. /\ before \o after \in Seq(RowType) /\ Len(before \o after) = Len(s) - 1
      /\ \A k \in 1 .. Len(s) - 1 :
            (before \o after)[k] = IF k <= i - 1 THEN before[k] ELSE after[k - (i - 1)]
  <2>1. /\ before \o after \in Seq(RowType) /\ Len(before \o after) = Len(before) + Len(after)
        /\ \A k \in 1 .. Len(before) + Len(after) :
              (before \o after)[k] = IF k <= Len(before) THEN before[k] ELSE after[k - Len(before)]
    BY <1>2, <1>3, ConcatProperties
  <2>2. Len(before) + Len(after) = Len(s) - 1
    BY <1>1, <1>2, <1>3
  <2> QED
    BY <1>2, <2>1, <2>2
<1>6. ASSUME NEW k \in 1 .. Len(s) - 1
      PROVE  \E j \in DOMAIN s : (before \o after)[k] = s[j]
  <2>1. CASE k <= i - 1
    <3>1. k \in 1 .. i - 1 /\ k \in DOMAIN s
      BY <1>1, <2>1
    <3>2. (before \o after)[k] = before[k]
      BY <1>5, <2>1
    <3> QED
      BY <1>2, <3>1, <3>2
  <2>2. CASE ~(k <= i - 1)
    <3>1. k - (i - 1) \in 1 .. Len(s) - i /\ i + (k - (i - 1)) = k + 1 /\ k + 1 \in DOMAIN s
      BY <1>1, <2>2
    <3>2. (before \o after)[k] = after[k - (i - 1)]
      BY <1>5, <2>2
    <3> QED
      BY <1>3, <3>1, <3>2
  <2> QED
    BY <2>1, <2>2
<1>7. DOMAIN (before \o after) = 1 .. Len(s) - 1
  BY <1>5
<1>8. ASSUME NEW x \in ToSet(before \o after)
      PROVE  x \in ToSet(s)
  <2>1. PICK k \in 1 .. Len(s) - 1 : x = (before \o after)[k]
    BY <1>7, <1>8 DEF ToSet
  <2>2. PICK j \in DOMAIN s : x = s[j]
    BY <1>6, <2>1
  <2> QED
    BY <2>2 DEF ToSet
<1> QED
  BY <1>4, <1>5, <1>8

-----------------------------------------------------------------------------
(* What the steps do *)

\* The number of a generation is never None.
LEMMA GenIs ==
    ASSUME RoomDisksAssumption, TypeOK, NEW m \in Majors
    PROVE  CurrentGen(m) \in 0 .. MaxGen /\ CurrentGen(m) # None
BY DEF RoomDisksAssumption, TypeOK, CurrentGen

LEMMA HomeIs ==
    ASSUME RoomDisksAssumption, TypeOK
    PROVE  /\ home \in HomeType /\ home.node \in Majors
           /\ home.ws \in 0 .. MaxGen /\ home.wsTop \in 0 .. MaxGen /\ home.ws <= home.wsTop
BY DEF TypeOK, HomeType

LEMMA NextIs ==
    ASSUME RoomDisksAssumption, TypeOK
    PROVE  /\ home.node \in Majors
           /\ NextDeps \in Nat /\ NextDeps > top[home.node] /\ NextDeps > CurrentGen(home.node)
           /\ NextWs \in Nat /\ NextWs > home.wsTop /\ NextWs > home.ws
<1>1. /\ home.node \in Majors /\ home.ws \in Nat /\ home.wsTop \in Nat /\ home.ws <= home.wsTop
      /\ top[home.node] \in Nat
  BY DEF TypeOK, RoomDisksAssumption, HomeType
<1>2. CurrentGen(home.node) \in Nat
  BY <1>1, GenIs DEF RoomDisksAssumption
<1>3. NextDeps \in Nat /\ NextDeps > top[home.node] /\ NextDeps > CurrentGen(home.node)
  BY <1>1, <1>2 DEF NextDeps
<1> QED
  BY <1>1, <1>3 DEF NextWs

LEMMA DiskIs ==
    ASSUME RoomDisksAssumption
    PROVE  /\ \A g \in 0 .. MaxGen : Ws(g) \in DiskType
           /\ \A m \in Majors, g \in 0 .. MaxGen : Deps(m, g) \in DiskType
           /\ Snapshot \in DiskType /\ Pod \in DiskType
BY DEF RoomDisksAssumption, DiskType, Ws, Deps, Snapshot, Pod

LEMMA RowIs ==
    ASSUME NEW kind \in {"install", "normalize", "clean", "switch"}, NEW m \in Majors,
           NEW a \in 0 .. MaxGen, NEW b \in 0 .. MaxGen, NEW x \in 0 .. MaxGen, NEW y \in 0 .. MaxGen
    PROVE  Row(kind, m, <<a, b>>, <<x, y>>) \in RowType
BY DEF Row, RowType

LEMMA EntryIs ==
    ASSUME TypeOK, NEW c \in Entries
    PROVE  /\ c \in RowType /\ c.node \in Majors
           /\ c.ws[1] \in 0 .. MaxGen /\ c.ws[2] \in 0 .. MaxGen
           /\ c.deps[1] \in 0 .. MaxGen /\ c.deps[2] \in 0 .. MaxGen
<1>1. c \in RowType
  BY DEF TypeOK, Entries, ToSet
<1> QED
  BY <1>1 DEF RowType

\* What a change leaves of the history: itself, and the others, none of which is the latest.
LEMMA RecordedIs ==
    ASSUME TypeOK, NEW row \in RowType, log' = Append(Aged(log), row)
    PROVE  /\ log' \in Seq(RowType)
           /\ \A c \in Entries' : c = row \/ (~c.latest /\ \E d \in Entries : Older(c, d))
<1>1. log \in Seq(RowType)
  BY DEF TypeOK
<1>2. /\ Aged(log) \in Seq(RowType)
      /\ \A c \in ToSet(Aged(log)) : ~c.latest /\ \E d \in ToSet(log) : Older(c, d)
  BY <1>1, AgedIs
<1>3. log' \in Seq(RowType) /\ ToSet(log') = ToSet(Aged(log)) \cup {row}
  BY <1>2, AppendedIs
<1> QED
  BY <1>2, <1>3 DEF Entries

LEMMA AgedAll ==
    ASSUME TypeOK, log' = Aged(log)
    PROVE  /\ log' \in Seq(RowType)
           /\ \A c \in Entries' : ~c.latest /\ \E d \in Entries : Older(c, d)
<1>1. log \in Seq(RowType)
  BY DEF TypeOK
<1> QED
  BY <1>1, AgedIs DEF Entries

LEMMA SameHistory ==
    ASSUME TypeOK, log' = log
    PROVE  log' \in Seq(RowType) /\ \A c \in Entries' : \E d \in Entries : Older(c, d)
<1>1. Entries' = Entries
  BY DEF Entries
<1>2. \A c \in Entries : Older(c, c)
  BY EntryIs DEF Older
<1> QED
  BY <1>1, <1>2 DEF TypeOK

\* What an undo leaves of the history.
LEMMA UndoneIs ==
    ASSUME TypeOK, NEW i \in DOMAIN log, log' = Aged(RemoveAt(log, i))
    PROVE  /\ log' \in Seq(RowType)
           /\ \A c \in Entries' : ~c.latest /\ \E d \in Entries : Older(c, d)
<1>1. log \in Seq(RowType)
  BY DEF TypeOK
<1>2. RemoveAt(log, i) \in Seq(RowType) /\ ToSet(RemoveAt(log, i)) \subseteq ToSet(log)
  BY <1>1, RemovedIs
<1>3. /\ log' \in Seq(RowType)
      /\ \A c \in ToSet(log') : ~c.latest /\ \E d \in ToSet(RemoveAt(log, i)) : Older(c, d)
  BY <1>2, AgedIs
<1> QED
  BY <1>2, <1>3 DEF Entries

LEMMA UnswitchedIs ==
    ASSUME TypeOK, NEW i \in DOMAIN log, log' = RemoveAt(log, i)
    PROVE  /\ log' \in Seq(RowType)
           /\ \A c \in Entries' : \E d \in Entries : Older(c, d)
<1>1. log \in Seq(RowType)
  BY DEF TypeOK
<1>2. log' \in Seq(RowType) /\ Entries' \subseteq Entries
  BY <1>1, RemovedIs DEF Entries
<1>3. \A c \in Entries : Older(c, c)
  BY EntryIs DEF Older
<1> QED
  BY <1>2, <1>3

-----------------------------------------------------------------------------
(* Every variable keeps its type.                                           *)

LEMMA HomeGrows ==
    ASSUME NEW h \in HomeType, NEW v \in 0 .. MaxGen, NEW g, g = [h EXCEPT !.wsTop = v]
    PROVE  g \in HomeType /\ g.ws = h.ws /\ g.wsTop = v
BY DEF HomeType

LEMMA HomeSwitches ==
    ASSUME NEW h \in HomeType, NEW m \in Majors, NEW g, g = [h EXCEPT !.node = m]
    PROVE  g \in HomeType /\ g.ws = h.ws /\ g.wsTop = h.wsTop
BY DEF HomeType

LEMMA HomeEnds ==
    ASSUME NEW h \in HomeType, NEW dir \in BOOLEAN, NEW g,
           g = [h EXCEPT !.row = FALSE, !.dir = dir, !.guard = "none"]
    PROVE  g \in HomeType /\ g.ws = h.ws /\ g.wsTop = h.wsTop
BY DEF HomeType

LEMMA InstallTypes ==
    ASSUME RoomDisksAssumption, TypeOK, NEW ok \in BOOLEAN, Install(ok)
    PROVE  TypeOK'
<1>0. NextWs <= MaxGen /\ NextDeps <= MaxGen
  BY DEF Install
<1>1. /\ NextWs \in 0 .. MaxGen /\ NextDeps \in 0 .. MaxGen /\ home.ws <= NextWs
      /\ home.node \in Majors /\ CurrentGen(home.node) \in 0 .. MaxGen
  BY <1>0, NextIs, GenIs, HomeIs DEF RoomDisksAssumption
<1>2. disks' \subseteq DiskType
  BY <1>1, DiskIs DEF TypeOK, Install
<1>3. top' \in [Majors -> 0 .. MaxGen]
  BY <1>1 DEF TypeOK, Install
<1>4. changes' \in 0 .. MaxChanges
  BY DEF TypeOK, RoomDisksAssumption, Install, Changes
<1>5. CASE ok
  <2>1. Row("install", home.node, <<home.ws, NextWs>>, <<CurrentGen(home.node), NextDeps>>) \in RowType
    BY <1>1, RowIs DEF TypeOK, HomeType, Install
  <2>2. log' \in Seq(RowType)
    BY <1>5, <2>1, RecordedIs DEF Journaled, Install
  <2>3. pointer' \in [Majors -> {None} \cup (0 .. MaxGen)]
    BY <1>1, <1>5 DEF TypeOK, Install
  <2>4. home' \in HomeType /\ home'.ws <= home'.wsTop
    <3>1. home' = [home EXCEPT !.ws = NextWs, !.wsTop = NextWs]
      BY <1>5 DEF Install
    <3>2. home' \in HomeType /\ home'.ws = NextWs /\ home'.wsTop = NextWs
      BY <1>1, <3>1, HomeIs DEF HomeType
    <3> QED
      BY <1>1, <3>2
  <2> QED
    BY <1>2, <1>3, <1>4, <2>2, <2>3, <2>4 DEF TypeOK, Install
<1>6. CASE ~ok
  <2>1. home' \in HomeType /\ home'.ws <= home'.wsTop
    <3>1. home' = [home EXCEPT !.wsTop = NextWs]
      BY <1>6 DEF Install
    <3>2. home' \in HomeType /\ home'.ws = home.ws /\ home'.wsTop = NextWs
      BY <1>1, <3>1, HomeIs, HomeGrows
    <3> QED
      BY <1>1, <3>2
  <2> QED
    BY <1>2, <1>3, <1>4, <1>6, <2>1 DEF TypeOK, Install
<1> QED
  BY <1>5, <1>6 DEF Install

LEMMA NormalizeTypes ==
    ASSUME RoomDisksAssumption, TypeOK, Normalize
    PROVE  TypeOK'
<1>0. NextWs <= MaxGen
  BY DEF Normalize
<1>1. /\ NextWs \in 0 .. MaxGen /\ home.ws <= NextWs
      /\ home.node \in Majors /\ CurrentGen(home.node) \in 0 .. MaxGen
  BY <1>0, NextIs, GenIs, HomeIs DEF RoomDisksAssumption
<1>2. disks' \subseteq DiskType
  BY <1>1, DiskIs DEF TypeOK, Normalize
<1>3. Row("normalize", home.node, <<home.ws, NextWs>>, <<CurrentGen(home.node), CurrentGen(home.node)>>)
         \in RowType
  BY <1>1, RowIs DEF TypeOK, HomeType, Normalize
<1>4. log' \in Seq(RowType)
  BY <1>3, RecordedIs DEF Journaled, Normalize
<1>5. pointer' \in [Majors -> {None} \cup (0 .. MaxGen)]
  BY <1>1 DEF TypeOK, Normalize
<1>6. home' \in HomeType /\ home'.ws <= home'.wsTop
  <2>1. home' = [home EXCEPT !.ws = NextWs, !.wsTop = NextWs]
    BY DEF Normalize
  <2>2. home' \in HomeType /\ home'.ws = NextWs /\ home'.wsTop = NextWs
    BY <1>1, <2>1, HomeIs DEF HomeType
  <2> QED
    BY <1>1, <2>2
<1>7. changes' \in 0 .. MaxChanges
  BY DEF TypeOK, RoomDisksAssumption, Normalize, Changes
<1> QED
  BY <1>2, <1>4, <1>5, <1>6, <1>7 DEF TypeOK, Normalize

LEMMA CleanTypes ==
    ASSUME RoomDisksAssumption, TypeOK, Clean
    PROVE  TypeOK'
<1>0. NextDeps <= MaxGen
  BY DEF Clean
<1>1. /\ NextDeps \in 0 .. MaxGen
      /\ home.node \in Majors /\ CurrentGen(home.node) \in 0 .. MaxGen
  BY <1>0, NextIs, GenIs, HomeIs DEF RoomDisksAssumption
<1>2. disks' \subseteq DiskType
  BY <1>1, DiskIs DEF TypeOK, Clean
<1>3. Row("clean", home.node, <<home.ws, home.ws>>, <<CurrentGen(home.node), NextDeps>>) \in RowType
  BY <1>1, RowIs DEF TypeOK, HomeType, Clean
<1>4. log' \in Seq(RowType)
  BY <1>3, RecordedIs DEF Journaled, Clean
<1>5. pointer' \in [Majors -> {None} \cup (0 .. MaxGen)] /\ top' \in [Majors -> 0 .. MaxGen]
  BY <1>1 DEF TypeOK, Clean
<1>6. changes' \in 0 .. MaxChanges
  BY DEF TypeOK, RoomDisksAssumption, Clean, Changes
<1> QED
  BY <1>2, <1>4, <1>5, <1>6 DEF TypeOK, Clean

LEMMA SwitchTypes ==
    ASSUME RoomDisksAssumption, TypeOK, NEW m \in Majors, SwitchNode(m)
    PROVE  TypeOK'
<1>1. home.node \in Majors /\ home.ws \in 0 .. MaxGen /\ 0 \in 0 .. MaxGen /\ log \in Seq(RowType)
  BY DEF RoomDisksAssumption, TypeOK, HomeType, SwitchNode
<1>2. disks' \subseteq DiskType
  BY <1>1, GenIs, DiskIs DEF TypeOK, SwitchNode
<1>3. Row("switch", home.node, <<home.ws, home.ws>>, <<0, 0>>) \in RowType
  BY <1>1, RowIs DEF SwitchNode
<1>4. log' \in Seq(RowType)
  BY <1>1, <1>3, AppendedIs DEF Journaled, SwitchNode
<1>5. home' \in HomeType /\ home'.ws <= home'.wsTop
  <2>1. home' = [home EXCEPT !.node = m]
    BY DEF SwitchNode
  <2> QED
    BY <2>1, HomeIs, HomeSwitches
<1>6. changes' \in 0 .. MaxChanges
  BY DEF TypeOK, RoomDisksAssumption, SwitchNode, Changes
<1> QED
  BY <1>2, <1>4, <1>5, <1>6 DEF TypeOK, SwitchNode

LEMMA SyncTypes ==
    ASSUME RoomDisksAssumption, TypeOK, Sync
    PROVE  TypeOK'
<1>0. NextWs <= MaxGen
  BY DEF Sync
<1>1. NextWs \in 0 .. MaxGen /\ home.ws <= NextWs
  BY <1>0, NextIs, HomeIs DEF RoomDisksAssumption
<1>2. disks' \subseteq DiskType
  BY <1>1, DiskIs DEF TypeOK, Sync
<1>3. log' \in Seq(RowType)
  BY AgedAll DEF Sync
<1>4. home' \in HomeType /\ home'.ws <= home'.wsTop
  <2>1. home' = [home EXCEPT !.ws = NextWs, !.wsTop = NextWs, !.kept = home.ws]
    BY DEF Sync
  <2>2. home' \in HomeType /\ home'.ws = NextWs /\ home'.wsTop = NextWs
    BY <1>1, <2>1, HomeIs DEF HomeType
  <2> QED
    BY <1>1, <2>2
<1>5. changes' \in 0 .. MaxChanges
  BY DEF TypeOK, RoomDisksAssumption, Sync, Changes
<1> QED
  BY <1>2, <1>3, <1>4, <1>5 DEF TypeOK, Sync

LEMMA EditTypes ==
    ASSUME TypeOK, Edit
    PROVE  TypeOK'
<1>1. log' \in Seq(RowType)
  BY AgedAll DEF Edit
<1> QED
  BY <1>1 DEF TypeOK, Edit

\* The acts that leave the pointers and the history alone
LEMMA QuietTypes ==
    ASSUME RoomDisksAssumption, TypeOK, Announce \/ Build \/ OperationEnds \/ Fence \/ Attach \/ Observe \/ Skip
    PROVE  TypeOK'
<1>1. CASE Announce
  BY <1>1 DEF TypeOK, Announce, HomeType
<1>2. CASE Build
  BY <1>2, DiskIs DEF TypeOK, Build
<1>3. CASE OperationEnds
  BY <1>3 DEF TypeOK, OperationEnds, HomeType
<1>4. CASE Fence
  BY <1>4 DEF TypeOK, Fence, HomeType
<1>5. CASE Attach
  BY <1>5 DEF TypeOK, Attach
<1>6. CASE Observe
  BY <1>6 DEF TypeOK, Observe
<1>7. CASE Skip
  BY <1>7, DiskIs DEF TypeOK, Skip, NoSweep
<1> QED
  BY <1>1, <1>2, <1>3, <1>4, <1>5, <1>6, <1>7

LEMMA PlanTypes ==
    ASSUME TypeOK, NEW d \in disks, Plan(d)
    PROVE  TypeOK'
BY DEF TypeOK, Plan

LEMMA CollectTypes ==
    ASSUME RoomDisksAssumption, TypeOK, Collect, sweeps < MaxSweeps
    PROVE  TypeOK'
<1>1. sweeps' \in 0 .. MaxSweeps
  BY DEF TypeOK, Collect, RoomDisksAssumption
<1>2. disks' \subseteq DiskType
  BY DEF TypeOK, Collect
<1>3. sweep' \in [phase : {"idle", "planned", "locked"}, at : DiskType]
  BY DiskIs DEF Collect, NoSweep
<1> QED
  BY <1>1, <1>2, <1>3 DEF TypeOK, Collect

LEMMA DeleteTypes ==
    ASSUME TypeOK, Delete
    PROVE  TypeOK'
<1>1. PICK dir \in BOOLEAN : home' = [home EXCEPT !.row = FALSE, !.dir = dir, !.guard = "none"]
  BY DEF Delete
<1>2. home' \in HomeType /\ home'.ws <= home'.wsTop
  BY <1>1, HomeEnds DEF TypeOK
<1>3. disks' \subseteq DiskType /\ log' \in Seq(RowType)
  BY DEF TypeOK, Delete
<1> QED
  BY <1>2, <1>3 DEF TypeOK, Delete

-----------------------------------------------------------------------------
(* The Room keeps what it needs.                                            *)

LEMMA InstallKeeps ==
    ASSUME RoomDisksAssumption, IInv, TypeOK', NEW ok \in BOOLEAN, Install(ok)
    PROVE  Kept'
<1>1. /\ TypeOK /\ Kept /\ home.row /\ home'.row /\ home'.kept = home.kept /\ home'.node = home.node
      /\ home \in HomeType
  BY DEF IInv, Install, Changes, Acts, TypeOK, HomeType
<1>2. /\ home.node \in Majors /\ home.ws \in Nat /\ home.wsTop \in Nat /\ home.ws <= home.wsTop
      /\ CurrentGen(home.node) \in Nat /\ CurrentGen(home.node) # None
      /\ NextWs \in Nat /\ NextWs > home.wsTop /\ NextWs > home.ws
      /\ NextDeps \in Nat /\ NextDeps > top[home.node] /\ NextDeps > CurrentGen(home.node)
      /\ NextDeps # None
  BY <1>1, HomeIs, NextIs, GenIs DEF RoomDisksAssumption, Install
<1>3. \A m \in Majors : top[m] \in Nat /\ top'[m] \in Nat /\ top[m] <= top'[m]
  <2>1. \A m \in Majors : top[m] \in Nat /\ top'[m] = IF m = home.node THEN NextDeps ELSE top[m]
    BY <1>1, <1>2 DEF TypeOK, Install, RoomDisksAssumption
  <2> QED
    BY <1>2, <2>1
<1>4. disks' = disks \cup {Ws(NextWs), Deps(home.node, NextDeps)}
  BY DEF Install
<1>5. /\ Ws(home.ws) \in disks /\ Deps(home.node, CurrentGen(home.node)) \in disks
      /\ home.kept # None => home.kept \in Nat /\ home.kept <= home.wsTop /\ Ws(home.kept) \in disks
      /\ \A c \in Entries : Held(c)
      /\ \A c, e \in Entries : Apart(c, e)
  BY <1>1 DEF Kept, RowHasItsDisks, Retained, RoomDisksAssumption, HomeType
<1>6. CASE ok
  <2>1. home'.ws = NextWs /\ home'.wsTop = NextWs
    BY <1>1, <1>6 DEF Install, HomeType
  <2>2. \A m \in Majors : pointer'[m] = IF m = home.node THEN NextDeps ELSE pointer[m]
    BY <1>1, <1>6 DEF Install, TypeOK
  <2> DEFINE row == Row("install", home.node, <<home.ws, NextWs>>, <<CurrentGen(home.node), NextDeps>>)
  <2>3. row \in RowType
    BY <1>1, <1>2, RowIs, HomeIs, GenIs DEF Install, RoomDisksAssumption
  <2>4. \A c \in Entries' : c = row \/ (~c.latest /\ \E d \in Entries : Older(c, d))
    BY <1>1, <1>6, <2>3, RecordedIs DEF Install, Journaled
  <2>5. \A m \in Majors : CurrentGen(m)' = IF m = home.node THEN NextDeps ELSE CurrentGen(m)
    BY <1>2, <2>2 DEF CurrentGen
  <2>6. RowHasItsDisks' /\ Retained'
    BY <1>1, <1>2, <1>4, <1>5, <2>1, <2>5 DEF RowHasItsDisks, Retained
  <2>7. ASSUME NEW c \in Entries'
        PROVE  Held(c)'
    <3>1. CASE c = row
      <4>1. /\ c.kind = "install" /\ c.node = home.node /\ c.ws[1] = home.ws /\ c.ws[2] = NextWs
            /\ c.deps[1] = CurrentGen(home.node) /\ c.deps[2] = NextDeps
        BY <3>1 DEF Row
      <4>2. home.kept # NextWs
        BY <1>2, <1>5, <1>1 DEF RoomDisksAssumption, Install
      <4> QED
        BY <1>1, <1>2, <1>4, <1>5, <2>1, <4>1, <4>2 DEF Held, Latest
    <3>2. CASE ~c.latest /\ \E d \in Entries : Older(c, d)
      <4>1. PICK d \in Entries : Older(c, d)
        BY <3>2
      <4>2. Held(d) /\ c.node \in Majors /\ c.deps[1] \in Nat
        BY <1>1, <1>5, <4>1, EntryIs DEF Older, RowType, RoomDisksAssumption
      <4>3. c.kind = "clean" => c.deps[1] < top'[c.node] /\ Deps(c.node, c.deps[1]) \in disks'
        BY <1>3, <1>4, <4>1, <4>2 DEF Held, Older
      <4>4. (c.kind = "switch" /\ LegacyGen = 0) => Deps(c.node, CurrentGen(c.node)') \in disks'
        BY <1>4, <2>5, <4>1, <4>2 DEF Held, Older
      <4> QED
        BY <3>2, <4>3, <4>4 DEF Held, Latest
    <3> QED
      BY <2>4, <3>1, <3>2
  <2>8. ASSUME NEW c \in Entries', NEW e \in Entries'
        PROVE  Apart(c, e)'
    <3>1. SUFFICES ASSUME Latest(c), c.kind = "install", e.kind = "clean", e.node = c.node
                   PROVE  e.deps[1] # c.deps[2]
      BY DEF Apart
    <3>2. c = row /\ e # row
      BY <2>4, <3>1 DEF Latest, Row
    <3>3. c.node = home.node /\ c.deps[2] = NextDeps
      BY <3>2 DEF Row
    <3>4. PICK d \in Entries : Older(e, d)
      BY <2>4, <3>2
    <3>5. Held(d) /\ e.deps[1] \in Nat /\ e.deps[1] < top[e.node]
      BY <1>1, <1>5, <3>1, <3>4, EntryIs DEF Held, Older, RowType, RoomDisksAssumption
    <3> QED
      BY <1>2, <1>3, <3>1, <3>3, <3>5
  <2> QED
    BY <2>6, <2>7, <2>8 DEF Kept
<1>7. CASE ~ok
  <2>1. home'.ws = home.ws /\ home'.wsTop = NextWs /\ pointer' = pointer /\ log' = log
    BY <1>1, <1>7 DEF Install, HomeType
  <2>2. Entries' = Entries /\ \A m \in Majors : CurrentGen(m)' = CurrentGen(m)
    BY <2>1 DEF Entries, CurrentGen
  <2>3. RowHasItsDisks' /\ Retained'
    BY <1>1, <1>2, <1>4, <1>5, <2>1, <2>2 DEF RowHasItsDisks, Retained
  <2>4. ASSUME NEW c \in Entries
        PROVE  Held(c)'
    <3>1. Held(c) /\ c.node \in Majors /\ c.deps[1] \in Nat
      BY <1>1, <1>5, EntryIs DEF RoomDisksAssumption
    <3>2. c.kind = "clean" => c.deps[1] < top'[c.node] /\ Deps(c.node, c.deps[1]) \in disks'
      BY <1>3, <1>4, <3>1 DEF Held
    <3> QED
      BY <1>1, <1>4, <2>1, <2>2, <3>1, <3>2 DEF Held
  <2>5. \A c, e \in Entries : Apart(c, e)'
    BY <1>5 DEF Apart
  <2> QED
    BY <2>2, <2>3, <2>4, <2>5 DEF Kept
<1> QED
  BY <1>6, <1>7

LEMMA NormalizeKeeps ==
    ASSUME RoomDisksAssumption, IInv, TypeOK', Normalize
    PROVE  Kept'
<1>1. /\ TypeOK /\ Kept /\ home.row /\ home'.row /\ home'.kept = home.kept /\ home'.node = home.node
      /\ home'.ws = NextWs /\ home'.wsTop = NextWs /\ home \in HomeType
  BY DEF IInv, Normalize, Changes, Acts, TypeOK, HomeType
<1>2. /\ home.node \in Majors /\ home.ws \in Nat /\ home.wsTop \in Nat /\ home.ws <= home.wsTop
      /\ CurrentGen(home.node) # None
      /\ NextWs \in Nat /\ NextWs > home.wsTop /\ NextWs > home.ws
  BY <1>1, HomeIs, NextIs, GenIs DEF RoomDisksAssumption, Normalize
<1>3. disks' = disks \cup {Ws(NextWs)} /\ top' = top
  BY DEF Normalize
<1>4. /\ Ws(home.ws) \in disks /\ Deps(home.node, CurrentGen(home.node)) \in disks
      /\ home.kept # None => home.kept \in Nat /\ home.kept <= home.wsTop /\ Ws(home.kept) \in disks
      /\ \A c \in Entries : Held(c)
      /\ \A c, e \in Entries : Apart(c, e)
  BY <1>1 DEF Kept, RowHasItsDisks, Retained, RoomDisksAssumption, HomeType
<1>5. \A m \in Majors : CurrentGen(m)' = CurrentGen(m)
  <2>1. \A m \in Majors : pointer'[m] = IF m = home.node THEN CurrentGen(home.node) ELSE pointer[m]
    BY <1>1, <1>2 DEF Normalize, TypeOK
  <2> QED
    BY <1>2, <2>1 DEF CurrentGen
<1> DEFINE row == Row("normalize", home.node, <<home.ws, NextWs>>, <<CurrentGen(home.node), CurrentGen(home.node)>>)
<1>6. row \in RowType
  BY <1>1, <1>2, RowIs, HomeIs, GenIs DEF Normalize, RoomDisksAssumption
<1>7. \A c \in Entries' : c = row \/ (~c.latest /\ \E d \in Entries : Older(c, d))
  BY <1>1, <1>6, RecordedIs DEF Normalize, Journaled
<1>8. RowHasItsDisks' /\ Retained'
  BY <1>1, <1>2, <1>3, <1>4, <1>5 DEF RowHasItsDisks, Retained
<1>9. ASSUME NEW c \in Entries'
      PROVE  Held(c)'
  <2>1. CASE c = row
    <3>1. c.kind = "normalize" /\ c.ws[1] = home.ws /\ c.ws[2] = NextWs
      BY <2>1 DEF Row
    <3>2. home.kept # NextWs
      BY <1>1, <1>2, <1>4 DEF RoomDisksAssumption, Normalize
    <3> QED
      BY <1>1, <1>2, <1>3, <1>4, <3>1, <3>2 DEF Held, Latest
  <2>2. CASE ~c.latest /\ \E d \in Entries : Older(c, d)
    <3>1. PICK d \in Entries : Older(c, d)
      BY <2>2
    <3>2. Held(d) /\ c.node \in Majors
      BY <1>1, <1>4, <3>1, EntryIs DEF Older, RowType
    <3> QED
      BY <1>3, <1>5, <2>2, <3>1, <3>2 DEF Held, Latest, Older
  <2> QED
    BY <1>7, <2>1, <2>2
<1>10. ASSUME NEW c \in Entries', NEW e \in Entries'
       PROVE  Apart(c, e)'
  BY <1>7 DEF Apart, Latest, Row
<1> QED
  BY <1>8, <1>9, <1>10 DEF Kept

LEMMA CleanKeeps ==
    ASSUME RoomDisksAssumption, IInv, TypeOK', Clean
    PROVE  Kept'
<1>1. TypeOK /\ Kept /\ home.row /\ home' = home /\ home \in HomeType
  BY DEF IInv, Clean, Changes, Acts, TypeOK
<1>2. /\ home.node \in Majors /\ CurrentGen(home.node) \in Nat /\ CurrentGen(home.node) # None
      /\ NextDeps \in Nat /\ NextDeps > top[home.node] /\ NextDeps > CurrentGen(home.node)
      /\ NextDeps # None
  BY <1>1, HomeIs, NextIs, GenIs DEF RoomDisksAssumption, Clean
<1>3. disks' = disks \cup {Deps(home.node, NextDeps)}
  BY DEF Clean
<1>4. /\ Ws(home.ws) \in disks /\ Deps(home.node, CurrentGen(home.node)) \in disks
      /\ home.kept # None => Ws(home.kept) \in disks
      /\ \A c \in Entries : Held(c)
  BY <1>1 DEF Kept, RowHasItsDisks
<1>5. \A m \in Majors : /\ CurrentGen(m)' = IF m = home.node THEN NextDeps ELSE CurrentGen(m)
                        /\ top[m] \in Nat /\ top'[m] = IF m = home.node THEN NextDeps ELSE top[m]
  <2>1. \A m \in Majors : /\ pointer'[m] = IF m = home.node THEN NextDeps ELSE pointer[m]
                          /\ top[m] \in Nat /\ top'[m] = IF m = home.node THEN NextDeps ELSE top[m]
    BY <1>1, <1>2 DEF Clean, TypeOK, RoomDisksAssumption
  <2> QED
    BY <1>2, <2>1 DEF CurrentGen
<1> DEFINE row == Row("clean", home.node, <<home.ws, home.ws>>, <<CurrentGen(home.node), NextDeps>>)
<1>6. row \in RowType
  BY <1>1, <1>2, RowIs, HomeIs, GenIs DEF Clean, RoomDisksAssumption
<1>7. \A c \in Entries' : c = row \/ (~c.latest /\ \E d \in Entries : Older(c, d))
  BY <1>1, <1>6, RecordedIs DEF Clean, Journaled
<1>8. RowHasItsDisks' /\ Retained'
  <2>1. Retained'
    BY <1>1 DEF Kept, Retained
  <2> QED
    BY <1>1, <1>2, <1>3, <1>4, <1>5, <2>1 DEF RowHasItsDisks
<1>9. ASSUME NEW c \in Entries'
      PROVE  Held(c)'
  <2>1. CASE c = row
    <3>1. c.kind = "clean" /\ c.node = home.node /\ c.deps[1] = CurrentGen(home.node)
      BY <2>1 DEF Row
    <3> QED
      BY <1>1, <1>2, <1>3, <1>4, <1>5, <3>1 DEF Held, Latest
  <2>2. CASE ~c.latest /\ \E d \in Entries : Older(c, d)
    <3>1. PICK d \in Entries : Older(c, d)
      BY <2>2
    <3>2. Held(d) /\ c.node \in Majors /\ c.deps[1] \in Nat
      BY <1>1, <1>4, <3>1, EntryIs DEF Older, RowType, RoomDisksAssumption
    <3>3. c.kind = "clean" => c.deps[1] < top'[c.node] /\ Deps(c.node, c.deps[1]) \in disks'
      BY <1>2, <1>3, <1>5, <3>1, <3>2 DEF Held, Older
    <3>4. (c.kind = "switch" /\ LegacyGen = 0) => Deps(c.node, CurrentGen(c.node)') \in disks'
      BY <1>3, <1>5, <3>1, <3>2 DEF Held, Older
    <3> QED
      BY <2>2, <3>3, <3>4 DEF Held, Latest
  <2> QED
    BY <1>7, <2>1, <2>2
<1>10. ASSUME NEW c \in Entries', NEW e \in Entries'
       PROVE  Apart(c, e)'
  BY <1>7 DEF Apart, Latest, Row
<1> QED
  BY <1>8, <1>9, <1>10 DEF Kept

LEMMA SwitchKeeps ==
    ASSUME RoomDisksAssumption, IInv, TypeOK', NEW m \in Majors, SwitchNode(m)
    PROVE  Kept'
<1>1. /\ TypeOK /\ Kept /\ home.row /\ home'.row /\ home'.kept = home.kept /\ home'.node = m
      /\ home'.ws = home.ws /\ home'.wsTop = home.wsTop /\ home \in HomeType
  BY DEF IInv, SwitchNode, Changes, Acts, TypeOK, HomeType
<1>2. home.node \in Majors /\ 0 \in 0 .. MaxGen
  BY <1>1, HomeIs DEF RoomDisksAssumption
<1>3. disks' = disks \cup {Deps(m, CurrentGen(m))} /\ pointer' = pointer /\ top' = top
  BY DEF SwitchNode
<1>4. /\ Ws(home.ws) \in disks /\ Deps(home.node, CurrentGen(home.node)) \in disks
      /\ home.kept # None => Ws(home.kept) \in disks
      /\ \A c \in Entries : Held(c)
      /\ \A c, e \in Entries : Apart(c, e)
  BY <1>1 DEF Kept, RowHasItsDisks
<1>5. \A n \in Majors : CurrentGen(n)' = CurrentGen(n)
  BY <1>3 DEF CurrentGen
<1> DEFINE row == Row("switch", home.node, <<home.ws, home.ws>>, <<0, 0>>)
<1>6. row \in RowType
  BY <1>1, <1>2, RowIs, HomeIs
<1>7. Entries' = Entries \cup {row}
  <2>1. log \in Seq(RowType) /\ log' = Append(log, row)
    BY <1>1 DEF TypeOK, SwitchNode, Journaled
  <2> QED
    BY <1>6, <2>1, AppendedIs DEF Entries
<1>8. RowHasItsDisks' /\ Retained'
  <2>1. Retained'
    BY <1>1 DEF Kept, Retained
  <2> QED
    BY <1>1, <1>3, <1>4, <1>5, <2>1 DEF RowHasItsDisks
<1>9. ASSUME NEW c \in Entries'
      PROVE  Held(c)'
  <2>1. CASE c = row
    <3>1. c.kind = "switch" /\ c.node = home.node
      BY <2>1 DEF Row
    <3> QED
      BY <1>2, <1>3, <1>4, <1>5, <3>1 DEF Held, Latest
  <2>2. CASE c \in Entries
    <3>1. Held(c) /\ c.node \in Majors
      BY <1>1, <1>4, <2>2, EntryIs
    <3> QED
      BY <1>1, <1>3, <1>5, <3>1 DEF Held, Latest
  <2> QED
    BY <1>7, <2>1, <2>2
<1>10. ASSUME NEW c \in Entries', NEW e \in Entries'
       PROVE  Apart(c, e)'
  BY <1>4, <1>7 DEF Apart, Latest, Row
<1> QED
  BY <1>8, <1>9, <1>10 DEF Kept

LEMMA SyncKeeps ==
    ASSUME RoomDisksAssumption, IInv, TypeOK', Sync
    PROVE  Kept'
<1>1. /\ TypeOK /\ Kept /\ home.row /\ home'.row /\ home'.kept = home.ws /\ home'.node = home.node
      /\ home'.ws = NextWs /\ home'.wsTop = NextWs /\ home \in HomeType
  BY DEF IInv, Sync, Changes, Acts, TypeOK, HomeType
<1>2. /\ home.node \in Majors /\ home.ws \in Nat /\ NextWs \in Nat /\ NextWs > home.ws
  BY <1>1, HomeIs, NextIs DEF RoomDisksAssumption
<1>3. PICK dropped \in {{}, {Ws(g) : g \in {home.kept} \cap (1 .. home.ws - 1)}} :
         disks' = (disks \ dropped) \cup {Ws(NextWs)}
  BY DEF Sync
<1>4. \A d \in dropped : \E g \in 1 .. home.ws - 1 : d = Ws(g)
  BY <1>3
<1>5. Ws(home.ws) \notin dropped /\ \A n \in Majors, g \in Nat : Deps(n, g) \notin dropped
  BY <1>2, <1>4 DEF Ws, Deps
<1>6. /\ Ws(home.ws) \in disks /\ Deps(home.node, CurrentGen(home.node)) \in disks
      /\ \A c \in Entries : Held(c)
  BY <1>1 DEF Kept, RowHasItsDisks
<1>7. \A n \in Majors : CurrentGen(n)' = CurrentGen(n) /\ CurrentGen(n) \in Nat
  BY <1>1, GenIs DEF CurrentGen, Sync, RoomDisksAssumption
<1>8. \A c \in Entries' : ~c.latest /\ \E d \in Entries : Older(c, d)
  BY <1>1, AgedAll DEF Sync
<1>9. RowHasItsDisks' /\ Retained'
  <2>1. Retained'
    BY <1>1, <1>2 DEF Retained
  <2>2. Ws(home.ws) \in disks' /\ Ws(NextWs) \in disks' /\ Deps(home.node, CurrentGen(home.node)) \in disks'
    BY <1>2, <1>3, <1>5, <1>6, <1>7
  <2> QED
    BY <1>1, <1>2, <1>7, <2>1, <2>2 DEF RowHasItsDisks
<1>10. ASSUME NEW c \in Entries'
       PROVE  Held(c)'
  <2>1. PICK d \in Entries : Older(c, d)
    BY <1>8, <1>10
  <2>2. Held(d) /\ c.node \in Majors /\ c.deps[1] \in Nat /\ top' = top
    BY <1>1, <1>6, <2>1, EntryIs DEF Older, RowType, Sync, RoomDisksAssumption
  <2>3. c.kind = "clean" => c.deps[1] < top'[c.node] /\ Deps(c.node, c.deps[1]) \in disks'
    BY <1>3, <1>5, <2>1, <2>2 DEF Held, Older
  <2>4. (c.kind = "switch" /\ LegacyGen = 0) => Deps(c.node, CurrentGen(c.node)') \in disks'
    BY <1>3, <1>5, <1>7, <2>1, <2>2 DEF Held, Older
  <2> QED
    BY <1>8, <2>3, <2>4 DEF Held, Latest
<1>11. \A c, e \in Entries' : Apart(c, e)'
  BY <1>8 DEF Apart, Latest
<1> QED
  BY <1>9, <1>10, <1>11 DEF Kept

\* An undo goes back to volumes that are there, and takes nothing away that another
\* change or the Room still names.
LEMMA UndoKeeps ==
    ASSUME RoomDisksAssumption, IInv, NEW i \in DOMAIN log, Undo(i)
    PROVE  TypeOK' /\ Kept'
<1> DEFINE c == log[i]
<1>1. /\ TypeOK /\ Kept /\ home.row /\ home \in HomeType /\ Undoable(i)
      /\ top' = top /\ used' = used /\ sweep' = sweep /\ sweeps' = sweeps
  BY DEF IInv, Undo, Changes, Acts, TypeOK
<1>2. c \in Entries /\ c \in RowType /\ c.node \in Majors
      /\ c.ws[1] \in 0 .. MaxGen /\ c.ws[2] \in 0 .. MaxGen /\ c.deps[1] \in 0 .. MaxGen /\ c.deps[2] \in 0 .. MaxGen
  <2>1. c \in Entries
    BY DEF Entries, ToSet
  <2> QED
    BY <1>1, <2>1, EntryIs
<1>3. /\ Ws(home.ws) \in disks /\ Deps(home.node, CurrentGen(home.node)) \in disks
      /\ home.kept # None => /\ home.kept \in 0 .. MaxGen /\ home.kept <= home.wsTop
                             /\ Ws(home.kept) \in disks
      /\ \A d \in Entries : Held(d)
      /\ \A d, e \in Entries : Apart(d, e)
  BY <1>1 DEF Kept, RowHasItsDisks, Retained, HomeType
<1>4. home.node \in Majors /\ home.ws \in 0 .. MaxGen /\ home.wsTop \in 0 .. MaxGen /\ home.ws <= home.wsTop
  BY <1>1, HomeIs
<1>5. changes' \in 0 .. MaxChanges
  BY <1>1 DEF TypeOK, Undo, Changes, RoomDisksAssumption
<1>6. \A m \in Majors : CurrentGen(m) \in 0 .. MaxGen /\ CurrentGen(m) # None
  BY <1>1, GenIs
<1>7. ASSUME c.kind \in {"install", "normalize"}
      PROVE  TypeOK' /\ Kept'
  <2>1. /\ home' = [home EXCEPT !.ws = c.ws[1]] /\ pointer' = [pointer EXCEPT ![c.node] = c.deps[1]]
        /\ log' = Aged(RemoveAt(log, i)) /\ home.ws = c.ws[2] /\ Latest(c)
    BY <1>1, <1>7 DEF Undo, Undoable, Latest
  <2>2. /\ c.ws[1] < c.ws[2] /\ home.kept # c.ws[2] /\ Ws(c.ws[1]) \in disks
        /\ c.kind = "install" => /\ c.deps[1] # c.deps[2] /\ Deps(c.node, c.deps[1]) \in disks
                                 /\ c.node = home.node /\ CurrentGen(c.node) = c.deps[2]
        /\ c.kind = "normalize" => CurrentGen(c.node) = c.deps[1]
    <3>1. Held(c)
      BY <1>2, <1>3
    <3> QED
      BY <1>1, <2>1, <3>1 DEF Held, Undoable
  <2>3. /\ home' \in HomeType /\ home'.ws = c.ws[1] /\ home'.wsTop = home.wsTop /\ home'.kept = home.kept
        /\ home'.node = home.node /\ home'.row
    BY <1>1, <1>2, <2>1 DEF HomeType
  <2>4. c.ws[1] <= home.wsTop
    BY <1>2, <1>4, <2>1, <2>2 DEF RoomDisksAssumption
  <2>5. /\ disks' \subseteq disks
        /\ \A d \in disks \ disks' : d = Ws(c.ws[2]) \/ (c.kind = "install" /\ d = Deps(c.node, c.deps[2]))
    BY <1>7 DEF Undo
  <2>6. pointer' \in [Majors -> {None} \cup (0 .. MaxGen)]
    BY <1>1, <1>2, <2>1 DEF TypeOK
  <2>7. log' \in Seq(RowType) /\ \A d \in Entries' : ~d.latest /\ \E e \in Entries : Older(d, e)
    BY <1>1, <2>1, UndoneIs
  <2>8. TypeOK'
    BY <1>1, <1>5, <2>3, <2>4, <2>5, <2>6, <2>7 DEF TypeOK
  <2>9. \A m \in Majors : CurrentGen(m)' = IF m = c.node THEN c.deps[1] ELSE CurrentGen(m)
    <3>1. \A m \in Majors : pointer'[m] = IF m = c.node THEN c.deps[1] ELSE pointer[m]
      BY <1>1, <2>1 DEF TypeOK
    <3>2. c.deps[1] # None
      BY <1>2 DEF RoomDisksAssumption
    <3> QED
      BY <3>1, <3>2 DEF CurrentGen
  <2>10. \A d \in disks : d # Ws(c.ws[2]) /\ (c.kind = "install" => d # Deps(c.node, c.deps[2])) => d \in disks'
    BY <2>5
  <2>11. \A m \in Majors : Deps(m, CurrentGen(m)) \in disks => Deps(m, CurrentGen(m)') \in disks'
    <3>1. SUFFICES ASSUME NEW m \in Majors, Deps(m, CurrentGen(m)) \in disks
                   PROVE  Deps(m, CurrentGen(m)') \in disks'
      OBVIOUS
    <3>2. CASE c.kind = "install" /\ m = c.node
      <4>1. CurrentGen(m)' = c.deps[1] /\ Deps(m, c.deps[1]) \in disks
        BY <2>2, <2>9, <3>2
      <4>2. Deps(m, c.deps[1]) # Ws(c.ws[2]) /\ Deps(m, c.deps[1]) # Deps(c.node, c.deps[2])
        BY <2>2, <3>2 DEF Deps, Ws
      <4> QED
        BY <2>10, <4>1, <4>2
    <3>3. CASE ~(c.kind = "install" /\ m = c.node)
      <4>1. CurrentGen(m)' = CurrentGen(m)
        BY <1>7, <2>2, <2>9, <3>3
      <4>2. Deps(m, CurrentGen(m)) # Ws(c.ws[2])
            /\ (c.kind = "install" => Deps(m, CurrentGen(m)) # Deps(c.node, c.deps[2]))
        BY <3>3 DEF Deps, Ws
      <4> QED
        BY <2>10, <3>1, <4>1, <4>2
    <3> QED
      BY <3>2, <3>3
  <2>12. RowHasItsDisks' /\ Retained'
    <3>1. Ws(c.ws[1]) # Ws(c.ws[2]) /\ Ws(c.ws[1]) # Deps(c.node, c.deps[2])
      BY <1>2, <2>2 DEF Ws, Deps
    <3>2. Ws(c.ws[1]) \in disks'
      BY <2>2, <2>10, <3>1
    <3>3. home.kept # None => Ws(home.kept) \in disks'
      BY <1>3, <2>2, <2>10 DEF Ws, Deps
    <3>4. \A m \in Majors : m = home.node => Deps(m, CurrentGen(m)') \in disks'
      BY <1>3, <2>11
    <3>5. Deps(home'.node, CurrentGen(home.node)') \in disks'
      BY <1>4, <2>3, <3>4 DEF CurrentGen
    <3> QED
      BY <1>3, <2>3, <3>2, <3>3, <3>5 DEF RowHasItsDisks, Retained
  <2>13. ASSUME NEW d \in Entries'
         PROVE  Held(d)'
    <3>1. PICK e \in Entries : Older(d, e)
      BY <2>7, <2>13
    <3>2. Held(e) /\ d.node \in Majors
      BY <1>1, <1>3, <3>1, EntryIs DEF Older, RowType
    <3>3. d.kind = "clean" => d.deps[1] < top'[d.node] /\ Deps(d.node, d.deps[1]) \in disks'
      <4>1. SUFFICES ASSUME d.kind = "clean"
                     PROVE  d.deps[1] < top[d.node] /\ Deps(d.node, d.deps[1]) \in disks'
        BY <1>1
      <4>2. d.deps[1] < top[d.node] /\ Deps(d.node, d.deps[1]) \in disks
        BY <3>1, <3>2, <4>1 DEF Held, Older
      <4>3. c.kind = "install" => Deps(d.node, d.deps[1]) # Deps(c.node, c.deps[2])
        BY <1>2, <1>3, <2>1, <3>1, <4>1 DEF Apart, Older, Deps
      <4>4. Deps(d.node, d.deps[1]) # Ws(c.ws[2])
        BY DEF Deps, Ws
      <4> QED
        BY <2>10, <4>2, <4>3, <4>4
    <3>4. (d.kind = "switch" /\ LegacyGen = 0) => Deps(d.node, CurrentGen(d.node)') \in disks'
      BY <2>11, <3>1, <3>2 DEF Held, Older
    <3> QED
      BY <2>7, <3>3, <3>4 DEF Held, Latest
  <2>14. \A d, e \in Entries' : Apart(d, e)'
    BY <2>7 DEF Apart, Latest
  <2> QED
    BY <2>8, <2>12, <2>13, <2>14 DEF Kept
<1>8. ASSUME c.kind = "clean"
      PROVE  TypeOK' /\ Kept'
  <2>1. /\ pointer' = [pointer EXCEPT ![c.node] = c.deps[1]] /\ home' = home /\ disks' = disks
        /\ log' = Aged(RemoveAt(log, i)) /\ c.node = home.node
    BY <1>1, <1>8 DEF Undo, Undoable
  <2>2. Deps(c.node, c.deps[1]) \in disks
    BY <1>2, <1>3, <1>8 DEF Held
  <2>3. pointer' \in [Majors -> {None} \cup (0 .. MaxGen)]
    BY <1>1, <1>2, <2>1 DEF TypeOK
  <2>4. log' \in Seq(RowType) /\ \A d \in Entries' : ~d.latest /\ \E e \in Entries : Older(d, e)
    BY <1>1, <2>1, UndoneIs
  <2>5. TypeOK'
    BY <1>1, <1>5, <2>1, <2>3, <2>4 DEF TypeOK
  <2>6. \A m \in Majors : CurrentGen(m)' = IF m = c.node THEN c.deps[1] ELSE CurrentGen(m)
    <3>1. \A m \in Majors : pointer'[m] = IF m = c.node THEN c.deps[1] ELSE pointer[m]
      BY <1>1, <2>1 DEF TypeOK
    <3>2. c.deps[1] # None
      BY <1>2 DEF RoomDisksAssumption
    <3> QED
      BY <3>1, <3>2 DEF CurrentGen
  <2>7. RowHasItsDisks' /\ Retained'
    <3>1. Retained'
      BY <1>1, <2>1 DEF Kept, Retained
    <3> QED
      BY <1>3, <1>4, <2>1, <2>2, <2>6, <3>1 DEF RowHasItsDisks
  <2>8. ASSUME NEW d \in Entries'
        PROVE  Held(d)'
    <3>1. PICK e \in Entries : Older(d, e)
      BY <2>4, <2>8
    <3>2. Held(e) /\ d.node \in Majors
      BY <1>1, <1>3, <3>1, EntryIs DEF Older, RowType
    <3>3. d.kind = "clean" => d.deps[1] < top'[d.node] /\ Deps(d.node, d.deps[1]) \in disks'
      BY <1>1, <2>1, <3>1, <3>2 DEF Held, Older
    <3>4. (d.kind = "switch" /\ LegacyGen = 0) => Deps(d.node, CurrentGen(d.node)') \in disks'
      BY <2>1, <2>2, <2>6, <3>1, <3>2 DEF Held, Older
    <3> QED
      BY <2>4, <3>3, <3>4 DEF Held, Latest
  <2>9. \A d, e \in Entries' : Apart(d, e)'
    BY <2>4 DEF Apart, Latest
  <2> QED
    BY <2>5, <2>7, <2>8, <2>9 DEF Kept
<1>9. ASSUME c.kind = "switch"
      PROVE  TypeOK' /\ Kept'
  <2>1. /\ home' = [home EXCEPT !.node = c.node] /\ pointer' = pointer
        /\ disks' = disks \cup {Deps(c.node, CurrentGen(c.node))} /\ log' = RemoveAt(log, i)
    BY <1>9 DEF Undo
  <2>2. log' \in Seq(RowType) /\ \A d \in Entries' : \E e \in Entries : Older(d, e)
    BY <1>1, <2>1, UnswitchedIs
  <2>3. /\ home' \in HomeType /\ home'.ws = home.ws /\ home'.wsTop = home.wsTop /\ home'.kept = home.kept
        /\ home'.node = c.node /\ home'.row
    BY <1>1, <1>2, <2>1 DEF HomeType
  <2>4. disks' \subseteq DiskType
    BY <1>1, <1>2, <1>6, <2>1, DiskIs DEF TypeOK
  <2>5. TypeOK'
    BY <1>1, <1>4, <1>5, <2>1, <2>2, <2>3, <2>4 DEF TypeOK
  <2>6. \A m \in Majors : CurrentGen(m)' = CurrentGen(m)
    BY <2>1 DEF CurrentGen
  <2>7. RowHasItsDisks' /\ Retained'
    <3>1. Retained'
      BY <1>1, <2>3 DEF Kept, Retained
    <3> QED
      BY <1>2, <1>3, <2>1, <2>3, <2>6, <3>1 DEF RowHasItsDisks
  <2>8. ASSUME NEW d \in Entries'
        PROVE  Held(d)'
    <3>1. PICK e \in Entries : Older(d, e)
      BY <2>2, <2>8
    <3>2. Held(e) /\ d.node \in Majors
      BY <1>1, <1>3, <3>1, EntryIs DEF Older, RowType
    <3> QED
      BY <1>1, <2>1, <2>3, <2>6, <3>1, <3>2 DEF Held, Latest, Older
  <2>9. ASSUME NEW d \in Entries', NEW e \in Entries'
        PROVE  Apart(d, e)'
    <3>1. PICK x \in Entries : Older(d, x)
      BY <2>2
    <3>2. PICK y \in Entries : Older(e, y)
      BY <2>2
    <3>3. Apart(x, y)
      BY <1>3
    <3> QED
      BY <3>1, <3>2, <3>3 DEF Apart, Latest, Older
  <2> QED
    BY <2>5, <2>7, <2>8, <2>9 DEF Kept
<1> QED
  BY <1>2, <1>7, <1>8, <1>9 DEF RowType

\* What leaves the Room's generations and their volumes where they are keeps all of it.
LEMMA StillKept ==
    ASSUME RoomDisksAssumption, TypeOK, Kept, pointer' = pointer, top' = top,
           home'.row = home.row, home'.ws = home.ws, home'.wsTop = home.wsTop, home'.kept = home.kept,
           home'.node = home.node,
           \A d \in disks : d.kind \in {"ws", "deps"} => d \in disks',
           \A c \in Entries' : \E d \in Entries : Older(c, d)
    PROVE  Kept'
<1>1. \A g : Ws(g) \in disks => Ws(g) \in disks'
  BY DEF Ws
<1>2. \A m, g : Deps(m, g) \in disks => Deps(m, g) \in disks'
  BY DEF Deps
<1>3. \A m \in Majors : CurrentGen(m)' = CurrentGen(m)
  BY DEF CurrentGen
<1>4. RowHasItsDisks' /\ Retained'
  <2>1. home.node \in Majors
    BY HomeIs
  <2> QED
    BY <1>1, <1>2, <1>3, <2>1 DEF Kept, RowHasItsDisks, Retained
<1>5. ASSUME home.row, NEW c \in Entries'
      PROVE  Held(c)'
  <2>1. PICK d \in Entries : Older(c, d)
    BY <1>5
  <2>2. Held(d) /\ c.node \in Majors
    BY <1>5, <2>1, EntryIs DEF Kept, Older, RowType
  <2>3. Latest(c) => Latest(d)
    BY <2>1 DEF Latest, Older
  <2> QED
    BY <1>1, <1>2, <1>3, <2>1, <2>2, <2>3 DEF Held, Older
<1>6. ASSUME home.row, NEW c \in Entries', NEW e \in Entries'
      PROVE  Apart(c, e)'
  <2>1. PICK x \in Entries : Older(c, x)
    BY <1>6
  <2>2. PICK y \in Entries : Older(e, y)
    BY <1>6
  <2>3. Apart(x, y)
    BY <1>6 DEF Kept
  <2> QED
    BY <2>1, <2>2, <2>3 DEF Apart, Latest, Older
<1> QED
  BY <1>4, <1>5, <1>6 DEF Kept

LEMMA EditKeeps ==
    ASSUME RoomDisksAssumption, TypeOK, Kept, Edit
    PROVE  Kept'
<1>1. \A c \in Entries' : \E d \in Entries : Older(c, d)
  BY AgedAll DEF Edit
<1> QED
  BY <1>1, StillKept DEF Edit

LEMMA QuietKeeps ==
    ASSUME RoomDisksAssumption, TypeOK, Kept,
           Announce \/ Build \/ OperationEnds \/ Fence \/ Attach \/ Observe \/ Skip \/ (\E d \in disks : Plan(d))
    PROVE  Kept'
<1>1. /\ pointer' = pointer /\ top' = top /\ log' = log
      /\ home' = home \/ \E g : home' = [home EXCEPT !.guard = g]
      /\ disks \subseteq disks' \/ disks' = disks \ {Snapshot}
  BY DEF Announce, Build, OperationEnds, Fence, Attach, Observe, Skip, Plan
<1>2. /\ home'.row = home.row /\ home'.ws = home.ws /\ home'.wsTop = home.wsTop /\ home'.kept = home.kept
      /\ home'.node = home.node
  BY <1>1 DEF TypeOK, HomeType
<1>3. \A d \in disks : d.kind \in {"ws", "deps"} => d \in disks'
  BY <1>1 DEF Snapshot
<1>4. \A c \in Entries' : \E d \in Entries : Older(c, d)
  BY <1>1, SameHistory
<1> QED
  BY <1>1, <1>2, <1>3, <1>4, StillKept

LEMMA DeleteKeeps ==
    ASSUME TypeOK, Kept, Delete
    PROVE  Kept'
<1>1. ~home'.row /\ home'.kept = home.kept /\ home'.wsTop = home.wsTop
  BY DEF Delete, TypeOK, HomeType
<1> QED
  BY <1>1 DEF Kept, RowHasItsDisks, Retained

\* What the history names is among the references of the sweep.
LEMMA Referenced ==
    ASSUME NEW i \in DOMAIN log
    PROVE  /\ log[i].kind = "install" /\ home.ws = log[i].ws[2] =>
                 {Ws(log[i].ws[1]), Deps(log[i].node, log[i].deps[1])} \subseteq UndoReferences
           /\ log[i].kind = "normalize" => Ws(log[i].ws[1]) \in UndoReferences
           /\ log[i].kind = "clean" => Deps(log[i].node, log[i].deps[1]) \in UndoReferences
           /\ log[i].kind = "switch" => log[i].node \in NodesOfUndo
<1> DEFINE refs(c) == CASE c.kind = "install" ->
                             IF home.ws # c.ws[2] THEN {}
                             ELSE {Ws(c.ws[1]), Ws(c.ws[2]), Deps(c.node, c.deps[1]), Deps(c.node, c.deps[2])}
                        [] c.kind = "normalize" -> {Ws(c.ws[1])}
                        [] c.kind = "clean" -> {Deps(c.node, c.deps[1])}
                        [] c.kind = "switch" -> {}
<1>1. UndoReferences = UNION {refs(log[j]) : j \in DOMAIN log}
  BY DEF UndoReferences
<1>2. refs(log[i]) \subseteq UndoReferences
  BY <1>1
<1>3. log[i].kind = "switch" => log[i].node \in NodesOfUndo
  BY DEF NodesOfUndo
<1> QED
  BY <1>2, <1>3

\* The sweep takes away nothing that the Room or its history still needs.
LEMMA CollectKeeps ==
    ASSUME RoomDisksAssumption, TypeOK, Kept, Collect
    PROVE  Kept'
<1> DEFINE at == sweep.at
<1>1. home' = home /\ pointer' = pointer /\ top' = top /\ log' = log /\ Entries' = Entries
  BY DEF Collect, Entries
<1>2. CASE ~home.row
  BY <1>1, <1>2 DEF Kept, RowHasItsDisks, Retained
<1>3. CASE home.row /\ disks' = disks
  <2>1. \A c \in Entries' : \E d \in Entries : Older(c, d)
    BY <1>1, SameHistory
  <2> QED
    BY <1>1, <1>3, <2>1, StillKept
<1>4. CASE home.row /\ disks' # disks
  <2>1. disks' = disks \ {at} /\ Stale(at)
    BY <1>4 DEF Collect, SafeToDelete
  <2>2. \A g : Ws(g) = at => g < home.ws /\ g # home.kept /\ Ws(g) \notin UndoReferences
    <3>1. at.kind = "ws" => at.gen < home.ws /\ at.gen # home.kept /\ at \notin UndoReferences
      BY <2>1 DEF Stale
    <3> HIDE DEF at
    <3>2. \A g : Ws(g).kind = "ws" /\ Ws(g).gen = g
      BY DEF Ws
    <3> QED
      BY <3>1, <3>2
  <2>3. \A m, g : Deps(m, g) = at => /\ g = ListedGen(m) => m \notin NodesOfUndo \cup {home.node}
                                    /\ Deps(m, g) \notin UndoReferences
    <3>1. at.kind = "deps" => /\ at.gen = ListedGen(at.major) => at.major \notin NodesOfUndo \cup {home.node}
                              /\ at \notin UndoReferences
      BY <2>1 DEF Stale
    <3> HIDE DEF at
    <3>2. \A m, g : Deps(m, g).kind = "deps" /\ Deps(m, g).gen = g /\ Deps(m, g).major = m
      BY DEF Deps
    <3> QED
      BY <3>1, <3>2
  <2>4. \A m \in Majors : CurrentGen(m)' = CurrentGen(m)
    BY <1>1 DEF CurrentGen
  <2>5. /\ Ws(home.ws) \in disks /\ Deps(home.node, CurrentGen(home.node)) \in disks
        /\ home.kept # None => Ws(home.kept) \in disks
        /\ \A c \in Entries : Held(c)
        /\ \A c, e \in Entries : Apart(c, e)
    BY <1>4 DEF Kept, RowHasItsDisks
  <2>6. home.node \in Majors /\ home.ws \in Nat
    BY HomeIs DEF RoomDisksAssumption
  <2>7. RowHasItsDisks' /\ Retained'
    <3>1. Ws(home.ws) \in disks'
      BY <2>1, <2>2, <2>5, <2>6
    <3>2. home.kept # None => Ws(home.kept) \in disks'
      BY <2>1, <2>2, <2>5
    <3>3. CurrentGen(home.node) = ListedGen(home.node)
      BY DEF CurrentGen, ListedGen
    <3>4. Deps(home.node, CurrentGen(home.node)) \in disks'
      BY <2>1, <2>3, <2>5, <3>3
    <3>5. Retained'
      BY <1>1 DEF Kept, Retained
    <3> QED
      BY <1>1, <2>4, <2>6, <3>1, <3>2, <3>4, <3>5 DEF RowHasItsDisks
  <2>8. ASSUME NEW c \in Entries
        PROVE  Held(c)'
    <3>1. PICK i \in DOMAIN log : c = log[i]
      BY <2>8 DEF Entries, ToSet
    <3>2. Held(c) /\ c.node \in Majors
      BY <2>5, EntryIs
    <3>3. Latest(c) => Ws(c.ws[1]) \in disks'
      BY <2>1, <2>2, <3>1, <3>2, Referenced DEF Held, Latest
    <3>4. (Latest(c) /\ c.kind = "install") => Deps(c.node, c.deps[1]) \in disks'
      BY <2>1, <2>3, <3>1, <3>2, Referenced DEF Held, Latest
    <3>5. c.kind = "clean" => Deps(c.node, c.deps[1]) \in disks'
      BY <2>1, <2>3, <3>1, <3>2, Referenced DEF Held
    <3>6. (c.kind = "switch" /\ LegacyGen = 0) => Deps(c.node, CurrentGen(c.node)) \in disks'
      <4>1. SUFFICES ASSUME c.kind = "switch", LegacyGen = 0
                     PROVE  Deps(c.node, CurrentGen(c.node)) \in disks'
        OBVIOUS
      <4>2. CurrentGen(c.node) = ListedGen(c.node)
        BY <4>1 DEF CurrentGen, ListedGen
      <4>3. c.node \in NodesOfUndo
        BY <3>1, <4>1, Referenced
      <4>4. Deps(c.node, CurrentGen(c.node)) # at
        BY <2>3, <4>2, <4>3
      <4> QED
        BY <2>1, <3>2, <4>1, <4>4 DEF Held
    <3> QED
      BY <1>1, <2>4, <3>2, <3>3, <3>4, <3>5, <3>6 DEF Held
  <2>9. \A c, e \in Entries : Apart(c, e)'
    BY <2>5 DEF Apart
  <2> QED
    BY <1>1, <2>7, <2>8, <2>9 DEF Kept
<1> QED
  BY <1>2, <1>3, <1>4

-----------------------------------------------------------------------------
(* The theorems                                                             *)

LEMMA InitHolds ==
    ASSUME RoomDisksAssumption, Init
    PROVE  IInv
<1>1. PICK m \in Majors :
         /\ home = [row |-> TRUE, dir |-> TRUE, guard |-> "none", node |-> m, ws |-> 0, wsTop |-> 0, kept |-> None]
         /\ disks = {Ws(0), Deps(m, LegacyGen), Pod}
  BY DEF Init
<1>2. 0 \in 0 .. MaxGen /\ LegacyGen \in 0 .. MaxGen
  BY DEF RoomDisksAssumption
<1>3. home \in HomeType /\ home.ws <= home.wsTop
  <2>1. None \in {None} \cup (0 .. MaxGen) /\ "none" \in {"none", "operation", "fence"}
    OBVIOUS
  <2>2. home \in HomeType
    BY <1>1, <1>2, <2>1, Zenon DEF HomeType
  <2>3. home.ws = 0 /\ home.wsTop = 0
    BY <1>1
  <2> QED
    BY <2>2, <2>3
<1>4. disks \subseteq DiskType /\ sweep \in [phase : {"idle", "planned", "locked"}, at : DiskType]
  BY <1>1, <1>2, DiskIs DEF Init, NoSweep
<1>5. log \in Seq(RowType) /\ Entries = {}
  BY DEF Init, Entries, ToSet
<1>6. TypeOK
  <2>1. pointer \in [Majors -> {None} \cup (0 .. MaxGen)] /\ top \in [Majors -> 0 .. MaxGen]
    BY <1>2 DEF Init
  <2>2. used \in BOOLEAN
    <3>1. used = FALSE
      BY DEF Init
    <3> QED
      BY <3>1
  <2>3. changes \in 0 .. MaxChanges /\ sweeps \in 0 .. MaxSweeps
    <3>1. changes = 0 /\ sweeps = 0
      BY DEF Init
    <3> QED
      BY <3>1 DEF RoomDisksAssumption
  <2> QED
    BY <1>3, <1>4, <1>5, <2>1, <2>2, <2>3 DEF TypeOK
<1>7. CurrentGen(home.node) = LegacyGen
  BY <1>1 DEF Init, CurrentGen
<1>8. Kept
  BY <1>1, <1>5, <1>7 DEF Kept, RowHasItsDisks, Retained
<1>9. Counted
  BY DEF Counted, Init, NoSweep
<1> QED
  BY <1>6, <1>8, <1>9 DEF IInv

LEMMA StepHolds ==
    ASSUME RoomDisksAssumption, IInv, [Next]_vars
    PROVE  IInv'
<1>1. TypeOK /\ Kept /\ Counted
  BY DEF IInv
<1>2. ASSUME NEW ok \in BOOLEAN, Install(ok)
      PROVE  IInv'
  <2>1. TypeOK'
    BY <1>1, <1>2, InstallTypes
  <2>2. Kept'
    BY <1>2, <2>1, InstallKeeps
  <2>3. Counted'
    BY <1>1, <1>2 DEF Counted, Install
  <2> QED
    BY <2>1, <2>2, <2>3 DEF IInv
<1>3. CASE Normalize
  <2>1. TypeOK'
    BY <1>1, <1>3, NormalizeTypes
  <2>2. Kept'
    BY <1>3, <2>1, NormalizeKeeps
  <2>3. Counted'
    BY <1>1, <1>3 DEF Counted, Normalize
  <2> QED
    BY <2>1, <2>2, <2>3 DEF IInv
<1>4. CASE Clean
  <2>1. TypeOK'
    BY <1>1, <1>4, CleanTypes
  <2>2. Kept'
    BY <1>4, <2>1, CleanKeeps
  <2>3. Counted'
    BY <1>1, <1>4 DEF Counted, Clean
  <2> QED
    BY <2>1, <2>2, <2>3 DEF IInv
<1>5. ASSUME NEW m \in Majors, SwitchNode(m)
      PROVE  IInv'
  <2>1. TypeOK'
    BY <1>1, <1>5, SwitchTypes
  <2>2. Kept'
    BY <1>5, <2>1, SwitchKeeps
  <2>3. Counted'
    BY <1>1, <1>5 DEF Counted, SwitchNode
  <2> QED
    BY <2>1, <2>2, <2>3 DEF IInv
<1>6. CASE Sync
  <2>1. TypeOK'
    BY <1>1, <1>6, SyncTypes
  <2>2. Kept'
    BY <1>6, <2>1, SyncKeeps
  <2>3. Counted'
    BY <1>1, <1>6 DEF Counted, Sync
  <2> QED
    BY <2>1, <2>2, <2>3 DEF IInv
<1>7. CASE Edit
  <2>1. TypeOK'
    BY <1>1, <1>7, EditTypes
  <2>2. Kept'
    BY <1>1, <1>7, EditKeeps
  <2>3. Counted'
    BY <1>1, <1>7 DEF Counted, Edit
  <2> QED
    BY <2>1, <2>2, <2>3 DEF IInv
<1>8. ASSUME NEW i \in DOMAIN log, Undo(i)
      PROVE  IInv'
  <2>1. TypeOK'
    BY <1>8, UndoKeeps
  <2>2. Kept'
    BY <1>8, UndoKeeps
  <2>3. Counted'
    BY <1>1, <1>8 DEF Counted, Undo
  <2> QED
    BY <2>1, <2>2, <2>3 DEF IInv
<1>9. CASE Announce \/ Build \/ OperationEnds \/ Fence \/ Attach \/ Observe \/ Skip
  <2>1. TypeOK'
    BY <1>1, <1>9, QuietTypes
  <2>2. Kept'
    BY <1>1, <1>9, QuietKeeps
  <2>3. Counted'
    BY <1>1, <1>9 DEF Counted, Announce, Build, OperationEnds, Fence, Attach, Observe, Skip, NoSweep, TypeOK
  <2> QED
    BY <2>1, <2>2, <2>3 DEF IInv
<1>10. ASSUME NEW d \in disks, Plan(d)
       PROVE  IInv'
  <2>1. TypeOK'
    BY <1>1, <1>10, PlanTypes
  <2>2. Kept'
    BY <1>1, <1>10, QuietKeeps
  <2>3. Counted'
    BY <1>10 DEF Counted, Plan
  <2> QED
    BY <2>1, <2>2, <2>3 DEF IInv
<1>11. CASE Delete
  <2>1. TypeOK'
    BY <1>1, <1>11, DeleteTypes
  <2>2. Kept'
    BY <1>1, <1>11, DeleteKeeps
  <2>3. Counted'
    BY <1>1, <1>11 DEF Counted, Delete
  <2> QED
    BY <2>1, <2>2, <2>3 DEF IInv
<1>12. CASE Collect
  <2>1. sweeps < MaxSweeps
    BY <1>1, <1>12 DEF Counted, Collect
  <2>2. TypeOK'
    BY <1>1, <1>12, <2>1, CollectTypes
  <2>3. Kept'
    BY <1>1, <1>12, CollectKeeps
  <2>4. Counted'
    BY <1>12 DEF Counted, Collect, NoSweep
  <2> QED
    BY <2>2, <2>3, <2>4 DEF IInv
<1>13. CASE UNCHANGED vars
  <2>1. TypeOK' /\ Counted'
    BY <1>1, <1>13 DEF vars, TypeOK, Counted
  <2>2. Kept'
    <3>1. pointer' = pointer /\ top' = top /\ home' = home /\ disks' = disks /\ log' = log
      BY <1>13 DEF vars
    <3>2. \A c \in Entries' : \E d \in Entries : Older(c, d)
      BY <1>1, <3>1, SameHistory
    <3> QED
      BY <1>1, <3>1, <3>2, StillKept
  <2> QED
    BY <2>1, <2>2 DEF IInv
<1> QED
  BY <1>2, <1>3, <1>4, <1>5, <1>6, <1>7, <1>8, <1>9, <1>10, <1>11, <1>12, <1>13 DEF Next

\* The inductive invariant is an invariant.
THEOREM Invariance ==
    ASSUME RoomDisksAssumption
    PROVE  Spec => []IInv
<1>1. Init => IInv
  BY InitHolds
<1>2. IInv /\ [Next]_vars => IInv'
  BY StepHolds
<1> QED
  BY <1>1, <1>2, PTL DEF Spec

\* Every variable of the volumes of a Room keeps its type.
THEOREM TypeCorrect ==
    ASSUME RoomDisksAssumption
    PROVE  Spec => []TypeOK
<1>1. IInv => TypeOK
  BY DEF IInv
<1> QED
  BY <1>1, Invariance, PTL

\* However changes, undos, Host syncs and visits of the garbage collection follow
\* each other, the workspace and the dependencies that a Room's row names are on
\* disk, and so is the workspace that its last Host sync retained.
THEOREM RowKeepsItsDisks ==
    ASSUME RoomDisksAssumption
    PROVE  Spec => []RowHasItsDisks
<1>1. IInv => RowHasItsDisks
  BY DEF IInv, Kept
<1> QED
  BY <1>1, Invariance, PTL

\* As UndoFindsItsDisks, for the changes of workspace and dependencies.
ChangesFindTheirDisks ==
    home.row => \A i \in DOMAIN log : Undoable(i) /\ log[i].kind # "switch" => NeededBy(i) \subseteq disks

\* Whatever an old version recorded, every change of workspace and dependencies
\* that can still be undone finds the generations that it goes back to.
THEOREM ChangesKeepTheirDisks ==
    ASSUME RoomDisksAssumption
    PROVE  Spec => []ChangesFindTheirDisks
<1>1. ASSUME IInv, home.row, NEW i \in DOMAIN log, Undoable(i), log[i].kind # "switch"
      PROVE  NeededBy(i) \subseteq disks
  <2>1. log[i] \in Entries
    BY DEF Entries, ToSet
  <2>2. Held(log[i]) /\ log[i].kind \in {"install", "normalize", "clean", "switch"}
    BY <1>1, <2>1, EntryIs DEF IInv, Kept, RowType
  <2>3. log[i].kind \in {"install", "normalize"} => Latest(log[i])
    BY <1>1 DEF Undoable, Latest
  <2> QED
    BY <1>1, <2>2, <2>3 DEF Held, NeededBy
<1>2. IInv => ChangesFindTheirDisks
  BY <1>1 DEF ChangesFindTheirDisks
<1> QED
  BY <1>2, Invariance, PTL

\* With a pointer for every major, which is what versions after the first one
\* record, a switch of the Node major finds the dependencies of the other major
\* too: nothing that the history lets somebody undo was collected.
THEOREM UndoKeepsItsDisks ==
    ASSUME RoomDisksAssumption, LegacyGen = 0
    PROVE  Spec => []UndoFindsItsDisks
<1>1. ASSUME IInv, home.row, NEW i \in DOMAIN log, Undoable(i)
      PROVE  NeededBy(i) \subseteq disks
  <2>1. log[i] \in Entries
    BY DEF Entries, ToSet
  <2>2. Held(log[i]) /\ log[i].kind \in {"install", "normalize", "clean", "switch"}
    BY <1>1, <2>1, EntryIs DEF IInv, Kept, RowType
  <2>3. log[i].kind \in {"install", "normalize"} => Latest(log[i])
    BY <1>1 DEF Undoable, Latest
  <2> QED
    BY <1>1, <2>2, <2>3 DEF Held, NeededBy
<1>2. IInv => UndoFindsItsDisks
  BY <1>1 DEF UndoFindsItsDisks
<1> QED
  BY <1>2, Invariance, PTL

\* A visit of the sweep takes nothing from a Room that is fenced or has an
\* operation announced, nothing that a container came to use while the visit
\* waited for the lock, and nothing of a Room that lost its row and kept its
\* directory.
THEOREM BusyRoomsAreSpared == Spec => [][SweepSparesTheBusy]_vars
<1>1. ASSUME Next
      PROVE  SweepSparesTheBusy
  <2>1. SUFFICES ASSUME NEW d \in disks \ disks', sweep.phase = "locked"
                 PROVE  /\ home.guard = "none" /\ ~used
                        /\ home.row \/ ~home.dir
    BY DEF SweepSparesTheBusy
  <2>2. Collect
    BY <1>1, <2>1 DEF Next, Install, Normalize, Clean, SwitchNode, Sync, Edit, Undo, Announce, Build,
                      OperationEnds, Fence, Delete, Plan, Attach, Observe, Skip, Changes, Acts, Unlocked
  <2> QED
    BY <2>1, <2>2 DEF Collect, SafeToDelete
<1>2. UNCHANGED vars => SweepSparesTheBusy
  BY DEF vars, SweepSparesTheBusy
<1> QED
  BY <1>1, <1>2, PTL DEF Spec
=============================================================================
