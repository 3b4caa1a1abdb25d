----------------------- MODULE RoomContainersProofs -----------------------
(***************************************************************************)
(* What the operations on the containers of a Room leave, for any set of   *)
(* operations, any number of them and of deaths, foreign names and         *)
(* restarts of the application.                                            *)
(*                                                                         *)
(* The argument.  An operation is a list of engine calls, and what is left *)
(* of it says what was done: a call that is not ahead any more was made,   *)
(* and no later one of that operation takes its effect back (InOrder).     *)
(* Each call is moderate: it leaves strangers alone, makes and starts what *)
(* it is named for and nothing else, and keeps the authority and those in  *)
(* its namespace unless it is a call that shifts it.  A wake never gets    *)
(* beyond the comparison with the retained containers (section 6 of the    *)
(* README), so that it makes new ones.                                     *)
(***************************************************************************)
EXTENDS RoomContainers, WellFoundedInduction, TLAPS

BoxSteps ==
    {"net", "ctl", "rmNet", "rmCtl", "anchorRun", "ranchor", "proof", "svcProof", "webCreate", "webStart", "svcStart",
     "svcRun", "port", "warmPort", "keepToken", "dropToken", "rmWeb", "rmWebExact", "rmSvc", "rmRanchor", "rmAnchor",
     "stopWeb", "stopExact", "stopSvc", "stopSvcExact", "stopRanchor", "stopAnchor", "inventory", "owned", "eraseLeaves",
     "eraseRanchor", "eraseAnchor", "inventoryGone", "retained", "startAnchor", "startRanchor", "startSvc", "startWeb"}

BoxOps == {"create", "wake", "stop", "delete", "recreate", "restart", "port", "add", "bounce", "drop"}

BoxRecords ==
    [own : {"none", "ours", "foreign"}, up : {"created", "running", "exited"},
     link : {"none", "live", "restarted", "gone"}, proved : BOOLEAN, config : 0 .. 1]

BoxNets == [room : {"none", "ours", "foreign"}, control : {"none", "ours", "foreign"}]

BoxActs == [op : {"none"} \cup BoxOps, mode : {"idle", "do", "undo"}, todo : Seq(BoxSteps), gaps : BOOLEAN]
BoxEnds == [op : {"none"} \cup BoxOps, result : {"none", "ok", "failed", "unclean"}]

BoxTyped ==
    /\ android \in BOOLEAN /\ want \in 0 .. 1 /\ moved \in BOOLEAN
    /\ box \in [Roles -> BoxRecords] /\ nets \in BoxNets /\ relay \in {"none", "this", "other"}
    /\ state \in {"none", "asleep", "awake", "broken", "deleted"}
    /\ act \in BoxActs /\ last \in BoxEnds
    /\ ops \in 0 .. MaxOps /\ faults \in 0 .. MaxFaults

\* The calls of a list, and those that are ahead.
StepsIn(s) == {s[i] : i \in 1 .. Len(s)}
Ahead(s) == s \in StepsIn(act.todo)

\* Steps that take an authority down or start it again.
Shifts == {"rmAnchor", "rmRanchor", "eraseAnchor", "eraseRanchor", "stopAnchor", "stopRanchor", "startAnchor", "startRanchor"}

\* What may come later in a list.
MayFollow(s, t) ==
    /\ t # "retained"
    /\ s = "webStart" => t \in {"port", "keepToken"}
    /\ s = "keepToken" => t # "anchorRun"
    /\ s = "anchorRun" => t # "dropToken"
    /\ s = "svcRun" => t \in {"ranchor", "rmWebExact", "proof", "webCreate", "webStart"}
    /\ s \in Shifts => t \notin {"stopWeb", "stopSvc"}

InOrder(s) == \A i, j \in 1 .. Len(s) : i < j => MayFollow(s[i], s[j])

Colds == {"dropToken", "net", "ctl", "ranchor", "rmAnchor", "anchorRun", "port", "keepToken", "rmSvc", "svcProof", "svcRun",
          "rmWebExact", "proof", "webCreate", "webStart"}
Stops == {"stopWeb", "stopSvc", "stopRanchor", "stopAnchor", "inventory"}
Deletes == {"owned", "stopWeb", "stopSvc", "stopRanchor", "stopAnchor", "eraseLeaves", "eraseRanchor", "eraseAnchor",
            "inventoryGone", "rmNet", "rmCtl", "dropToken"}

\* The calls an operation makes, and those that take it back.
Plan(o, mode) ==
    CASE o = "create" /\ mode = "do" -> {"net", "ctl", "anchorRun", "ranchor", "proof", "webCreate", "webStart", "port", "keepToken"}
      [] o = "create" /\ mode # "do" -> {"dropToken", "rmWeb", "rmRanchor", "rmAnchor", "rmCtl", "rmNet"}
      [] o \in {"wake", "port"} /\ mode = "do" -> Colds
      [] o \in {"wake", "port"} /\ mode # "do" -> {"rmAnchor", "rmWeb", "rmSvc"}
      [] o = "stop" /\ mode = "do" -> Stops
      [] o = "delete" /\ mode = "do" -> Deletes
      [] o = "recreate" /\ mode = "do" -> {"ranchor", "rmWebExact", "proof", "webCreate", "webStart"}
      [] o = "recreate" /\ mode # "do" -> {"rmWeb"}
      [] o = "restart" /\ mode = "do" -> {"stopExact", "webStart"}
      [] o = "add" /\ mode = "do" -> {"svcProof", "svcRun"}
      [] o = "bounce" /\ mode = "do" -> {"stopSvcExact", "svcStart"}
      [] o = "drop" /\ mode = "do" -> {"rmSvc"}
      [] o \in {"add", "bounce"} /\ mode # "do" -> {"rmSvc"}
      [] OTHER -> {}

WebOps == {"create", "wake", "recreate", "restart", "port"}
AwakeOps == {"recreate", "restart", "port", "add", "bounce", "drop"}

Planned ==
    /\ act.op = "none" => act = NoAct
    /\ act.op # "none" => act.mode # "idle"
    /\ act.op = "create" => state = "none"
    /\ state = "none" => act.op \in {"none", "create"}
    /\ act.op \in AwakeOps => state = "awake"
    /\ act.op = "wake" => state \in {"asleep", "broken"}
    /\ act.op = "port" => moved
    /\ StepsIn(act.todo) \subseteq Plan(act.op, act.mode) \/ (act.op = "wake" /\ act.mode = "do" /\ Ahead("retained"))
    /\ InOrder(act.todo)
    /\ Ahead("ctl") => android

\* What holds of the Room whatever is under way.
Kept ==
    /\ relay = "other" => ~Ours("anchor")
    /\ Ahead("anchorRun") /\ ~Ahead("dropToken") => relay = "none"
    /\ state = "none" => ~Ours("svc")
    /\ state = "none" /\ act.op = "none" => relay = "none"
    /\ ~android => nets.control # "ours"
    /\ \A r \in Joiners : Ours(r) => box[r].link # "none"

\* What the calls that are not ahead have done.
Stopping ==
    act.op \in {"stop", "delete"} /\ act.mode = "do" /\ ~act.gaps =>
      /\ ~Ahead("stopWeb") => ~Running("web")
      /\ ~Ahead("stopSvc") => ~Running("svc")
StoppedAll == act.op = "stop" /\ act.mode = "do" /\ ~Ahead("inventory") => \A r \in Roles : ~Running(r)
Deleting ==
    act.op = "delete" /\ act.mode = "do" =>
      /\ ~Ahead("inventoryGone") => \A r \in Roles : ~Ours(r)
      /\ ~Ahead("rmNet") => nets.room # "ours"
      /\ ~Ahead("rmCtl") => nets.control # "ours"
Undoing ==
    act.op = "create" /\ act.mode = "undo" /\ ~act.gaps =>
      /\ ~Ahead("rmWeb") => ~Ours("web")
      /\ ~Ahead("rmRanchor") => ~Ours("ranchor")
      /\ ~Ahead("rmAnchor") => ~Ours("anchor")
      /\ ~Ahead("rmNet") => nets.room # "ours"
      /\ android /\ ~Ahead("rmCtl") => nets.control # "ours"

Joins(r) == Running(r) => Attached(r)
WebJoined ==
    act.op \in WebOps /\ act.mode = "do" /\ ~Ahead("retained") /\ ~Ahead("webStart") =>
      /\ StepsIn(act.todo) \subseteq {"port", "keepToken"}
      /\ Joins("web") /\ (moved \/ Proof)
SvcJoined ==
    act.op = "wake" /\ act.mode = "do" /\ ~Ahead("retained") /\ ~Ahead("svcRun") /\ Ours("svc") =>
      /\ StepsIn(act.todo) \subseteq {"ranchor", "rmWebExact", "proof", "webCreate", "webStart"}
      /\ moved \/ (Proof /\ Joins("svc"))
AwakeJoined == state = "awake" /\ act.op \notin {"stop", "delete"} /\ ~moved => Proof /\ Joins("svc")

AtRest ==
    act.op = "none" =>
      /\ last \in {[op |-> "create", result |-> "failed"], [op |-> "delete", result |-> "ok"]}
           => (\A r \in Roles : ~Ours(r)) /\ nets.room # "ours" /\ nets.control # "ours"
      /\ last = [op |-> "stop", result |-> "ok"] => \A r \in Roles : ~Running(r)
      /\ last.result = "ok" /\ last.op \in WebOps => Joins("web")

BoxInv ==
    BoxTyped /\ Planned /\ Kept /\ Stopping /\ StoppedAll /\ Deleting /\ Undoing /\ WebJoined /\ SvcJoined /\ AwakeJoined /\ AtRest

-----------------------------------------------------------------------------
(* Lists of calls *)

LEMMA JoinedSteps ==
    ASSUME NEW s \in Seq(BoxSteps), NEW t \in Seq(BoxSteps), InOrder(s), InOrder(t),
           \A x \in StepsIn(s), y \in StepsIn(t) : MayFollow(x, y)
    PROVE  s \o t \in Seq(BoxSteps) /\ InOrder(s \o t) /\ StepsIn(s \o t) = StepsIn(s) \cup StepsIn(t)
<1>1. s \o t \in Seq(BoxSteps) /\ Len(s \o t) = Len(s) + Len(t) /\ Len(s) \in Nat /\ Len(t) \in Nat
  OBVIOUS
<1>2. \A i \in 1 .. Len(s) + Len(t) : (s \o t)[i] = IF i <= Len(s) THEN s[i] ELSE t[i - Len(s)]
  OBVIOUS
<1>3. ASSUME NEW i \in 1 .. Len(s \o t) PROVE (s \o t)[i] \in StepsIn(s) \cup StepsIn(t)
  <2>1. CASE i <= Len(s)
    BY <1>1, <1>2, <2>1 DEF StepsIn
  <2>2. CASE i > Len(s)
    <3>1. i - Len(s) \in 1 .. Len(t)
      BY <1>1, <2>2
    <3> QED
      BY <1>1, <1>2, <2>2, <3>1 DEF StepsIn
  <2> QED
    BY <1>1, <2>1, <2>2
<1>4. StepsIn(s) \subseteq StepsIn(s \o t)
  <2> SUFFICES ASSUME NEW i \in 1 .. Len(s) PROVE s[i] \in StepsIn(s \o t)
    BY DEF StepsIn
  <2>1. i \in 1 .. Len(s \o t) /\ (s \o t)[i] = s[i]
    BY <1>1, <1>2
  <2> QED
    BY <2>1 DEF StepsIn
<1>5. StepsIn(t) \subseteq StepsIn(s \o t)
  <2> SUFFICES ASSUME NEW i \in 1 .. Len(t) PROVE t[i] \in StepsIn(s \o t)
    BY DEF StepsIn
  <2>1. i + Len(s) \in 1 .. Len(s \o t) /\ (s \o t)[i + Len(s)] = t[i]
    BY <1>1, <1>2
  <2> QED
    BY <2>1 DEF StepsIn
<1>6. InOrder(s \o t)
  <2> SUFFICES ASSUME NEW i \in 1 .. Len(s \o t), NEW j \in 1 .. Len(s \o t), i < j
               PROVE  MayFollow((s \o t)[i], (s \o t)[j])
    BY DEF InOrder
  <2>1. CASE j <= Len(s)
    BY <1>1, <1>2, <2>1 DEF InOrder
  <2>2. CASE i > Len(s)
    <3>1. i - Len(s) \in 1 .. Len(t) /\ j - Len(s) \in 1 .. Len(t) /\ i - Len(s) < j - Len(s)
      BY <1>1, <2>2
    <3> QED
      BY <1>1, <1>2, <2>2, <3>1 DEF InOrder
  <2>3. CASE i <= Len(s) /\ j > Len(s)
    <3>1. j - Len(s) \in 1 .. Len(t) /\ i \in 1 .. Len(s)
      BY <1>1, <2>3
    <3> QED
      BY <1>1, <1>2, <2>3, <3>1 DEF StepsIn
  <2> QED
    BY <1>1, <2>1, <2>2, <2>3
<1>7. StepsIn(s \o t) \subseteq StepsIn(s) \cup StepsIn(t)
  BY <1>3 DEF StepsIn
<1> QED
  BY <1>1, <1>4, <1>5, <1>6, <1>7

LEMMA TailSteps ==
    ASSUME NEW s \in Seq(BoxSteps), s # <<>>, InOrder(s)
    PROVE  /\ Tail(s) \in Seq(BoxSteps) /\ InOrder(Tail(s)) /\ Head(s) \in BoxSteps
           /\ StepsIn(s) = {Head(s)} \cup StepsIn(Tail(s)) /\ \A t \in StepsIn(Tail(s)) : MayFollow(Head(s), t)
<1>1. /\ Tail(s) \in Seq(BoxSteps) /\ Len(Tail(s)) = Len(s) - 1 /\ Len(s) \in Nat /\ Len(s) >= 1 /\ Head(s) = s[1]
      /\ \A i \in 1 .. Len(s) - 1 : Tail(s)[i] = s[i + 1]
  OBVIOUS
<1>2. InOrder(Tail(s))
  BY <1>1 DEF InOrder
<1>3. \A t \in StepsIn(Tail(s)) : t \in StepsIn(s) /\ MayFollow(Head(s), t)
  <2> SUFFICES ASSUME NEW i \in 1 .. Len(s) - 1 PROVE s[i + 1] \in StepsIn(s) /\ MayFollow(s[1], s[i + 1])
    BY <1>1 DEF StepsIn
  <2>1. i + 1 \in 1 .. Len(s) /\ 1 < i + 1 /\ 1 \in 1 .. Len(s)
    BY <1>1
  <2> QED
    BY <2>1 DEF StepsIn, InOrder
<1>4. StepsIn(s) \subseteq {Head(s)} \cup StepsIn(Tail(s))
  <2> SUFFICES ASSUME NEW i \in 1 .. Len(s), i # 1 PROVE s[i] \in StepsIn(Tail(s))
    BY <1>1 DEF StepsIn
  <2>1. i - 1 \in 1 .. Len(Tail(s)) /\ Tail(s)[i - 1] = s[i]
    BY <1>1
  <2> QED
    BY <2>1 DEF StepsIn
<1>5. Head(s) \in StepsIn(s) /\ Head(s) \in BoxSteps
  BY <1>1 DEF StepsIn
<1> QED
  BY <1>1, <1>2, <1>3, <1>4, <1>5

\* The lists that the operations are put together from.
LEMMA ListedSteps ==
    /\ StepsIn(<<>>) = {} /\ InOrder(<<>>) /\ <<>> \in Seq(BoxSteps)
    /\ \A a \in BoxSteps : StepsIn(<<a>>) = {a} /\ InOrder(<<a>>) /\ <<a>> \in Seq(BoxSteps)
    /\ \A a, b \in BoxSteps : /\ StepsIn(<<a, b>>) = {a, b} /\ <<a, b>> \in Seq(BoxSteps)
                              /\ MayFollow(a, b) => InOrder(<<a, b>>)
    /\ \A a, b, c \in BoxSteps : /\ StepsIn(<<a, b, c>>) = {a, b, c} /\ <<a, b, c>> \in Seq(BoxSteps)
                                 /\ MayFollow(a, b) /\ MayFollow(a, c) /\ MayFollow(b, c) => InOrder(<<a, b, c>>)
    /\ \A a, b, c, d \in BoxSteps :
          /\ StepsIn(<<a, b, c, d>>) = {a, b, c, d} /\ <<a, b, c, d>> \in Seq(BoxSteps)
          /\ MayFollow(a, b) /\ MayFollow(a, c) /\ MayFollow(a, d) /\ MayFollow(b, c) /\ MayFollow(b, d) /\ MayFollow(c, d)
             => InOrder(<<a, b, c, d>>)
BY DEF StepsIn, InOrder

-----------------------------------------------------------------------------
(* The engine calls *)

Makes(s) ==
    CASE s = "anchorRun" -> {"anchor"} [] s = "ranchor" -> {"ranchor"} [] s = "webCreate" -> {"web"}
      [] s = "svcRun" -> {"svc"} [] OTHER -> {}
Starts(s) == CASE s = "webStart" -> {"web"} [] s = "svcStart" -> {"svc"} [] OTHER -> Makes(s)
Opens(s) == CASE s = "net" -> {"room"} [] s = "ctl" -> {"control"} [] OTHER -> {}

BoxData ==
    /\ android \in BOOLEAN /\ want \in 0 .. 1
    /\ box \in [Roles -> BoxRecords] /\ nets \in BoxNets /\ relay \in {"none", "this", "other"}
    /\ relay = "other" => ~Ours("anchor")
    /\ \A r \in Joiners : Ours(r) => box[r].link # "none"

\* A call leaves strangers alone; what it makes is in M, what it starts in R,
\* and the networks that it opens are in O.
Gentle(M, R, O) ==
    /\ box' \in [Roles -> BoxRecords] /\ nets' \in BoxNets /\ relay' \in {"none", "this", "other"}
    /\ \A r \in Roles :
          /\ box[r].own = "foreign" => box'[r] = box[r]
          /\ box'[r].own = "ours" => box[r].own = "ours" \/ r \in M
          /\ (Running(r))' => Running(r) \/ r \in R
    /\ \A r \in Joiners : box'[r].own = "ours" => box'[r].link # "none"
    /\ \A n \in {"room", "control"} :
          /\ nets[n] = "foreign" => nets'[n] = "foreign"
          /\ nets'[n] = "ours" => nets[n] = "ours" \/ n \in O
    /\ relay' = "other" => box'["anchor"].own # "ours"

\* The authority stays up, and who is in its namespace stays there.
Steady ==
    Proof => Proof' /\ \A r \in Joiners : Joins(r) => (Joins(r))'

LEMMA SameIsGentle ==
    ASSUME BoxData, Same, android' = android, NEW M, NEW R, NEW O
    PROVE  Gentle(M, R, O) /\ Steady /\ relay' = relay
BY DEF BoxData, Same, Gentle, Steady, Joins, Running, Ours, Proof, Authority, Attached

LEMMA NetsAreGentle ==
    ASSUME BoxData, android' = android, NEW n \in {"room", "control"}, NEW O, NEW M, NEW R,
           (NetMade(n) /\ n \in O) \/ NetGone(n)
    PROVE  Gentle(M, R, O) /\ Steady /\ relay' = relay /\ (NetGone(n) => nets'[n] # "ours")
<1>1. box' = box /\ relay' = relay
  BY DEF NetMade, NetGone
<1>2. /\ nets' \in BoxNets /\ (NetGone(n) => nets'[n] # "ours")
      /\ \A m \in {"room", "control"} :
          /\ nets[m] = "foreign" => nets'[m] = "foreign"
          /\ nets'[m] = "ours" => nets[m] = "ours" \/ m \in O
  BY DEF BoxData, BoxNets, NetMade, NetGone
<1>3. Gentle(M, R, O)
  BY <1>1, <1>2 DEF BoxData, Gentle, Running, Ours
<1> QED
  BY <1>1, <1>2, <1>3 DEF Steady, Joins, Running, Ours, Proof, Authority, Attached

LEMMA TokensAreGentle ==
    ASSUME BoxData, android' = android, box' = box, nets' = nets, relay' \in {"none", "this"}, NEW M, NEW R, NEW O
    PROVE  Gentle(M, R, O) /\ Steady
BY DEF BoxData, Gentle, Steady, Joins, Running, Ours, Proof, Authority, Attached

LEMMA NewIsGentle ==
    ASSUME BoxData, android' = android, NEW r \in Roles, NEW up \in {"created", "running"}, NEW M, NEW R, NEW O,
           box[r].own # "ours" /\ box[r].own # "foreign", r \in M /\ (r \in R \/ up = "created"),
           box' = [box EXCEPT ![r] = New(r, up)], nets' = nets,
           relay' = relay \/ (r = "anchor" /\ relay' = Lost), r = "anchor" => relay' # "other"
    PROVE  /\ Gentle(M, R, O) /\ Steady /\ (relay = "none" => relay' = "none")
           /\ r \in Joiners => box'[r].link = "live"
<1> DEFINE b == New(r, up)
<1>1. b \in BoxRecords /\ b.own = "ours" /\ b.up = up /\ b.link = (IF r \in Joiners THEN "live" ELSE "none")
  BY DEF New, Absent, BoxRecords, BoxData
<1>2. box'[r] = b /\ (\A q \in Roles \ {r} : box'[q] = box[q]) /\ box' \in [Roles -> BoxRecords]
  BY <1>1 DEF BoxData
<1> HIDE DEF b
<1>3. relay' \in {"none", "this", "other"} /\ (relay' = "other" => box'["anchor"].own # "ours")
      /\ (relay = "none" => relay' = "none")
  <2>1. CASE r = "anchor"
    BY <2>1 DEF BoxData, Lost
  <2>2. CASE r # "anchor"
    <3>1. box'["anchor"] = box["anchor"]
      BY <1>2, <2>2 DEF Roles, Anchors
    <3> QED
      BY <3>1, <2>2 DEF BoxData, Lost, Ours
  <2> QED
    BY <2>1, <2>2
<1>4. Gentle(M, R, O)
  BY <1>1, <1>2, <1>3 DEF BoxData, Gentle, Running, Ours, Roles, Joiners, BoxRecords
<1>5. Steady
  <2> SUFFICES ASSUME Proof PROVE Proof' /\ \A q \in Joiners : Joins(q) => (Joins(q))'
    BY DEF Steady
  <2>1. r # Authority /\ Authority \in Roles
    BY DEF Proof, Ours, Authority, Roles, Anchors
  <2>2. Proof'
    BY <1>2, <2>1 DEF Proof, Ours, Authority
  <2>3. ASSUME NEW q \in Joiners, Joins(q) PROVE (Joins(q))'
    BY <1>1, <1>2, <2>3 DEF Joins, Running, Attached, Ours, Roles
  <2> QED
    BY <2>2, <2>3
<1> QED
  BY <1>1, <1>2, <1>3, <1>4, <1>5

LEMMA LeftIs ==
    ASSUME BoxData, NEW link \in {"restarted", "gone"}
    PROVE  /\ Left(box, link) \in [Roles -> BoxRecords]
           /\ \A r \in Roles :
                /\ Left(box, link)[r].own = box[r].own /\ Left(box, link)[r].up = box[r].up
                /\ box[r].own # "ours" \/ r \notin Joiners => Left(box, link)[r] = box[r]
                /\ r \in Joiners /\ box[r].own = "ours" => Left(box, link)[r].link # "none"
<1> SUFFICES ASSUME NEW r \in Roles
             PROVE  /\ Left(box, link)[r] \in BoxRecords
                    /\ Left(box, link)[r].own = box[r].own /\ Left(box, link)[r].up = box[r].up
                    /\ box[r].own # "ours" \/ r \notin Joiners => Left(box, link)[r] = box[r]
                    /\ r \in Joiners /\ box[r].own = "ours" => Left(box, link)[r].link # "none"
  BY DEF Left
<1>1. box[r] \in BoxRecords
  BY DEF BoxData
<1>2. CASE r \in Joiners /\ box[r].own = "ours" /\ box[r].link # "gone"
  <2>1. Left(box, link)[r] = [box[r] EXCEPT !.link = link, !.proved = FALSE]
    BY <1>2 DEF Left
  <2> QED
    BY <1>1, <1>2, <2>1 DEF BoxRecords
<1>3. CASE ~(r \in Joiners /\ box[r].own = "ours" /\ box[r].link # "gone")
  <2>1. Left(box, link)[r] = box[r]
    BY <1>3 DEF Left
  <2> QED
    BY <1>1, <1>3, <2>1 DEF BoxRecords, BoxData, Ours
<1> QED
  BY <1>2, <1>3

LEMMA ErasedIsGentle ==
    ASSUME BoxData, android' = android, NEW G \in SUBSET Roles, Erase(G), NEW M, NEW R, NEW O
    PROVE  /\ Gentle(M, R, O) /\ (Authority \notin G => Steady) /\ (relay = "none" => relay' = "none")
           /\ \A r \in G : box'[r].own # "ours"
<1>1. /\ Left(box, "gone") \in [Roles -> BoxRecords]
      /\ \A r \in Roles :
           /\ Left(box, "gone")[r].own = box[r].own /\ Left(box, "gone")[r].up = box[r].up
           /\ box[r].own # "ours" \/ r \notin Joiners => Left(box, "gone")[r] = box[r]
           /\ r \in Joiners /\ box[r].own = "ours" => Left(box, "gone")[r].link # "none"
  BY LeftIs
<1>2. Absent \in BoxRecords /\ Absent.own = "none"
  BY DEF Absent, BoxRecords
<1>3. /\ box' \in [Roles -> BoxRecords]
      /\ \A r \in Roles :
           \/ r \in G /\ box[r].own = "ours" /\ box'[r].own = "none"
           \/ ~(r \in G /\ box[r].own = "ours") /\ Authority \in G /\ box'[r] = Left(box, "gone")[r]
           \/ ~(r \in G /\ box[r].own = "ours") /\ box'[r] = box[r]
  BY <1>1, <1>2 DEF Erase, Ours, BoxData
<1>4. \A r \in G : box'[r].own # "ours"
  BY <1>1, <1>3
<1>5. relay' \in {"none", "this", "other"} /\ (relay' = "other" => box'["anchor"].own # "ours")
      /\ (relay = "none" => relay' = "none") /\ nets' = nets
  <2>1. CASE "anchor" \in G /\ box["anchor"].own = "ours"
    BY <1>4, <2>1 DEF BoxData, Erase, Lost, Ours
  <2>2. CASE ~("anchor" \in G /\ box["anchor"].own = "ours")
    <3>1. relay' = relay /\ nets' = nets
      BY <2>2 DEF Erase, Ours
    <3>2. "anchor" \in Roles
      BY DEF Roles, Anchors
    <3> QED
      BY <1>1, <1>3, <2>2, <3>1, <3>2 DEF BoxData, Ours
  <2> QED
    BY <2>1, <2>2
<1>6. Gentle(M, R, O)
  <2>1. ASSUME NEW r \in Roles
        PROVE  /\ box[r].own = "foreign" => box'[r] = box[r]
               /\ box'[r].own = "ours" => box[r].own = "ours"
               /\ (Running(r))' => Running(r)
               /\ r \in Joiners /\ box'[r].own = "ours" => box'[r].link # "none"
    BY <1>1, <1>3 DEF Running, Ours, BoxData
  <2>2. Joiners \subseteq Roles
    BY DEF Roles
  <2> QED
    BY <1>3, <1>5, <2>1, <2>2 DEF Gentle, BoxData
<1>7. ASSUME Authority \notin G PROVE Steady
  <2>1. \A r \in Roles : box'[r] = box[r] \/ (r \in G /\ box'[r].own = "none")
    BY <1>3, <1>7
  <2>2. Authority \in Roles /\ Joiners \subseteq Roles
    BY DEF Roles, Authority, Anchors
  <2> QED
    BY <1>7, <2>1, <2>2 DEF Steady, Joins, Running, Attached, Proof, Ours, Authority
<1> QED
  BY <1>4, <1>5, <1>6, <1>7

LEMMA StoppedIsGentle ==
    ASSUME BoxData, android' = android, NEW r \in Roles, box' = Stopped(r), nets' = nets, relay' = relay,
           box[r].own = "ours", NEW M, NEW R, NEW O
    PROVE  Gentle(M, R, O) /\ (r # Authority => Steady) /\ ~(Running(r))'
<1>1. box[r] \in BoxRecords
  BY DEF BoxData
<1>2. /\ box'[r].own = box[r].own /\ box'[r].up = "exited" /\ box'[r].link = box[r].link
      /\ box'[r].proved = box[r].proved /\ box'[r] \in BoxRecords
      /\ \A q \in Roles \ {r} : box'[q] = box[q]
  BY <1>1 DEF Stopped, BoxRecords, BoxData
<1>3. box' \in [Roles -> BoxRecords]
  BY <1>2 DEF Stopped, BoxData
<1>4. "anchor" \in Roles /\ Joiners \subseteq Roles /\ Authority \in Roles
  BY DEF Roles, Anchors, Authority
<1>5. Gentle(M, R, O)
  BY <1>2, <1>3, <1>4 DEF Gentle, BoxData, Running, Ours
<1>6. r # Authority => Steady
  BY <1>2, <1>4 DEF Steady, Joins, Running, Attached, Proof, Ours, Authority
<1>7. ~(Running(r))'
  BY <1>2 DEF Running
<1> QED
  BY <1>5, <1>6, <1>7

LEMMA StartedIsGentle ==
    ASSUME BoxData, android' = android, NEW r \in Roles, box' = Started(r), nets' = nets, relay' = relay,
           box[r].own = "ours", NEW M, NEW R, NEW O, r \in R
    PROVE  /\ Gentle(M, R, O)
           /\ r \in Joiners /\ Proof /\ box[r].link # "gone" => Steady /\ (Joins(r))'
           /\ r \notin Joiners /\ r # Authority => Steady
<1> DEFINE b == IF r = Authority THEN Left(box, "restarted") ELSE box
<1>1. /\ b \in [Roles -> BoxRecords]
      /\ \A q \in Roles :
           /\ b[q].own = box[q].own /\ b[q].up = box[q].up
           /\ box[q].own # "ours" \/ q \notin Joiners => b[q] = box[q]
           /\ q \in Joiners /\ box[q].own = "ours" => b[q].link # "none"
      /\ r # Authority => b = box
  BY LeftIs DEF BoxData, Ours, Roles
<1>2. box' = [b EXCEPT ![r].up = "running", ![r].proved = (box[r].link = "restarted")]
  BY DEF Started
<1> HIDE DEF b
<1>3. /\ box'[r].own = b[r].own /\ box'[r].up = "running" /\ box'[r].link = b[r].link
      /\ box'[r].proved = (box[r].link = "restarted")
      /\ \A q \in Roles \ {r} : box'[q] = b[q]
  BY <1>1, <1>2 DEF BoxRecords
<1>4. box' \in [Roles -> BoxRecords]
  <2>1. b[r] \in BoxRecords /\ (box[r].link = "restarted") \in BOOLEAN
    BY <1>1
  <2>2. box'[r] \in BoxRecords
    BY <1>1, <1>2, <2>1 DEF BoxRecords
  <2> QED
    BY <1>1, <1>2, <1>3, <2>2
<1>5. "anchor" \in Roles /\ Joiners \subseteq Roles /\ Authority \in Roles /\ Authority \notin Joiners
  BY DEF Roles, Anchors, Authority, Joiners
<1>6. Gentle(M, R, O)
  BY <1>1, <1>3, <1>4, <1>5 DEF Gentle, BoxData, Running, Ours
<1>7. ASSUME r \in Joiners, Proof, box[r].link # "gone" PROVE Steady /\ (Joins(r))'
  <2>1. b = box /\ r # Authority
    BY <1>1, <1>5, <1>7
  <2>2. (Joins(r))'
    <3>1. box[r].link \in {"live", "restarted"}
      BY <1>7 DEF BoxData, BoxRecords, Ours
    <3> QED
      BY <1>3, <2>1, <3>1 DEF Joins, Attached
  <2> QED
    BY <1>3, <1>5, <2>1, <2>2 DEF Steady, Joins, Running, Attached, Proof, Ours, Authority
<1>8. ASSUME r \notin Joiners, r # Authority PROVE Steady
  <2>1. b = box
    BY <1>1, <1>8
  <2> QED
    BY <1>3, <1>5, <1>8, <2>1 DEF Steady, Joins, Running, Attached, Proof, Ours, Authority
<1> QED
  BY <1>6, <1>7, <1>8

\* What a call that succeeds has achieved.
Done(s) ==
    /\ s = "webStart" => Proof /\ (Joins("web"))'
    /\ s = "svcRun" => Proof /\ (Joins("svc"))'
    /\ s = "stopWeb" => ~(Running("web"))'
    /\ s = "stopSvc" => ~(Running("svc"))'
    /\ s = "inventory" => \A r \in Roles : ~(Running(r))'
    /\ s = "inventoryGone" => \A r \in Roles : box'[r].own # "ours"
    /\ s = "rmWeb" => box'["web"].own # "ours"
    /\ s = "rmRanchor" => box'["ranchor"].own # "ours"
    /\ s = "rmAnchor" => box'["anchor"].own # "ours"
    /\ s = "rmNet" => nets'.room # "ours"
    /\ s = "rmCtl" => nets'.control # "ours"
    /\ s = "dropToken" => relay' = "none"
    /\ s \in {"port", "keepToken"} => box' = box

\* What a call may do, whether it fails or not.
Moderate(s) ==
    /\ Gentle(Makes(s), Starts(s), Opens(s)) /\ (s \notin Shifts => Steady)
    /\ relay = "none" /\ s # "keepToken" => relay' = "none"

LEMMA NetCalls ==
    ASSUME BoxData, android' = android, NEW s \in {"net", "ctl", "rmNet", "rmCtl"}, Call(s)
    PROVE  Moderate(s) /\ Done(s)
<1>1. CASE s = "net"
  <2>1. NetMade("room") /\ "room" \in Opens(s)
    BY <1>1 DEF Call, Opens
  <2> QED
    BY <1>1, <2>1, NetsAreGentle DEF Moderate, Done
<1>2. CASE s = "ctl"
  <2>1. NetMade("control") /\ "control" \in Opens(s)
    BY <1>2 DEF Call, Opens
  <2> QED
    BY <1>2, <2>1, NetsAreGentle DEF Moderate, Done
<1>3. CASE s = "rmNet"
  <2>1. NetGone("room")
    BY <1>3 DEF Call
  <2>2. Moderate(s) /\ nets'["room"] # "ours"
    BY <1>3, <2>1, NetsAreGentle DEF Moderate
  <2> QED
    BY <1>3, <2>2 DEF Done
<1>4. CASE s = "rmCtl"
  <2>1. NetGone("control")
    BY <1>4 DEF Call
  <2>2. Moderate(s) /\ nets'["control"] # "ours"
    BY <1>4, <2>1, NetsAreGentle DEF Moderate
  <2> QED
    BY <1>4, <2>2 DEF Done
<1> QED
  BY <1>1, <1>2, <1>3, <1>4

LEMMA LookingCalls ==
    ASSUME BoxData, android' = android,
           NEW s \in {"proof", "svcProof", "port", "inventory", "owned", "inventoryGone"}, Call(s)
    PROVE  Moderate(s) /\ Done(s)
<1>1. Same /\ (s = "inventory" => \A r \in Roles : ~Running(r))
      /\ (s = "inventoryGone" => \A r \in Roles : ~Ours(r))
  BY DEF Call
<1>2. Moderate(s)
  BY <1>1, SameIsGentle DEF Moderate
<1>3. Done(s)
  BY <1>1 DEF Done, Same, Running, Ours
<1> QED
  BY <1>2, <1>3

LEMMA MakingCalls ==
    ASSUME BoxData, android' = android, NEW s \in {"anchorRun", "webCreate", "svcRun"}, Call(s),
           s = "anchorRun" => relay = "none"
    PROVE  Moderate(s) /\ Done(s)
<1>0. {"anchor", "web", "svc"} \subseteq Roles /\ {"web", "svc"} \subseteq Joiners /\ "anchor" \notin Joiners
  BY DEF Roles, Anchors, Joiners
<1>1. CASE s = "anchorRun"
  <2>1. /\ box["anchor"].own = "none" /\ box' = [box EXCEPT !["anchor"] = New("anchor", "running")]
        /\ relay' = Lost /\ nets' = nets
    BY <1>1 DEF Call
  <2>2. "anchor" \in Makes(s) /\ "anchor" \in Starts(s) /\ relay' # "other"
    BY <1>1, <2>1 DEF Makes, Starts, Lost
  <2> QED
    BY <1>0, <1>1, <2>1, <2>2, NewIsGentle DEF Moderate, Done
<1>2. CASE s = "webCreate"
  <2>1. /\ box["web"].own = "none" /\ box' = [box EXCEPT !["web"] = New("web", "created")]
        /\ relay' = relay /\ nets' = nets
    BY <1>2 DEF Call, Boxes
  <2>2. "web" \in Makes(s)
    BY <1>2 DEF Makes
  <2> QED
    BY <1>0, <1>2, <2>1, <2>2, NewIsGentle DEF Moderate, Done
<1>3. CASE s = "svcRun"
  <2>1. /\ box["svc"].own = "none" /\ box' = [box EXCEPT !["svc"] = New("svc", "running")]
        /\ relay' = relay /\ nets' = nets /\ Proof
    BY <1>3 DEF Call, Boxes
  <2>2. "svc" \in Makes(s) /\ "svc" \in Starts(s)
    BY <1>3 DEF Makes, Starts
  <2>3. Moderate(s) /\ box'["svc"].link = "live"
    BY <1>0, <1>3, <2>1, <2>2, NewIsGentle DEF Moderate
  <2>4. (Joins("svc"))'
    BY <2>3 DEF Joins, Attached
  <2> QED
    BY <1>3, <2>1, <2>3, <2>4 DEF Done
<1> QED
  BY <1>1, <1>2, <1>3

LEMMA RanchorCall ==
    ASSUME BoxData, android' = android, Call("ranchor")
    PROVE  Moderate("ranchor") /\ Done("ranchor")
<1>0. "ranchor" \in Roles /\ "ranchor" \notin Joiners /\ "ranchor" \in Makes("ranchor") /\ "ranchor" \in Starts("ranchor")
      /\ "ranchor" \notin Shifts
  BY DEF Roles, Anchors, Joiners, Makes, Starts, Shifts
<1>1. /\ box["ranchor"].own # "foreign"
      /\ \/ Same
         \/ /\ ~Running("ranchor") /\ Ours("ranchor") /\ box' = Started("ranchor") /\ nets' = nets /\ relay' = relay
         \/ /\ ~Ours("ranchor") /\ nets' = nets /\ relay' = relay
            /\ box' = [box EXCEPT !["ranchor"] = New("ranchor", "running")]
  BY DEF Call, Boxes
<1>2. CASE Same
  BY <1>2, SameIsGentle DEF Moderate, Done
<1>3. CASE ~Running("ranchor") /\ Ours("ranchor") /\ box' = Started("ranchor") /\ nets' = nets /\ relay' = relay
  <2>1. /\ Gentle(Makes("ranchor"), Starts("ranchor"), Opens("ranchor"))
        /\ "ranchor" # Authority => Steady
    BY <1>0, <1>3, StartedIsGentle DEF Ours
  <2>2. "ranchor" = Authority => ~Proof
    BY <1>3 DEF Proof, Running
  <2>3. Steady
    BY <2>1, <2>2 DEF Steady
  <2> QED
    BY <1>3, <2>1, <2>3 DEF Moderate, Done
<1>4. CASE /\ ~Ours("ranchor") /\ nets' = nets /\ relay' = relay
           /\ box' = [box EXCEPT !["ranchor"] = New("ranchor", "running")]
  BY <1>0, <1>1, <1>4, NewIsGentle DEF Moderate, Done, Ours
<1> QED
  BY <1>1, <1>2, <1>3, <1>4

LEMMA JoiningCalls ==
    ASSUME BoxData, android' = android, NEW s \in {"webStart", "svcStart"}, Call(s)
    PROVE  Moderate(s) /\ Done(s)
<1> DEFINE r == IF s = "webStart" THEN "web" ELSE "svc"
<1>0. r \in Roles /\ r \in Joiners /\ r \in Starts(s) /\ s \notin Shifts
  BY DEF Roles, Joiners, Starts, Shifts
<1>1. Join(r)
  BY DEF Call
<1> HIDE DEF r
<1>2. /\ Ours(r) /\ Proof /\ box[r].link # "gone"
      /\ \/ Running(r) /\ Attached(r) /\ Same
         \/ ~Running(r) /\ box' = Started(r) /\ nets' = nets /\ relay' = relay
  BY <1>1 DEF Join, Boxes
<1>3. Moderate(s) /\ (Joins(r))'
  <2>1. CASE Running(r) /\ Attached(r) /\ Same
    <3>1. (Joins(r))'
      BY <2>1 DEF Joins, Attached, Same
    <3> QED
      BY <2>1, <3>1, SameIsGentle DEF Moderate
  <2>2. CASE ~Running(r) /\ box' = Started(r) /\ nets' = nets /\ relay' = relay
    BY <1>0, <1>2, <2>2, StartedIsGentle DEF Moderate, Ours
  <2> QED
    BY <1>2, <2>1, <2>2
<1>4. s = "webStart" => r = "web"
  BY DEF r
<1> QED
  BY <1>2, <1>3, <1>4 DEF Done

LEMMA TokenCalls ==
    ASSUME BoxData, android' = android, NEW s \in {"keepToken", "dropToken"}, Call(s)
    PROVE  Moderate(s) /\ Done(s)
<1>1. box' = box /\ nets' = nets /\ relay' \in {"none", "this"} /\ (s = "dropToken" => relay' = "none")
  BY DEF Call
<1> QED
  BY <1>1, TokensAreGentle DEF Moderate, Done

Erasures(s) ==
    CASE s \in {"rmWeb", "rmWebExact"} -> {"web"} [] s = "rmSvc" -> {"svc"} [] s \in {"rmRanchor", "eraseRanchor"} -> {"ranchor"}
      [] s \in {"rmAnchor", "eraseAnchor"} -> {"anchor"} [] s = "eraseLeaves" -> Joiners
Erasers == {"rmWeb", "rmWebExact", "rmSvc", "rmRanchor", "rmAnchor", "eraseLeaves", "eraseRanchor", "eraseAnchor"}

LEMMA ErasingCalls ==
    ASSUME BoxData, android' = android, NEW s \in Erasers, Call(s)
    PROVE  Moderate(s) /\ Done(s)
<1>1. Erase(Erasures(s))
  BY DEF Call, ByName, Erasures, Erasers
<1>2. Erasures(s) \in SUBSET Roles
  BY DEF Erasures, Erasers, Roles, Anchors, Joiners
<1>3. s \notin Shifts => Authority \notin Erasures(s)
  BY DEF Shifts, Erasures, Erasers, Authority, Joiners
<1>4. Moderate(s) /\ \A r \in Erasures(s) : box'[r].own # "ours"
  BY <1>1, <1>2, <1>3, ErasedIsGentle DEF Moderate
<1>5. /\ s = "rmWeb" => "web" \in Erasures(s)
      /\ s = "rmRanchor" => "ranchor" \in Erasures(s)
      /\ s = "rmAnchor" => "anchor" \in Erasures(s)
  BY DEF Erasures
<1> QED
  BY <1>4, <1>5 DEF Done, Erasers

LEMMA StoppingCalls ==
    ASSUME BoxData, android' = android,
           NEW s \in {"stopWeb", "stopExact", "stopSvc", "stopSvcExact", "stopRanchor", "stopAnchor"}, Call(s)
    PROVE  Moderate(s) /\ Done(s)
<1> DEFINE r == CASE s \in {"stopWeb", "stopExact"} -> "web" [] s \in {"stopSvc", "stopSvcExact"} -> "svc"
                  [] s = "stopRanchor" -> "ranchor" [] s = "stopAnchor" -> "anchor"
<1>1. StopOne(r)
  BY DEF Call
<1>2. r \in Roles /\ (s \notin Shifts => r # Authority) /\ (s = "stopWeb" => r = "web") /\ (s = "stopSvc" => r = "svc")
  BY DEF Roles, Anchors, Joiners, Authority, Shifts
<1> HIDE DEF r
<1>3. Moderate(s) /\ ~(Running(r))'
  <2>1. CASE Running(r)
    <3>1. box' = Stopped(r) /\ nets' = nets /\ relay' = relay /\ box[r].own = "ours"
      BY <1>1, <2>1 DEF StopOne, Boxes, Running, Ours
    <3> QED
      BY <1>2, <3>1, StoppedIsGentle DEF Moderate
  <2>2. CASE ~Running(r)
    <3>1. Same
      BY <1>1, <2>2 DEF StopOne
    <3>2. ~(Running(r))'
      BY <2>2, <3>1 DEF Same, Running, Ours
    <3> QED
      BY <3>1, <3>2, SameIsGentle DEF Moderate
  <2> QED
    BY <2>1, <2>2
<1> QED
  BY <1>2, <1>3 DEF Done

LEMMA Calls ==
    ASSUME BoxData, android' = android, NEW s \in BoxSteps \ Warm, Call(s), s = "anchorRun" => relay = "none"
    PROVE  Moderate(s) /\ Done(s)
<1>1. \/ s \in {"net", "ctl", "rmNet", "rmCtl"}
      \/ s \in {"proof", "svcProof", "port", "inventory", "owned", "inventoryGone"}
      \/ s \in {"anchorRun", "webCreate", "svcRun"}
      \/ s = "ranchor"
      \/ s \in {"webStart", "svcStart"}
      \/ s \in {"keepToken", "dropToken"}
      \/ s \in Erasers
      \/ s \in {"stopWeb", "stopExact", "stopSvc", "stopSvcExact", "stopRanchor", "stopAnchor"}
  BY DEF BoxSteps, Warm, Erasers
<1> QED
  BY <1>1, NetCalls, LookingCalls, MakingCalls, RanchorCall, JoiningCalls, TokenCalls, ErasingCalls, StoppingCalls

LEMMA Residues ==
    ASSUME BoxData, android' = android, NEW s \in BoxSteps, s \notin Warm \/ s = "retained", Residue(s),
           s = "anchorRun" => relay = "none"
    PROVE  Moderate(s)
<1>1. \/ Same
      \/ s \notin Warm /\ Call(s)
      \/ s = "webStart" /\ Erase({"web"})
  BY DEF Residue, ByName, Warm
<1>2. CASE Same
  BY <1>2, SameIsGentle DEF Moderate
<1>3. CASE s \notin Warm /\ Call(s)
  BY <1>3, Calls
<1>4. CASE s = "webStart" /\ Erase({"web"})
  <2>1. {"web"} \in SUBSET Roles /\ Authority \notin {"web"}
    BY DEF Roles, Joiners, Authority
  <2> QED
    BY <1>4, <2>1, ErasedIsGentle DEF Moderate
<1> QED
  BY <1>1, <1>2, <1>3, <1>4

-----------------------------------------------------------------------------
(* The lists of the operations *)

Listed(s, steps) == s \in Seq(BoxSteps) /\ InOrder(s) /\ StepsIn(s) = steps
Android(a) == IF android THEN {a} ELSE {}

LEMMA JoinedLists ==
    ASSUME NEW s, NEW t, NEW S1, NEW S2, Listed(s, S1), Listed(t, S2), \A x \in S1, y \in S2 : MayFollow(x, y)
    PROVE  Listed(s \o t, S1 \cup S2)
BY JoinedSteps DEF Listed

LEMMA EmptyList == Listed(<<>>, {})
BY ListedSteps DEF Listed

LEMMA OneStep == ASSUME NEW a \in BoxSteps PROVE Listed(<<a>>, {a})
BY ListedSteps DEF Listed

LEMMA OnAndroid == ASSUME NEW a \in BoxSteps PROVE Listed(IfAndroid(<<a>>), Android(a))
<1>1. CASE android
  BY <1>1, OneStep DEF IfAndroid, Android
<1>2. CASE ~android
  BY <1>2, EmptyList DEF IfAndroid, Android
<1> QED
  BY <1>1, <1>2

LEMMA NetList == Listed(Nets, {"net"} \cup Android("ctl"))
<1>1. Listed(<<"net">>, {"net"}) /\ Listed(IfAndroid(<<"ctl">>), Android("ctl"))
  BY OneStep, OnAndroid DEF BoxSteps
<1>2. \A x \in {"net"}, y \in Android("ctl") : MayFollow(x, y)
  BY DEF Android, MayFollow, Shifts
<1> QED
  BY <1>1, <1>2, JoinedLists DEF Nets

LEMMA WebList == Listed(WebSteps, {"proof", "webCreate", "webStart"})
<1>1. "proof" \in BoxSteps /\ "webCreate" \in BoxSteps /\ "webStart" \in BoxSteps
  BY DEF BoxSteps
<1>2. MayFollow("proof", "webCreate") /\ MayFollow("proof", "webStart") /\ MayFollow("webCreate", "webStart")
  BY DEF MayFollow, Shifts
<1> QED
  BY <1>1, <1>2, ListedSteps DEF Listed, WebSteps

LEMMA CreateList ==
    Listed(CreateSteps, {"net"} \cup Android("ctl") \cup {"anchorRun"} \cup Android("ranchor")
                          \cup {"proof", "webCreate", "webStart"} \cup {"port", "keepToken"})
<1>1. Listed(Nets \o <<"anchorRun">>, {"net"} \cup Android("ctl") \cup {"anchorRun"})
  <2>1. Listed(<<"anchorRun">>, {"anchorRun"})
    BY OneStep DEF BoxSteps
  <2>2. \A x \in {"net"} \cup Android("ctl"), y \in {"anchorRun"} : MayFollow(x, y)
    BY DEF Android, MayFollow, Shifts
  <2> QED
    BY <2>1, <2>2, NetList, JoinedLists
<1>2. Listed(Nets \o <<"anchorRun">> \o IfAndroid(<<"ranchor">>),
             {"net"} \cup Android("ctl") \cup {"anchorRun"} \cup Android("ranchor"))
  <2>1. Listed(IfAndroid(<<"ranchor">>), Android("ranchor"))
    BY OnAndroid DEF BoxSteps
  <2>2. \A x \in {"net"} \cup Android("ctl") \cup {"anchorRun"}, y \in Android("ranchor") : MayFollow(x, y)
    BY DEF Android, MayFollow, Shifts
  <2> QED
    BY <1>1, <2>1, <2>2, JoinedLists
<1>3. Listed(Nets \o <<"anchorRun">> \o IfAndroid(<<"ranchor">>) \o WebSteps,
             {"net"} \cup Android("ctl") \cup {"anchorRun"} \cup Android("ranchor") \cup {"proof", "webCreate", "webStart"})
  <2>1. \A x \in {"net"} \cup Android("ctl") \cup {"anchorRun"} \cup Android("ranchor"),
           y \in {"proof", "webCreate", "webStart"} : MayFollow(x, y)
    BY DEF Android, MayFollow, Shifts
  <2> QED
    BY <1>2, <2>1, WebList, JoinedLists
<1>4. Listed(<<"port", "keepToken">>, {"port", "keepToken"})
  <2>1. "port" \in BoxSteps /\ "keepToken" \in BoxSteps /\ MayFollow("port", "keepToken")
    BY DEF BoxSteps, MayFollow, Shifts
  <2> QED
    BY <2>1, ListedSteps DEF Listed
<1>5. \A x \in {"net"} \cup Android("ctl") \cup {"anchorRun"} \cup Android("ranchor") \cup {"proof", "webCreate", "webStart"},
         y \in {"port", "keepToken"} : MayFollow(x, y)
  BY DEF Android, MayFollow, Shifts
<1> QED
  BY <1>3, <1>4, <1>5, JoinedLists DEF CreateSteps

LEMMA AnchorList ==
    Listed(AnchorSteps, {"dropToken"} \cup ({"net"} \cup Android("ctl")) \cup Android("ranchor")
                          \cup {"rmAnchor", "anchorRun", "port", "keepToken"})
<1>1. Listed(<<"dropToken">> \o Nets, {"dropToken"} \cup ({"net"} \cup Android("ctl")))
  <2>1. Listed(<<"dropToken">>, {"dropToken"})
    BY OneStep DEF BoxSteps
  <2>2. \A x \in {"dropToken"}, y \in {"net"} \cup Android("ctl") : MayFollow(x, y)
    BY DEF Android, MayFollow, Shifts
  <2> QED
    BY <2>1, <2>2, NetList, JoinedLists
<1>2. Listed(<<"dropToken">> \o Nets \o IfAndroid(<<"ranchor">>),
             {"dropToken"} \cup ({"net"} \cup Android("ctl")) \cup Android("ranchor"))
  <2>1. Listed(IfAndroid(<<"ranchor">>), Android("ranchor"))
    BY OnAndroid DEF BoxSteps
  <2>2. \A x \in {"dropToken"} \cup ({"net"} \cup Android("ctl")), y \in Android("ranchor") : MayFollow(x, y)
    BY DEF Android, MayFollow, Shifts
  <2> QED
    BY <1>1, <2>1, <2>2, JoinedLists
<1>3. Listed(<<"rmAnchor", "anchorRun", "port", "keepToken">>, {"rmAnchor", "anchorRun", "port", "keepToken"})
  <2>1. "rmAnchor" \in BoxSteps /\ "anchorRun" \in BoxSteps /\ "port" \in BoxSteps /\ "keepToken" \in BoxSteps
    BY DEF BoxSteps
  <2>2. /\ MayFollow("rmAnchor", "anchorRun") /\ MayFollow("rmAnchor", "port") /\ MayFollow("rmAnchor", "keepToken")
        /\ MayFollow("anchorRun", "port") /\ MayFollow("anchorRun", "keepToken") /\ MayFollow("port", "keepToken")
    BY DEF MayFollow, Shifts
  <2> QED
    BY <2>1, <2>2, ListedSteps DEF Listed
<1>4. \A x \in {"dropToken"} \cup ({"net"} \cup Android("ctl")) \cup Android("ranchor"),
         y \in {"rmAnchor", "anchorRun", "port", "keepToken"} : MayFollow(x, y)
  BY DEF Android, MayFollow, Shifts
<1> QED
  BY <1>2, <1>3, <1>4, JoinedLists DEF AnchorSteps

LEMMA RecreateList ==
    Listed(RecreateSteps, Android("ranchor") \cup {"rmWebExact"} \cup {"proof", "webCreate", "webStart"})
<1>1. Listed(IfAndroid(<<"ranchor">>), Android("ranchor")) /\ Listed(<<"rmWebExact">>, {"rmWebExact"})
  BY OnAndroid, OneStep DEF BoxSteps
<1>2. \A x \in Android("ranchor"), y \in {"rmWebExact"} : MayFollow(x, y)
  BY DEF Android, MayFollow, Shifts
<1>3. \A x \in Android("ranchor") \cup {"rmWebExact"}, y \in {"proof", "webCreate", "webStart"} : MayFollow(x, y)
  BY DEF Android, MayFollow, Shifts
<1> QED
  BY <1>1, <1>2, <1>3, WebList, JoinedLists DEF RecreateSteps

LEMMA PairLists ==
    /\ Listed(AddSteps, {"svcProof", "svcRun"})
    /\ Listed(RestartSteps, {"stopExact", "webStart"})
    /\ Listed(BounceSteps, {"stopSvcExact", "svcStart"})
<1>1. {"svcProof", "svcRun", "stopExact", "webStart", "stopSvcExact", "svcStart"} \subseteq BoxSteps
  BY DEF BoxSteps
<1>2. MayFollow("svcProof", "svcRun") /\ MayFollow("stopExact", "webStart") /\ MayFollow("stopSvcExact", "svcStart")
  BY DEF MayFollow, Shifts
<1> QED
  BY <1>1, <1>2, ListedSteps DEF Listed, AddSteps, RestartSteps, BounceSteps

LEMMA ColdList ==
    \E S1 \in SUBSET Colds :
        /\ Listed(ColdSteps, S1) /\ {"dropToken", "webStart"} \subseteq S1
        /\ (Ours("svc") => "svcRun" \in S1) /\ ("ctl" \in S1 => android)
<1> DEFINE A == {"dropToken"} \cup ({"net"} \cup Android("ctl")) \cup Android("ranchor")
                \cup {"rmAnchor", "anchorRun", "port", "keepToken"}
           svc == IF Ours("svc") THEN {"rmSvc"} \cup {"svcProof", "svcRun"} ELSE {}
           Z == Android("ranchor") \cup {"rmWebExact"} \cup {"proof", "webCreate", "webStart"}
           list == IF Ours("svc") THEN <<"rmSvc">> \o AddSteps ELSE <<>>
<1>1. Listed(list, svc)
  <2>1. CASE Ours("svc")
    <3>1. Listed(<<"rmSvc">>, {"rmSvc"})
      BY OneStep DEF BoxSteps
    <3>2. \A x \in {"rmSvc"}, y \in {"svcProof", "svcRun"} : MayFollow(x, y)
      BY DEF MayFollow, Shifts
    <3> QED
      BY <2>1, <3>1, <3>2, PairLists, JoinedLists
  <2>2. CASE ~Ours("svc")
    BY <2>2, EmptyList
  <2> QED
    BY <2>1, <2>2
<1>2. Listed(AnchorSteps \o list, A \cup svc)
  <2>1. \A x \in A, y \in svc : MayFollow(x, y)
    BY DEF Android, MayFollow, Shifts
  <2> QED
    BY <1>1, <2>1, AnchorList, JoinedLists
<1>3. Listed(AnchorSteps \o list \o RecreateSteps, A \cup svc \cup Z)
  <2>1. \A x \in A \cup svc, y \in Z : MayFollow(x, y)
    BY DEF Android, MayFollow, Shifts
  <2> QED
    BY <1>2, <2>1, RecreateList, JoinedLists
<1>4. ColdSteps = AnchorSteps \o list \o RecreateSteps
  BY DEF ColdSteps
<1>5. A \cup svc \cup Z \in SUBSET Colds
  BY DEF Android, Colds
<1>6. /\ {"dropToken", "webStart"} \subseteq A \cup svc \cup Z /\ (Ours("svc") => "svcRun" \in A \cup svc \cup Z)
      /\ ("ctl" \in A \cup svc \cup Z => android)
  BY DEF Android
<1> QED
  BY <1>3, <1>4, <1>5, <1>6

LEMMA PortList ==
    \E S1 \in SUBSET Colds :
        /\ Listed(AnchorSteps \o RecreateSteps, S1) /\ {"dropToken", "webStart"} \subseteq S1
        /\ ("ctl" \in S1 => android)
<1> DEFINE A == {"dropToken"} \cup ({"net"} \cup Android("ctl")) \cup Android("ranchor")
                \cup {"rmAnchor", "anchorRun", "port", "keepToken"}
           Z == Android("ranchor") \cup {"rmWebExact"} \cup {"proof", "webCreate", "webStart"}
<1>1. \A x \in A, y \in Z : MayFollow(x, y)
  BY DEF Android, MayFollow, Shifts
<1>2. Listed(AnchorSteps \o RecreateSteps, A \cup Z)
  BY <1>1, AnchorList, RecreateList, JoinedLists
<1>3. A \cup Z \in SUBSET Colds
  BY DEF Android, Colds
<1>4. {"dropToken", "webStart"} \subseteq A \cup Z /\ ("ctl" \in A \cup Z => android)
  BY DEF Android
<1> QED
  BY <1>2, <1>3, <1>4

LEMMA ResumeList ==
    \E S1 : Listed(ResumeSteps, S1) /\ "retained" \in S1 /\ "ctl" \notin S1 /\ "anchorRun" \notin S1
<1> DEFINE svc == IF Ours("svc") THEN {"startSvc"} ELSE {}
           list == IF Ours("svc") THEN <<"startSvc">> ELSE <<>>
<1>1. {"retained", "startAnchor", "startRanchor", "startSvc", "startWeb", "warmPort"} \subseteq BoxSteps
  BY DEF BoxSteps
<1>2. Listed(<<"retained", "startAnchor">>, {"retained", "startAnchor"})
  <2>1. MayFollow("retained", "startAnchor")
    BY DEF MayFollow, Shifts
  <2> QED
    BY <1>1, <2>1, ListedSteps DEF Listed
<1>3. Listed(<<"retained", "startAnchor">> \o IfAndroid(<<"startRanchor">>), {"retained", "startAnchor"} \cup Android("startRanchor"))
  <2>1. \A x \in {"retained", "startAnchor"}, y \in Android("startRanchor") : MayFollow(x, y)
    BY DEF Android, MayFollow, Shifts
  <2> QED
    BY <1>1, <1>2, <2>1, OnAndroid, JoinedLists
<1>4. Listed(list, svc)
  BY <1>1, OneStep, EmptyList
<1>5. Listed(<<"retained", "startAnchor">> \o IfAndroid(<<"startRanchor">>) \o list,
             {"retained", "startAnchor"} \cup Android("startRanchor") \cup svc)
  <2>1. \A x \in {"retained", "startAnchor"} \cup Android("startRanchor"), y \in svc : MayFollow(x, y)
    BY DEF Android, MayFollow, Shifts
  <2> QED
    BY <1>3, <1>4, <2>1, JoinedLists
<1>6. Listed(<<"startWeb", "warmPort">>, {"startWeb", "warmPort"})
  <2>1. MayFollow("startWeb", "warmPort")
    BY DEF MayFollow, Shifts
  <2> QED
    BY <1>1, <2>1, ListedSteps DEF Listed
<1>7. \A x \in {"retained", "startAnchor"} \cup Android("startRanchor") \cup svc, y \in {"startWeb", "warmPort"} : MayFollow(x, y)
  BY DEF Android, MayFollow, Shifts
<1>8. Listed(ResumeSteps, {"retained", "startAnchor"} \cup Android("startRanchor") \cup svc \cup {"startWeb", "warmPort"})
  <2>1. ResumeSteps = <<"retained", "startAnchor">> \o IfAndroid(<<"startRanchor">>) \o list \o <<"startWeb", "warmPort">>
    BY DEF ResumeSteps
  <2> QED
    BY <1>5, <1>6, <1>7, <2>1, JoinedLists
<1>9. LET S1 == {"retained", "startAnchor"} \cup Android("startRanchor") \cup svc \cup {"startWeb", "warmPort"} IN
        "retained" \in S1 /\ "ctl" \notin S1 /\ "anchorRun" \notin S1
  BY DEF Android
<1> QED
  BY <1>8, <1>9

LEMMA StopList == Listed(StopSteps, Stops)
<1> DEFINE s == StopSteps
<1>1. /\ s \in Seq(BoxSteps) /\ Len(s) = 5 /\ s[1] = "stopWeb" /\ s[2] = "stopSvc" /\ s[3] = "stopRanchor"
      /\ s[4] = "stopAnchor" /\ s[5] = "inventory"
  BY DEF StopSteps, BoxSteps
<1> HIDE DEF s
<1>2. StepsIn(s) = Stops
  <2>1. 1 .. 5 = {1, 2, 3, 4, 5}
    OBVIOUS
  <2> QED
    BY <1>1, <2>1 DEF StepsIn, Stops
<1>3. InOrder(s)
  <2> SUFFICES ASSUME NEW i \in 1 .. 5, NEW j \in 1 .. 5, i < j PROVE MayFollow(s[i], s[j])
    BY <1>1 DEF InOrder
  <2>1. (s[j] \in {"stopWeb", "stopSvc"} => i = 1) /\ s[j] # "retained" /\ s[i] \in Stops
    BY <1>1 DEF Stops
  <2> QED
    BY <1>1, <2>1 DEF MayFollow, Shifts, Stops
<1> QED
  BY <1>1, <1>2, <1>3 DEF Listed, s

LEMMA DeleteList == Listed(DeleteSteps, Deletes)
<1> DEFINE s == DeleteSteps
<1>1. /\ s \in Seq(BoxSteps) /\ Len(s) = 12 /\ s[1] = "owned" /\ s[2] = "stopWeb" /\ s[3] = "stopSvc"
      /\ s[4] = "stopRanchor" /\ s[5] = "stopAnchor" /\ s[6] = "eraseLeaves" /\ s[7] = "eraseRanchor"
      /\ s[8] = "eraseAnchor" /\ s[9] = "inventoryGone" /\ s[10] = "rmNet" /\ s[11] = "rmCtl" /\ s[12] = "dropToken"
  BY DEF DeleteSteps, BoxSteps
<1> HIDE DEF s
<1>2. StepsIn(s) = Deletes
  <2>1. 1 .. 12 = {1, 2, 3, 4, 5, 6, 7, 8, 9, 10, 11, 12}
    OBVIOUS
  <2> QED
    BY <1>1, <2>1 DEF StepsIn, Deletes
<1>3. InOrder(s)
  <2> SUFFICES ASSUME NEW i \in 1 .. 12, NEW j \in 1 .. 12, i < j PROVE MayFollow(s[i], s[j])
    BY <1>1 DEF InOrder
  <2>1. s[i] \in Deletes /\ s[j] \in Deletes
    BY <1>1, <1>2 DEF StepsIn
  <2>2. s[j] \in {"stopWeb", "stopSvc"} => j \in {2, 3}
    BY <1>1
  <2>3. i \in {1, 2} => s[i] \in {"owned", "stopWeb"}
    BY <1>1
  <2>4. s[j] \in {"stopWeb", "stopSvc"} => s[i] \notin Shifts
    BY <2>2, <2>3 DEF Shifts
  <2> QED
    BY <2>1, <2>4 DEF MayFollow, Deletes
<1> QED
  BY <1>1, <1>2, <1>3 DEF Listed, s

LEMMA RollbackList ==
    Listed(Rollback, {"dropToken", "rmWeb", "rmRanchor", "rmAnchor"} \cup Android("rmCtl") \cup {"rmNet"})
<1>1. Listed(<<"dropToken", "rmWeb", "rmRanchor", "rmAnchor">>, {"dropToken", "rmWeb", "rmRanchor", "rmAnchor"})
  <2>1. "dropToken" \in BoxSteps /\ "rmWeb" \in BoxSteps /\ "rmRanchor" \in BoxSteps /\ "rmAnchor" \in BoxSteps
    BY DEF BoxSteps
  <2>2. /\ MayFollow("dropToken", "rmWeb") /\ MayFollow("dropToken", "rmRanchor") /\ MayFollow("dropToken", "rmAnchor")
        /\ MayFollow("rmWeb", "rmRanchor") /\ MayFollow("rmWeb", "rmAnchor") /\ MayFollow("rmRanchor", "rmAnchor")
    BY DEF MayFollow, Shifts
  <2> QED
    BY <2>1, <2>2, ListedSteps DEF Listed
<1>2. Listed(IfAndroid(<<"rmCtl">>), Android("rmCtl")) /\ Listed(<<"rmNet">>, {"rmNet"})
  BY OnAndroid, OneStep DEF BoxSteps
<1>3. \A x \in {"dropToken", "rmWeb", "rmRanchor", "rmAnchor"}, y \in Android("rmCtl") : MayFollow(x, y)
  BY DEF Android, MayFollow, Shifts
<1>4. \A x \in {"dropToken", "rmWeb", "rmRanchor", "rmAnchor"} \cup Android("rmCtl"), y \in {"rmNet"} : MayFollow(x, y)
  BY DEF Android, MayFollow, Shifts
<1> QED
  BY <1>1, <1>2, <1>3, <1>4, JoinedLists DEF Rollback

\* An operation begins with the calls of its plan, or with the comparison.
LEMMA Begun ==
    ASSUME android \in BOOLEAN, NEW o \in BoxOps
    PROVE  \E S1 :
             /\ Listed(StepsOf(o), S1) /\ ("ctl" \in S1 => android)
             /\ S1 \subseteq Plan(o, "do") \/ (o = "wake" /\ "retained" \in S1)
             /\ o \in WebOps => "webStart" \in S1 \/ "retained" \in S1
             /\ "anchorRun" \in S1 => "dropToken" \in S1 \/ o = "create"
             /\ o = "wake" => "retained" \in S1
             /\ o = "stop" => S1 = Stops
             /\ o = "delete" => S1 = Deletes
<1>1. CASE o = "create"
  <2>1. StepsOf(o) = CreateSteps
    BY <1>1 DEF StepsOf
  <2> QED
    BY <1>1, <2>1, CreateList DEF Android, Plan, WebOps
<1>2. CASE o = "wake"
  <2>1. StepsOf(o) = ResumeSteps
    BY <1>2 DEF StepsOf
  <2> QED
    BY <1>2, <2>1, ResumeList
<1>3. CASE o = "stop"
  <2>1. StepsOf(o) = StopSteps
    BY <1>3 DEF StepsOf
  <2> QED
    BY <1>3, <2>1, StopList DEF Stops, Plan, WebOps
<1>4. CASE o = "delete"
  <2>1. StepsOf(o) = DeleteSteps
    BY <1>4 DEF StepsOf
  <2> QED
    BY <1>4, <2>1, DeleteList DEF Deletes, Plan, WebOps
<1>5. CASE o = "recreate"
  <2>1. StepsOf(o) = RecreateSteps
    BY <1>5 DEF StepsOf
  <2> QED
    BY <1>5, <2>1, RecreateList DEF Android, Plan, WebOps
<1>6. CASE o = "port"
  <2>1. StepsOf(o) = AnchorSteps \o RecreateSteps
    BY <1>6 DEF StepsOf
  <2> QED
    BY <1>6, <2>1, PortList DEF Plan
<1>7. CASE o \in {"restart", "add", "bounce"}
  <2>1. /\ o = "restart" => StepsOf(o) = RestartSteps
        /\ o = "add" => StepsOf(o) = AddSteps
        /\ o = "bounce" => StepsOf(o) = BounceSteps
    BY DEF StepsOf
  <2> QED
    BY <1>7, <2>1, PairLists DEF Plan, WebOps
<1>8. CASE o = "drop"
  <2>1. StepsOf(o) = <<"rmSvc">>
    BY <1>8 DEF StepsOf
  <2>2. Listed(<<"rmSvc">>, {"rmSvc"})
    BY OneStep DEF BoxSteps
  <2> QED
    BY <1>8, <2>1, <2>2 DEF Plan, WebOps
<1> QED
  BY <1>1, <1>2, <1>3, <1>4, <1>5, <1>6, <1>7, <1>8 DEF BoxOps

\* So does what takes it back.
LEMMA Handled ==
    ASSUME android \in BOOLEAN, NEW o \in BoxOps, NEW s \in Plan(o, "do")
    PROVE  \E S1 :
             /\ Listed(Handler(o, s), S1) /\ S1 \subseteq Plan(o, "undo")
             /\ o = "create" => {"rmWeb", "rmRanchor", "rmAnchor", "rmNet"} \cup Android("rmCtl") \subseteq S1
<1>1. CASE o = "create"
  <2>1. Handler(o, s) = Rollback
    BY <1>1 DEF Handler
  <2> QED
    BY <1>1, <2>1, RollbackList DEF Android, Plan
<1>2. CASE o # "create" /\ s \in {"anchorRun", "port"}
  <2>1. Handler(o, s) = <<"rmAnchor">>
    BY <1>2 DEF Handler
  <2>2. Listed(<<"rmAnchor">>, {"rmAnchor"})
    BY OneStep DEF BoxSteps
  <2>3. o \in {"wake", "port"}
    BY <1>2 DEF Plan, Stops, Deletes
  <2> QED
    BY <1>2, <2>1, <2>2, <2>3 DEF Plan
<1>3. CASE o \notin {"create", "restart"} /\ s \in {"webCreate", "webStart"}
  <2>1. Handler(o, s) = <<"rmWeb">>
    BY <1>3 DEF Handler
  <2>2. Listed(<<"rmWeb">>, {"rmWeb"})
    BY OneStep DEF BoxSteps
  <2>3. o \in {"wake", "port", "recreate"}
    BY <1>3 DEF Plan, Stops, Deletes
  <2> QED
    BY <1>3, <2>1, <2>2, <2>3 DEF Plan
<1>4. CASE o # "create" /\ s \in {"svcRun", "svcStart"}
  <2>1. Handler(o, s) = <<"rmSvc">>
    BY <1>4 DEF Handler
  <2>2. Listed(<<"rmSvc">>, {"rmSvc"})
    BY OneStep DEF BoxSteps
  <2>3. o \in {"wake", "port", "add", "bounce"}
    BY <1>4 DEF Plan, Stops, Deletes
  <2> QED
    BY <1>4, <2>1, <2>2, <2>3 DEF Plan
<1>5. CASE /\ o # "create" /\ s \notin {"anchorRun", "port", "svcRun", "svcStart"}
           /\ s \notin {"webCreate", "webStart"} \/ o = "restart"
  <2>1. Handler(o, s) = <<>>
    BY <1>5 DEF Handler
  <2> QED
    BY <1>5, <2>1, EmptyList
<1> QED
  BY <1>1, <1>2, <1>3, <1>4, <1>5

-----------------------------------------------------------------------------
(* The steps *)

LEMMA DataIs == ASSUME BoxInv PROVE BoxData
BY DEF BoxInv, BoxTyped, Kept, BoxData

\* What the call that is next may be.
LEMMA NextCall ==
    ASSUME BoxInv, act.todo # <<>>
    PROVE  /\ Head(act.todo) \in BoxSteps /\ Tail(act.todo) \in Seq(BoxSteps) /\ InOrder(Tail(act.todo))
           /\ StepsIn(act.todo) = {Head(act.todo)} \cup StepsIn(Tail(act.todo))
           /\ \A t \in StepsIn(Tail(act.todo)) : MayFollow(Head(act.todo), t)
           /\ act.op \in BoxOps /\ act.mode \in {"do", "undo"}
           /\ \/ Head(act.todo) = "retained" /\ act.op = "wake" /\ act.mode = "do"
              \/ /\ StepsIn(act.todo) \subseteq Plan(act.op, act.mode) /\ Head(act.todo) \notin Warm
                 /\ ~Ahead("retained")
           /\ Head(act.todo) = "anchorRun" => relay = "none"
<1>1. act \in BoxActs /\ act.todo \in Seq(BoxSteps) /\ InOrder(act.todo)
  BY DEF BoxInv, BoxTyped, Planned, BoxActs
<1>2. /\ Head(act.todo) \in BoxSteps /\ Tail(act.todo) \in Seq(BoxSteps) /\ InOrder(Tail(act.todo))
      /\ StepsIn(act.todo) = {Head(act.todo)} \cup StepsIn(Tail(act.todo))
      /\ \A t \in StepsIn(Tail(act.todo)) : MayFollow(Head(act.todo), t)
  BY <1>1, TailSteps
<1>3. act.op \in BoxOps /\ act.mode \in {"do", "undo"}
  <2>1. act.op # "none"
    BY DEF BoxInv, Planned, NoAct
  <2> QED
    BY <1>1, <2>1 DEF BoxInv, Planned, BoxActs
<1>4. \/ Head(act.todo) = "retained" /\ act.op = "wake" /\ act.mode = "do"
      \/ /\ StepsIn(act.todo) \subseteq Plan(act.op, act.mode) /\ Head(act.todo) \notin Warm
         /\ ~Ahead("retained")
  <2>1. CASE Ahead("retained") /\ act.op = "wake" /\ act.mode = "do"
    BY <1>2, <2>1 DEF Ahead, MayFollow
  <2>2. CASE StepsIn(act.todo) \subseteq Plan(act.op, act.mode)
    <3>1. \A o \in BoxOps, mode \in {"do", "undo"} : Plan(o, mode) \cap Warm = {}
      BY DEF Plan, Warm, Colds, Stops, Deletes, BoxOps
    <3>2. "retained" \in Warm
      BY DEF Warm
    <3> QED
      BY <1>2, <1>3, <2>2, <3>1, <3>2 DEF Ahead
  <2> QED
    BY <2>1, <2>2 DEF BoxInv, Planned
<1>5. ASSUME Head(act.todo) = "anchorRun" PROVE relay = "none"
  <2>1. Ahead("anchorRun") /\ ~Ahead("dropToken")
    BY <1>2, <1>5 DEF Ahead, MayFollow
  <2> QED
    BY <2>1 DEF BoxInv, Kept
<1> QED
  BY <1>2, <1>3, <1>4, <1>5

LEMMA NoShifts ==
    ASSUME NEW o \in AwakeOps \ {"port"}, NEW mode \in {"do", "undo"}
    PROVE  Plan(o, mode) \cap Shifts = {}
BY DEF AwakeOps, Plan, Shifts

LEMMA BoxBegins ==
    ASSUME RoomContainersAssumption, BoxInv, NEW o \in Ops, Begin(o)
    PROVE  BoxInv'
<1>0. o \in BoxOps /\ MaxOps \in Nat
  BY DEF RoomContainersAssumption, BoxOps
<1>1. /\ act = NoAct /\ ops < MaxOps /\ Allowed(o)
      /\ act' = [op |-> o, mode |-> "do", todo |-> StepsOf(o), gaps |-> FALSE]
      /\ moved' = ((moved /\ o # "wake") \/ o = "port") /\ ops' = ops + 1
      /\ android' = android /\ want' = want /\ box' = box /\ nets' = nets /\ relay' = relay
      /\ state' = state /\ last' = last /\ faults' = faults
  BY DEF Begin
<1>2. PICK S1 :
             /\ Listed(StepsOf(o), S1) /\ ("ctl" \in S1 => android)
             /\ S1 \subseteq Plan(o, "do") \/ (o = "wake" /\ "retained" \in S1)
             /\ o \in WebOps => "webStart" \in S1 \/ "retained" \in S1
             /\ "anchorRun" \in S1 => "dropToken" \in S1 \/ o = "create"
             /\ o = "wake" => "retained" \in S1
             /\ o = "stop" => S1 = Stops
             /\ o = "delete" => S1 = Deletes
  BY <1>0, Begun DEF BoxInv, BoxTyped
<1>3. /\ act'.op = o /\ act'.mode = "do" /\ act'.todo = StepsOf(o) /\ act'.gaps = FALSE
      /\ StepsOf(o) \in Seq(BoxSteps) /\ InOrder(StepsOf(o)) /\ StepsIn(act'.todo) = S1
      /\ act.op = "none" /\ o # "none"
  BY <1>0, <1>1, <1>2 DEF Listed, NoAct, BoxOps
<1>4. BoxTyped'
  <2>1. act' \in BoxActs
    BY <1>0, <1>1, <1>3 DEF BoxActs
  <2>2. ops' \in 0 .. MaxOps
    BY <1>0, <1>1 DEF BoxInv, BoxTyped
  <2>3. moved' \in BOOLEAN
    BY <1>1
  <2> QED
    BY <1>1, <2>1, <2>2, <2>3 DEF BoxInv, BoxTyped
<1>5. /\ o = "create" => state = "none"
      /\ state = "none" => o = "create"
      /\ o \in AwakeOps => state = "awake"
      /\ o = "wake" => state \in {"asleep", "broken"}
  BY <1>0, <1>1 DEF Allowed, AwakeOps, BoxOps
<1>6. Planned'
  BY <1>1, <1>2, <1>3, <1>5 DEF Planned, Ahead
<1>7. Kept'
  BY <1>1, <1>2, <1>3, <1>5 DEF BoxInv, Kept, Ahead, Ours
<1>8. Stopping' /\ StoppedAll' /\ Deleting' /\ Undoing' /\ WebJoined' /\ SvcJoined' /\ AtRest'
  BY <1>2, <1>3 DEF Stopping, StoppedAll, Deleting, Undoing, WebJoined, SvcJoined, AtRest, Ahead, Stops, Deletes
<1>9. AwakeJoined'
  BY <1>1, <1>3, <1>5 DEF BoxInv, AwakeJoined, Proof, Ours, Authority, Joins, Running, Attached
<1> QED
  BY <1>4, <1>6, <1>7, <1>8, <1>9 DEF BoxInv

\* A call of the list, whether or not it succeeds, when the list goes on.
LEMMA BoxGoesOn ==
    ASSUME BoxInv, act.todo # <<>>, Moderate(Head(act.todo)), android' = android, state' = state, moved' = moved,
           act' \in BoxActs, act'.op = act.op, act'.mode = act.mode, act'.todo = Tail(act.todo),
           Head(act.todo) \notin Warm, Head(act.todo) = "dropToken" => relay' = "none"
    PROVE  Planned' /\ Kept' /\ AwakeJoined' /\ AtRest'
<1> DEFINE s == Head(act.todo)
<1>1. /\ s \in BoxSteps /\ InOrder(act'.todo) /\ StepsIn(act.todo) = {s} \cup StepsIn(act'.todo)
      /\ \A t \in StepsIn(act'.todo) : MayFollow(s, t)
      /\ act.op \in BoxOps /\ act.mode \in {"do", "undo"} /\ act.op # "none"
      /\ StepsIn(act.todo) \subseteq Plan(act.op, act.mode) /\ ~Ahead("retained")
  BY NextCall DEF Warm, BoxOps
<1>2. /\ Gentle(Makes(s), Starts(s), Opens(s)) /\ (s \notin Shifts => Steady)
      /\ relay = "none" /\ s # "keepToken" => relay' = "none"
      /\ s = "dropToken" => relay' = "none"
  BY DEF Moderate
<1> HIDE DEF s
<1>3. Planned'
  BY <1>1 DEF BoxInv, Planned, Ahead
<1>4. Kept'
  <2>1. relay' = "other" => box'["anchor"].own # "ours"
    BY <1>2 DEF Gentle
  <2>2. (Ahead("anchorRun"))' /\ ~(Ahead("dropToken"))' => relay' = "none"
    BY <1>1, <1>2 DEF Ahead, BoxInv, Kept, MayFollow
  <2>3. state' = "none" => box'["svc"].own # "ours"
    <3> SUFFICES ASSUME state = "none" PROVE box'["svc"].own # "ours"
      OBVIOUS
    <3>1. act.op = "create" /\ ~Ours("svc")
      BY <1>1 DEF BoxInv, Planned, Kept
    <3>2. s # "svcRun"
      BY <1>1, <3>1 DEF Plan
    <3>3. "svc" \notin Makes(s) /\ "svc" \in Roles
      BY <3>2 DEF Makes, Roles, Joiners
    <3> QED
      BY <1>2, <3>1, <3>3 DEF Gentle, Ours
  <2>4. ~android' => nets'.control # "ours"
    <3> SUFFICES ASSUME ~android PROVE nets'["control"] # "ours"
      OBVIOUS
    <3>1. s # "ctl" /\ nets["control"] # "ours"
      BY <1>1 DEF BoxInv, Planned, Kept, Ahead
    <3>2. "control" \notin Opens(s)
      BY <3>1 DEF Opens
    <3> QED
      BY <1>2, <3>1, <3>2 DEF Gentle
  <2>5. \A r \in Joiners : box'[r].own = "ours" => box'[r].link # "none"
    BY <1>2 DEF Gentle
  <2> QED
    BY <1>1, <2>1, <2>2, <2>3, <2>4, <2>5 DEF Kept, Ours
<1>5. AwakeJoined'
  <2> SUFFICES ASSUME state = "awake", act.op \notin {"stop", "delete"}, ~moved PROVE Proof' /\ (Joins("svc"))'
    BY DEF AwakeJoined
  <2>1. act.op \in AwakeOps \ {"port"}
    BY <1>1 DEF BoxInv, Planned, AwakeOps, BoxOps
  <2>2. s \notin Shifts
    BY <1>1, <2>1, NoShifts
  <2>3. Proof /\ Joins("svc") /\ "svc" \in Joiners
    BY DEF BoxInv, AwakeJoined, Joiners
  <2> QED
    BY <1>2, <2>2, <2>3 DEF Steady
<1>6. AtRest'
  BY <1>1 DEF AtRest
<1> QED
  BY <1>3, <1>4, <1>5, <1>6

LEMMA BoxStepDone ==
    ASSUME BoxInv, StepDone
    PROVE  BoxInv'
<1> DEFINE s == Head(act.todo)
<1>1. /\ act.todo # <<>> /\ Call(s) /\ act' = [act EXCEPT !.todo = Tail(@)]
      /\ android' = android /\ want' = want /\ state' = state /\ last' = last /\ moved' = moved
      /\ ops' = ops /\ faults' = faults
  BY DEF StepDone
<1>2. s # "retained"
  <2>1. Drift
    BY DEF Drift, JoinsByName
  <2>2. Call("retained") => FALSE
    BY <2>1 DEF Call
  <2> QED
    BY <1>1, <2>2
<1>3. /\ s \in BoxSteps /\ Tail(act.todo) \in Seq(BoxSteps)
      /\ StepsIn(act.todo) = {s} \cup StepsIn(Tail(act.todo)) /\ \A t \in StepsIn(Tail(act.todo)) : MayFollow(s, t)
      /\ act.op \in BoxOps /\ act.mode \in {"do", "undo"}
      /\ StepsIn(act.todo) \subseteq Plan(act.op, act.mode) /\ s \notin Warm /\ ~Ahead("retained")
      /\ s = "anchorRun" => relay = "none"
  BY <1>1, <1>2, NextCall
<1>4. Moderate(s) /\ Done(s)
  BY <1>1, <1>3, Calls, DataIs
<1>5. /\ act' \in BoxActs /\ act'.op = act.op /\ act'.mode = act.mode /\ act'.todo = Tail(act.todo) /\ act'.gaps = act.gaps
  BY <1>1, <1>3 DEF BoxInv, BoxTyped, BoxActs
<1>6. Planned' /\ Kept' /\ AwakeJoined' /\ AtRest'
  BY <1>1, <1>3, <1>4, <1>5, BoxGoesOn DEF Done
<1>7. /\ Gentle(Makes(s), Starts(s), Opens(s)) /\ (s \notin Shifts => Steady)
  BY <1>4 DEF Moderate
<1>8. BoxTyped'
  BY <1>1, <1>5, <1>7 DEF BoxInv, BoxTyped, Gentle
<1>9. \A t \in BoxSteps : (Ahead(t) <=> (t = s \/ (Ahead(t))'))
  BY <1>3, <1>5 DEF Ahead
<1>10. {"web", "svc", "anchor", "ranchor"} \subseteq Roles /\ {"web", "svc"} \subseteq Joiners
  BY DEF Roles, Anchors, Joiners
<1>11. ASSUME act.op \in {"stop", "delete"}, act.mode = "do"
       PROVE  Makes(s) = {} /\ Starts(s) = {} /\ Opens(s) = {}
  BY <1>3, <1>11 DEF Plan, Stops, Deletes, Makes, Starts, Opens
<1>12. ASSUME act.mode = "undo" PROVE Makes(s) = {} /\ Starts(s) = {} /\ Opens(s) = {}
  BY <1>3, <1>12 DEF Plan, Makes, Starts, Opens
<1> HIDE DEF s
<1>13. Stopping'
  <2> SUFFICES ASSUME act.op \in {"stop", "delete"}, act.mode = "do", ~act.gaps
               PROVE  /\ ~(Ahead("stopWeb"))' => ~(Running("web"))'
                      /\ ~(Ahead("stopSvc"))' => ~(Running("svc"))'
    BY <1>5 DEF Stopping
  <2>1. "stopWeb" \in BoxSteps /\ "stopSvc" \in BoxSteps
    BY DEF BoxSteps
  <2>2. /\ ~Ahead("stopWeb") => ~Running("web")
        /\ ~Ahead("stopSvc") => ~Running("svc")
    BY DEF BoxInv, Stopping
  <2>3. (Running("web"))' => Running("web")
    BY <1>7, <1>10, <1>11 DEF Gentle
  <2>4. (Running("svc"))' => Running("svc")
    BY <1>7, <1>10, <1>11 DEF Gentle
  <2>5. (s = "stopWeb" => ~(Running("web"))') /\ (s = "stopSvc" => ~(Running("svc"))')
    BY <1>4 DEF Done
  <2> QED
    BY <1>9, <2>1, <2>2, <2>3, <2>4, <2>5
<1>14. StoppedAll'
  <2> SUFFICES ASSUME act.op = "stop", act.mode = "do", ~(Ahead("inventory"))', NEW r \in Roles
               PROVE  ~(Running(r))'
    BY <1>5 DEF StoppedAll
  <2>1. CASE s = "inventory"
    BY <1>4, <2>1 DEF Done
  <2>2. CASE s # "inventory"
    <3>1. ~Ahead("inventory")
      BY <1>9, <2>2 DEF BoxSteps
    <3>2. ~Running(r)
      BY <3>1 DEF BoxInv, StoppedAll
    <3> QED
      BY <1>7, <1>11, <3>2 DEF Gentle
  <2> QED
    BY <2>1, <2>2
<1>15. Deleting'
  <2> SUFFICES ASSUME act.op = "delete", act.mode = "do"
               PROVE  /\ ~(Ahead("inventoryGone"))' => \A r \in Roles : box'[r].own # "ours"
                      /\ ~(Ahead("rmNet"))' => nets'.room # "ours"
                      /\ ~(Ahead("rmCtl"))' => nets'.control # "ours"
    BY <1>5 DEF Deleting, Ours
  <2>1. {"inventoryGone", "rmNet", "rmCtl"} \subseteq BoxSteps
    BY DEF BoxSteps
  <2>2. /\ ~Ahead("inventoryGone") => \A r \in Roles : box[r].own # "ours"
        /\ ~Ahead("rmNet") => nets["room"] # "ours"
        /\ ~Ahead("rmCtl") => nets["control"] # "ours"
    BY DEF BoxInv, Deleting, Ours
  <2>3. /\ \A r \in Roles : box'[r].own = "ours" => box[r].own = "ours"
        /\ nets'["room"] = "ours" => nets["room"] = "ours"
        /\ nets'["control"] = "ours" => nets["control"] = "ours"
    BY <1>7, <1>11 DEF Gentle
  <2>4. /\ s = "inventoryGone" => \A r \in Roles : box'[r].own # "ours"
        /\ s = "rmNet" => nets'.room # "ours"
        /\ s = "rmCtl" => nets'.control # "ours"
    BY <1>4 DEF Done
  <2> QED
    BY <1>9, <2>1, <2>2, <2>3, <2>4
<1>16. Undoing'
  <2> SUFFICES ASSUME act.op = "create", act.mode = "undo", ~act.gaps
               PROVE  /\ ~(Ahead("rmWeb"))' => box'["web"].own # "ours"
                      /\ ~(Ahead("rmRanchor"))' => box'["ranchor"].own # "ours"
                      /\ ~(Ahead("rmAnchor"))' => box'["anchor"].own # "ours"
                      /\ ~(Ahead("rmNet"))' => nets'.room # "ours"
                      /\ android /\ ~(Ahead("rmCtl"))' => nets'.control # "ours"
    BY <1>1, <1>5 DEF Undoing, Ours
  <2>1. {"rmWeb", "rmRanchor", "rmAnchor", "rmNet", "rmCtl"} \subseteq BoxSteps
    BY DEF BoxSteps
  <2>2. /\ ~Ahead("rmWeb") => box["web"].own # "ours"
        /\ ~Ahead("rmRanchor") => box["ranchor"].own # "ours"
        /\ ~Ahead("rmAnchor") => box["anchor"].own # "ours"
        /\ ~Ahead("rmNet") => nets["room"] # "ours"
        /\ android /\ ~Ahead("rmCtl") => nets["control"] # "ours"
    BY DEF BoxInv, Undoing, Ours
  <2>3. /\ \A r \in Roles : box'[r].own = "ours" => box[r].own = "ours"
        /\ nets'["room"] = "ours" => nets["room"] = "ours"
        /\ nets'["control"] = "ours" => nets["control"] = "ours"
    BY <1>7, <1>12 DEF Gentle
  <2>4. /\ s = "rmWeb" => box'["web"].own # "ours"
        /\ s = "rmRanchor" => box'["ranchor"].own # "ours"
        /\ s = "rmAnchor" => box'["anchor"].own # "ours"
        /\ s = "rmNet" => nets'.room # "ours"
        /\ s = "rmCtl" => nets'.control # "ours"
    BY <1>4 DEF Done
  <2> QED
    BY <1>9, <1>10, <2>1, <2>2, <2>3, <2>4
<1>17. WebJoined'
  <2> SUFFICES ASSUME act.op \in WebOps, act.mode = "do", ~(Ahead("webStart"))'
               PROVE  /\ StepsIn(Tail(act.todo)) \subseteq {"port", "keepToken"}
                      /\ (Joins("web"))' /\ (moved \/ Proof')
    BY <1>1, <1>5 DEF WebJoined
  <2>1. CASE s = "webStart"
    <3>1. StepsIn(Tail(act.todo)) \subseteq {"port", "keepToken"}
      BY <1>3, <2>1 DEF MayFollow
    <3>2. (Joins("web"))' /\ Proof
      BY <1>4, <2>1 DEF Done
    <3>3. s \notin Shifts
      BY <2>1 DEF Shifts
    <3> QED
      BY <1>7, <3>1, <3>2, <3>3 DEF Steady
  <2>2. CASE s # "webStart"
    <3>1. ~Ahead("webStart")
      BY <1>9, <2>2 DEF BoxSteps
    <3>2. StepsIn(act.todo) \subseteq {"port", "keepToken"} /\ Joins("web") /\ (moved \/ Proof)
      BY <1>3, <3>1 DEF BoxInv, WebJoined
    <3>3. box' = box
      BY <1>3, <1>4, <3>2 DEF Done
    <3> QED
      BY <1>1, <1>3, <3>2, <3>3 DEF Joins, Running, Ours, Attached, Proof, Authority
  <2> QED
    BY <2>1, <2>2
<1>18. SvcJoined'
  <2> SUFFICES ASSUME act.op = "wake", act.mode = "do", ~(Ahead("svcRun"))', box'["svc"].own = "ours"
               PROVE  /\ StepsIn(Tail(act.todo)) \subseteq {"ranchor", "rmWebExact", "proof", "webCreate", "webStart"}
                      /\ moved \/ (Proof' /\ (Joins("svc"))')
    BY <1>1, <1>5 DEF SvcJoined, Ours
  <2>1. CASE s = "svcRun"
    <3>1. StepsIn(Tail(act.todo)) \subseteq {"ranchor", "rmWebExact", "proof", "webCreate", "webStart"}
      BY <1>3, <2>1 DEF MayFollow
    <3>2. (Joins("svc"))' /\ Proof
      BY <1>4, <2>1 DEF Done
    <3>3. s \notin Shifts
      BY <2>1 DEF Shifts
    <3> QED
      BY <1>7, <3>1, <3>2, <3>3 DEF Steady
  <2>2. CASE s # "svcRun"
    <3>1. ~Ahead("svcRun")
      BY <1>9, <2>2 DEF BoxSteps
    <3>2. Ours("svc")
      <4>1. "svc" \notin Makes(s)
        BY <2>2 DEF Makes
      <4> QED
        BY <1>7, <1>10, <4>1 DEF Gentle, Ours
    <3>3. /\ StepsIn(act.todo) \subseteq {"ranchor", "rmWebExact", "proof", "webCreate", "webStart"}
          /\ moved \/ (Proof /\ Joins("svc"))
      BY <1>3, <3>1, <3>2 DEF BoxInv, SvcJoined
    <3>4. s \notin Shifts
      BY <1>3, <3>3 DEF Shifts
    <3> QED
      BY <1>3, <1>7, <1>10, <3>3, <3>4 DEF Steady
  <2> QED
    BY <2>1, <2>2
<1> QED
  BY <1>6, <1>8, <1>13, <1>14, <1>15, <1>16, <1>17, <1>18 DEF BoxInv

LEMMA BoxStepFails ==
    ASSUME BoxInv, StepFails
    PROVE  BoxInv'
<1> DEFINE s == Head(act.todo)
<1>1. /\ act.todo # <<>> /\ s \notin {"dropToken", "keepToken"} /\ Residue(s)
      /\ android' = android /\ want' = want /\ state' = state /\ last' = last /\ moved' = moved
      /\ ops' = ops /\ faults' = faults
  BY DEF StepFails
<1>2. /\ s \in BoxSteps /\ Tail(act.todo) \in Seq(BoxSteps)
      /\ StepsIn(act.todo) = {s} \cup StepsIn(Tail(act.todo)) /\ \A t \in StepsIn(Tail(act.todo)) : MayFollow(s, t)
      /\ act.op \in BoxOps /\ act.mode \in {"do", "undo"}
      /\ \/ s = "retained" /\ act.op = "wake" /\ act.mode = "do"
         \/ StepsIn(act.todo) \subseteq Plan(act.op, act.mode) /\ s \notin Warm /\ ~Ahead("retained")
      /\ s = "anchorRun" => relay = "none"
  BY <1>1, NextCall
<1>3. Moderate(s)
  BY <1>1, <1>2, Residues, DataIs
<1>4. /\ Gentle(Makes(s), Starts(s), Opens(s)) /\ (s \notin Shifts => Steady)
  BY <1>3 DEF Moderate
<1>5. act \in BoxActs
  BY DEF BoxInv, BoxTyped
<1>6. CASE Soft(s)
  <2>1. act' = [act EXCEPT !.todo = Tail(@), !.gaps = TRUE]
    BY <1>6 DEF StepFails
  <2>2. act' \in BoxActs /\ act'.op = act.op /\ act'.mode = act.mode /\ act'.todo = Tail(act.todo) /\ act'.gaps = TRUE
    BY <1>2, <1>5, <2>1 DEF BoxActs
  <2>3. s \notin Warm /\ StepsIn(act.todo) \subseteq Plan(act.op, act.mode) /\ ~Ahead("retained")
    BY <1>2, <1>6 DEF Soft
  <2>4. Planned' /\ Kept' /\ AwakeJoined' /\ AtRest'
    BY <1>1, <1>3, <2>2, <2>3, BoxGoesOn
  <2>5. BoxTyped'
    BY <1>1, <1>4, <2>2 DEF BoxInv, BoxTyped, Gentle
  <2>6. Stopping' /\ Undoing'
    BY <2>2 DEF Stopping, Undoing
  <2>7. act.mode = "do" => act.op \in {"stop", "delete"} /\ s \in {"stopWeb", "stopSvc", "stopRanchor", "stopAnchor"}
    <3>1. act.mode = "do" => s \in {"stopWeb", "stopSvc", "stopRanchor", "stopAnchor"}
      BY <1>6 DEF Soft
    <3>2. s \in Plan(act.op, act.mode)
      BY <1>2, <2>3
    <3> QED
      BY <1>2, <3>1, <3>2 DEF Plan, Colds, BoxOps
  <2>8. WebJoined' /\ SvcJoined'
    BY <2>2, <2>7 DEF WebJoined, SvcJoined, WebOps
  <2>9. act.mode = "do" => Makes(s) = {} /\ Starts(s) = {} /\ Opens(s) = {}
    BY <2>7 DEF Makes, Starts, Opens
  <2>10. \A t \in {"inventory", "inventoryGone", "rmNet", "rmCtl"} : act.mode = "do" /\ ~(Ahead(t))' => ~Ahead(t)
    BY <1>2, <2>2, <2>7 DEF Ahead
  <2>11. StoppedAll'
    <3> SUFFICES ASSUME act.op = "stop", act.mode = "do", ~(Ahead("inventory"))', NEW r \in Roles
                 PROVE  ~(Running(r))'
      BY <2>2 DEF StoppedAll
    <3>1. ~Running(r)
      BY <2>10 DEF BoxInv, StoppedAll
    <3> QED
      BY <1>4, <2>9, <3>1 DEF Gentle
  <2>12. Deleting'
    <3> SUFFICES ASSUME act.op = "delete", act.mode = "do"
                 PROVE  /\ ~(Ahead("inventoryGone"))' => \A r \in Roles : box'[r].own # "ours"
                        /\ ~(Ahead("rmNet"))' => nets'["room"] # "ours"
                        /\ ~(Ahead("rmCtl"))' => nets'["control"] # "ours"
      BY <2>2 DEF Deleting, Ours
    <3>1. /\ ~Ahead("inventoryGone") => \A r \in Roles : box[r].own # "ours"
          /\ ~Ahead("rmNet") => nets["room"] # "ours"
          /\ ~Ahead("rmCtl") => nets["control"] # "ours"
      BY DEF BoxInv, Deleting, Ours
    <3> QED
      BY <1>4, <2>9, <2>10, <3>1 DEF Gentle
  <2> QED
    BY <2>4, <2>5, <2>6, <2>8, <2>11, <2>12 DEF BoxInv
<1>7. CASE ~Soft(s) /\ s \in Warm
  <2>1. s = "retained" /\ act.op = "wake" /\ act.mode = "do"
    BY <1>2, <1>7
  <2>2. act' = [act EXCEPT !.todo = Fallback(s)]
    BY <1>7 DEF StepFails
  <2>3. box' = box /\ nets' = nets /\ relay' = relay
    BY <1>1, <2>1 DEF Residue, Same
  <2>4. Fallback(s) = <<>> \o ColdSteps
    BY <2>1 DEF Fallback
  <2>5. PICK S1 \in SUBSET Colds :
        /\ Listed(ColdSteps, S1) /\ {"dropToken", "webStart"} \subseteq S1
        /\ (Ours("svc") => "svcRun" \in S1) /\ ("ctl" \in S1 => android)
    BY ColdList
  <2>6. Listed(Fallback(s), S1)
    <3>1. <<>> \o ColdSteps = ColdSteps
      BY <2>5 DEF Listed
    <3> QED
      BY <2>4, <2>5, <3>1
  <2>7. /\ act' \in BoxActs /\ act'.op = "wake" /\ act'.mode = "do" /\ StepsIn(act'.todo) = S1 /\ InOrder(act'.todo)
    BY <1>5, <2>1, <2>2, <2>6 DEF BoxActs, Listed
  <2>8. BoxTyped'
    BY <1>1, <2>3, <2>7 DEF BoxInv, BoxTyped
  <2>9. Planned'
    BY <1>1, <2>1, <2>5, <2>7 DEF BoxInv, Planned, Plan, Ahead, AwakeOps
  <2>10. Kept'
    BY <1>1, <2>3, <2>5, <2>7 DEF BoxInv, Kept, Ahead, Ours
  <2>11. Stopping' /\ StoppedAll' /\ Deleting' /\ Undoing' /\ WebJoined' /\ AtRest'
    BY <2>5, <2>7 DEF Stopping, StoppedAll, Deleting, Undoing, WebJoined, AtRest, Ahead
  <2>12. SvcJoined'
    BY <2>3, <2>5, <2>7 DEF SvcJoined, Ahead, Ours
  <2>13. AwakeJoined'
    BY <1>1, <2>1 DEF BoxInv, Planned, AwakeJoined
  <2> QED
    BY <2>8, <2>9, <2>10, <2>11, <2>12, <2>13 DEF BoxInv
<1>8. CASE ~Soft(s) /\ s \notin Warm
  <2>1. act' = [act EXCEPT !.mode = "undo", !.todo = Handler(act.op, s), !.gaps = FALSE]
    BY <1>8 DEF StepFails
  <2>2. act.mode = "do" /\ StepsIn(act.todo) \subseteq Plan(act.op, "do") /\ s \in Plan(act.op, "do") /\ ~Ahead("retained")
    BY <1>2, <1>8 DEF Soft, Warm
  <2>3. PICK S1 :
             /\ Listed(Handler(act.op, s), S1) /\ S1 \subseteq Plan(act.op, "undo")
             /\ act.op = "create" => {"rmWeb", "rmRanchor", "rmAnchor", "rmNet"} \cup Android("rmCtl") \subseteq S1
    BY <1>2, <2>2, Handled DEF BoxInv, BoxTyped
  <2>4. /\ act' \in BoxActs /\ act'.op = act.op /\ act'.mode = "undo" /\ StepsIn(act'.todo) = S1 /\ InOrder(act'.todo)
    BY <1>5, <2>1, <2>3 DEF BoxActs, Listed
  <2>5. BoxTyped'
    BY <1>1, <1>4, <2>4 DEF BoxInv, BoxTyped, Gentle
  <2>6. "ctl" \notin S1 /\ "anchorRun" \notin S1 /\ act.op # "none"
    BY <1>2, <2>3 DEF Plan, BoxOps
  <2>7. Planned'
    BY <1>1, <2>3, <2>4, <2>6 DEF BoxInv, Planned, Ahead
  <2>8. Kept'
    <3>1. relay' = "other" => box'["anchor"].own # "ours"
      BY <1>4 DEF Gentle
    <3>2. state' = "none" => box'["svc"].own # "ours"
      <4> SUFFICES ASSUME state = "none" PROVE box'["svc"].own # "ours"
        BY <1>1
      <4>1. act.op = "create" /\ ~Ours("svc")
        BY <2>6 DEF BoxInv, Planned, Kept
      <4>2. "svc" \notin Makes(s) /\ "svc" \in Roles
        BY <2>2, <4>1 DEF Plan, Makes, Roles, Joiners
      <4> QED
        BY <1>4, <4>1, <4>2 DEF Gentle, Ours
    <3>3. ~android' => nets'.control # "ours"
      <4> SUFFICES ASSUME ~android PROVE nets'["control"] # "ours"
        BY <1>1
      <4>1. s # "ctl" /\ nets["control"] # "ours"
        BY <1>2 DEF BoxInv, Planned, Kept, Ahead
      <4>2. "control" \notin Opens(s)
        BY <4>1 DEF Opens
      <4> QED
        BY <1>4, <4>1, <4>2 DEF Gentle
    <3>4. \A r \in Joiners : box'[r].own = "ours" => box'[r].link # "none"
      BY <1>4 DEF Gentle
    <3> QED
      BY <2>4, <2>6, <3>1, <3>2, <3>3, <3>4 DEF Kept, Ours, Ahead
  <2>9. Stopping' /\ StoppedAll' /\ Deleting' /\ WebJoined' /\ SvcJoined' /\ AtRest'
    BY <2>4, <2>6 DEF Stopping, StoppedAll, Deleting, WebJoined, SvcJoined, AtRest
  <2>10. Undoing'
    BY <1>1, <2>3, <2>4 DEF Undoing, Ahead, Android
  <2>11. AwakeJoined'
    <3> SUFFICES ASSUME state = "awake", act.op \notin {"stop", "delete"}, ~moved PROVE Proof' /\ (Joins("svc"))'
      BY <1>1, <2>4 DEF AwakeJoined
    <3>1. act.op \in AwakeOps \ {"port"}
      BY <1>2, <2>6 DEF BoxInv, Planned, AwakeOps, BoxOps
    <3>2. s \notin Shifts
      BY <2>2, <3>1, NoShifts
    <3>3. Proof /\ Joins("svc") /\ "svc" \in Joiners
      BY DEF BoxInv, AwakeJoined, Joiners
    <3> QED
      BY <1>4, <3>2, <3>3 DEF Steady
  <2> QED
    BY <2>5, <2>7, <2>8, <2>9, <2>10, <2>11 DEF BoxInv
<1> QED
  BY <1>6, <1>7, <1>8

LEMMA BoxOver ==
    ASSUME BoxInv, Ends
    PROVE  BoxInv'
<1> DEFINE result == IF act.mode = "do" THEN "ok" ELSE IF act.gaps THEN "unclean" ELSE "failed"
<1>1. /\ act # NoAct /\ act.todo = <<>> /\ act' = NoAct
      /\ last' = [op |-> act.op, result |-> result] /\ state' = StateAfter(act.op, result)
      /\ android' = android /\ want' = want /\ box' = box /\ nets' = nets /\ relay' = relay /\ moved' = moved
      /\ ops' = ops /\ faults' = faults
  BY DEF Ends
<1>2. act.op \in BoxOps /\ act.mode \in {"do", "undo"} /\ act.op # "none"
  <2>1. act.op # "none" /\ act \in BoxActs
    BY <1>1 DEF BoxInv, BoxTyped, Planned
  <2> QED
    BY <2>1 DEF BoxInv, Planned, BoxActs
<1>3. \A t \in BoxSteps : ~Ahead(t)
  BY <1>1, ListedSteps DEF Ahead
<1>4. /\ act' \in BoxActs /\ act'.op = "none" /\ act'.mode = "idle" /\ act'.todo = <<>> /\ act'.gaps = FALSE
      /\ \A t \in BoxSteps : ~(Ahead(t))'
  <2>1. <<>> \in Seq(BoxSteps)
    OBVIOUS
  <2>2. act' \in BoxActs /\ act'.op = "none" /\ act'.mode = "idle" /\ act'.todo = <<>> /\ act'.gaps = FALSE
    BY <1>1, <2>1 DEF NoAct, BoxActs
  <2> QED
    BY <2>2, ListedSteps DEF Ahead
<1>5. /\ result \in {"ok", "failed", "unclean"} /\ (result = "ok" <=> act.mode = "do")
      /\ (result = "failed" => ~act.gaps)
  BY <1>2
<1> HIDE DEF result
<1>6. /\ act.op \in {"create", "wake"} => state' = IF result = "ok" THEN "awake" ELSE "broken"
      /\ act.op = "stop" => state' \in {"asleep", "broken"}
      /\ act.op = "delete" => state' \in {"deleted", "broken"}
      /\ act.op \notin {"create", "wake", "stop", "delete"} => state' = state
  BY <1>1 DEF StateAfter
<1>7. state' \in {"none", "asleep", "awake", "broken", "deleted"} /\ state' # "none"
  <2>1. state = "none" => act.op = "create"
    BY <1>2 DEF BoxInv, Planned
  <2> QED
    BY <1>6, <2>1 DEF BoxInv, BoxTyped
<1>8. BoxTyped'
  <2>1. last' \in BoxEnds
    BY <1>1, <1>2, <1>5 DEF BoxEnds
  <2> QED
    BY <1>1, <1>4, <1>7, <2>1 DEF BoxInv, BoxTyped
<1>9. Planned'
  <2>1. act'.todo = <<>> /\ InOrder(<<>>) /\ StepsIn(<<>>) = {}
    BY <1>4, ListedSteps
  <2>2. InOrder(act'.todo) /\ StepsIn(act'.todo) = {}
    BY ONLY <2>1
  <2> QED
    BY <1>1, <1>4, <1>7, <2>2 DEF Planned, AwakeOps, Ahead
<1>10. Kept'
  <2>1. ~(Ahead("anchorRun"))'
    BY <1>4 DEF BoxSteps
  <2> QED
    BY <1>1, <1>7, <2>1 DEF BoxInv, Kept, Ours
<1>11. Stopping' /\ StoppedAll' /\ Deleting' /\ Undoing' /\ WebJoined' /\ SvcJoined'
  BY <1>4 DEF Stopping, StoppedAll, Deleting, Undoing, WebJoined, SvcJoined, WebOps
<1>12. act.op \in WebOps /\ act.mode = "do" => Joins("web") /\ (moved \/ Proof)
  BY <1>3 DEF BoxInv, WebJoined, BoxSteps
<1>13. AwakeJoined'
  <2> SUFFICES ASSUME state' = "awake", ~moved PROVE Proof /\ Joins("svc")
    BY <1>1 DEF AwakeJoined, Proof, Ours, Authority, Joins, Running, Attached
  <2>1. CASE act.op = "create"
    <3>1. act.mode = "do" /\ state = "none"
      BY <1>5, <1>6, <2>1 DEF BoxInv, Planned
    <3>2. ~Ours("svc")
      BY <3>1 DEF BoxInv, Kept
    <3> QED
      BY <1>12, <2>1, <3>1, <3>2 DEF WebOps, Joins, Running
  <2>2. CASE act.op = "wake"
    <3>1. act.mode = "do"
      BY <1>5, <1>6, <2>2
    <3>2. Ours("svc") => Joins("svc")
      BY <1>3, <2>2, <3>1 DEF BoxInv, SvcJoined, BoxSteps
    <3> QED
      BY <1>12, <2>2, <3>1, <3>2 DEF WebOps, Joins, Running
  <2>3. CASE act.op \notin {"create", "wake"}
    <3>1. state = "awake" /\ act.op \notin {"stop", "delete"}
      BY <1>6, <2>3
    <3> QED
      BY <3>1 DEF BoxInv, AwakeJoined
  <2> QED
    BY <2>1, <2>2, <2>3
<1>14. AtRest'
  <2>1. ASSUME last' \in {[op |-> "create", result |-> "failed"], [op |-> "delete", result |-> "ok"]}
        PROVE  (\A r \in Roles : box[r].own # "ours") /\ nets.room # "ours" /\ nets.control # "ours"
    <3>1. \/ act.op = "create" /\ result = "failed"
          \/ act.op = "delete" /\ result = "ok"
      BY <1>1, <2>1
    <3>2. CASE act.op = "create" /\ result = "failed"
      <4>1. act.mode = "undo" /\ ~act.gaps
        BY <1>2, <1>5, <3>2
      <4>2. /\ box["web"].own # "ours" /\ box["ranchor"].own # "ours" /\ box["anchor"].own # "ours"
            /\ nets.room # "ours" /\ (android => nets.control # "ours")
        BY <1>3, <3>2, <4>1 DEF BoxInv, Undoing, BoxSteps, Ours
      <4>3. box["svc"].own # "ours" /\ (~android => nets.control # "ours")
        BY <3>2 DEF BoxInv, Planned, Kept, Ours
      <4> QED
        BY <4>2, <4>3 DEF Roles, Anchors, Joiners
    <3>3. CASE act.op = "delete" /\ result = "ok"
      BY <1>3, <1>5, <3>3 DEF BoxInv, Deleting, BoxSteps, Ours
    <3> QED
      BY <3>1, <3>2, <3>3
  <2>2. ASSUME last' = [op |-> "stop", result |-> "ok"] PROVE \A r \in Roles : ~Running(r)
    <3>1. act.op = "stop" /\ act.mode = "do"
      BY <1>1, <1>5, <2>2
    <3> QED
      BY <1>3, <3>1 DEF BoxInv, StoppedAll, BoxSteps
  <2>3. ASSUME last'.result = "ok", last'.op \in WebOps PROVE Joins("web")
    BY <1>1, <1>5, <1>12, <2>3
  <2> QED
    BY <1>1, <2>1, <2>2, <2>3 DEF AtRest, Ours, Running, Joins, Attached
<1> QED
  BY <1>8, <1>9, <1>10, <1>11, <1>13, <1>14 DEF BoxInv

\* What happens around an operation leaves its list alone.
LEMMA Around ==
    ASSUME BoxInv, Gentle({}, {}, {}), \A r \in Joiners : Joins(r) => (Joins(r))',
           android' = android, want' \in 0 .. 1, relay' = relay, state' = state, act' = act, last' = last,
           moved' \in BOOLEAN, ~moved' => ~moved /\ (Proof => Proof'), ops' = ops, faults' \in 0 .. MaxFaults
    PROVE  BoxInv'
<1>1. \A r \in Roles : (box'[r].own = "ours" => box[r].own = "ours") /\ ((Running(r))' => Running(r))
  BY DEF Gentle
<1>2. (nets'["room"] = "ours" => nets["room"] = "ours") /\ (nets'["control"] = "ours" => nets["control"] = "ours")
  BY DEF Gentle
<1>3. {"web", "svc", "anchor", "ranchor"} \subseteq Roles /\ {"web", "svc"} \subseteq Joiners
  BY DEF Roles, Anchors, Joiners
<1>4. BoxTyped'
  BY DEF BoxInv, BoxTyped, Gentle
<1>5. Planned'
  <2>1. moved => moved'
    OBVIOUS
  <2> QED
    BY <2>1 DEF BoxInv, Planned, Ahead
<1>6. Kept'
  <2>1. relay' = "other" => box'["anchor"].own # "ours"
    BY DEF Gentle
  <2>2. \A r \in Joiners : box'[r].own = "ours" => box'[r].link # "none"
    BY DEF Gentle
  <2>3. box'["svc"].own = "ours" => box["svc"].own = "ours"
    BY <1>1, <1>3
  <2> QED
    BY <1>2, <2>1, <2>2, <2>3 DEF BoxInv, Kept, Ahead, Ours
<1>7. Stopping' /\ StoppedAll'
  BY <1>1, <1>3 DEF BoxInv, Stopping, StoppedAll, Ahead
<1>8. Deleting' /\ Undoing'
  BY <1>1, <1>2, <1>3 DEF BoxInv, Deleting, Undoing, Ahead, Ours
<1>9. WebJoined'
  BY <1>3 DEF BoxInv, WebJoined, Ahead
<1>10. SvcJoined'
  <2>1. (Ours("svc"))' => Ours("svc")
    BY <1>1, <1>3 DEF Ours
  <2> QED
    BY <1>3, <2>1 DEF BoxInv, SvcJoined, Ahead
<1>11. AwakeJoined'
  BY <1>3 DEF BoxInv, AwakeJoined
<1>12. AtRest'
  BY <1>1, <1>2, <1>3 DEF BoxInv, AtRest, Ours
<1> QED
  BY <1>4, <1>5, <1>6, <1>7, <1>8, <1>9, <1>10, <1>11, <1>12 DEF BoxInv

LEMMA BoxDies ==
    ASSUME RoomContainersAssumption, BoxInv, NEW r \in Roles, Dies(r)
    PROVE  Gentle({}, {}, {}) /\ BoxInv'
<1>1. /\ faults < MaxFaults /\ faults' = faults + 1 /\ Running(r) /\ box' = Stopped(r)
      /\ moved' = (moved \/ r = Authority)
      /\ android' = android /\ want' = want /\ nets' = nets /\ relay' = relay /\ state' = state /\ act' = act
      /\ last' = last /\ ops' = ops
  BY DEF Dies, Fault
<1>2. box[r].own = "ours"
  BY <1>1 DEF Running, Ours
<1>3. Gentle({}, {}, {}) /\ (r # Authority => Steady)
  BY <1>1, <1>2, StoppedIsGentle, DataIs
<1>4. ASSUME NEW q \in Joiners, Joins(q) PROVE (Joins(q))'
  <2>1. q \in Roles /\ box[r] \in BoxRecords
    BY DEF Roles, BoxInv, BoxTyped
  <2>2. box' = [box EXCEPT ![r].up = "exited"]
    BY <1>1 DEF Stopped
  <2>3. CASE q = r
    <3>1. box'[q].up = "exited"
      BY <2>1, <2>2, <2>3 DEF BoxRecords, BoxInv, BoxTyped
    <3> QED
      BY <3>1 DEF Joins, Running
  <2>4. CASE q # r
    <3>1. box'[q] = box[q]
      BY <2>1, <2>2, <2>4 DEF BoxInv, BoxTyped
    <3> QED
      BY <1>4, <3>1 DEF Joins, Running, Ours, Attached
  <2> QED
    BY <2>3, <2>4
<1>5. faults' \in 0 .. MaxFaults
  BY <1>1 DEF RoomContainersAssumption, BoxInv, BoxTyped
<1>6. want' \in 0 .. 1 /\ moved' \in BOOLEAN
  BY <1>1 DEF BoxInv, BoxTyped
<1>7. ~moved' => ~moved /\ (Proof => Proof')
  BY <1>1, <1>3 DEF Steady
<1> QED
  BY <1>1, <1>3, <1>4, <1>5, <1>6, <1>7, Around

LEMMA BoxTaken ==
    ASSUME RoomContainersAssumption, BoxInv, NEW r \in Roles, Taken(r)
    PROVE  Gentle({}, {}, {}) /\ BoxInv'
<1>1. /\ faults < MaxFaults /\ faults' = faults + 1 /\ box[r].own = "none"
      /\ box' = [box EXCEPT ![r] = [Absent EXCEPT !.own = "foreign", !.up = "running"]]
      /\ android' = android /\ want' = want /\ nets' = nets /\ relay' = relay /\ state' = state /\ act' = act
      /\ last' = last /\ moved' = moved /\ ops' = ops
  BY DEF Taken, Fault
<1>2. /\ box' \in [Roles -> BoxRecords] /\ box'[r].own = "foreign" /\ \A q \in Roles \ {r} : box'[q] = box[q]
  <2> DEFINE b == [Absent EXCEPT !.own = "foreign", !.up = "running"]
  <2>1. Absent \in BoxRecords
    BY DEF Absent, BoxRecords
  <2>2. b \in BoxRecords /\ b.own = "foreign"
    BY <2>1 DEF BoxRecords
  <2>3. box' = [box EXCEPT ![r] = b]
    BY <1>1
  <2> HIDE DEF b
  <2> QED
    BY <2>2, <2>3 DEF BoxInv, BoxTyped
<1>3. Joiners \subseteq Roles /\ "anchor" \in Roles /\ Authority \in Roles
  BY DEF Roles, Anchors, Authority
<1>4. Gentle({}, {}, {})
  BY <1>1, <1>2, <1>3, DataIs DEF Gentle, BoxData, Running, Ours
<1>5. Proof => Proof'
  BY <1>1, <1>2, <1>3 DEF Proof, Ours, Authority
<1>6. \A q \in Joiners : Joins(q) => (Joins(q))'
  BY <1>1, <1>2, <1>3 DEF Joins, Running, Ours, Attached
<1>7. faults' \in 0 .. MaxFaults /\ want' \in 0 .. 1 /\ moved' \in BOOLEAN
  BY <1>1 DEF RoomContainersAssumption, BoxInv, BoxTyped
<1> QED
  BY <1>1, <1>4, <1>5, <1>6, <1>7, Around

LEMMA BoxNetTaken ==
    ASSUME RoomContainersAssumption, BoxInv, NEW n \in {"room", "control"}, NetTaken(n)
    PROVE  Gentle({}, {}, {}) /\ BoxInv'
<1>1. /\ faults < MaxFaults /\ faults' = faults + 1 /\ nets[n] = "none" /\ nets' = [nets EXCEPT ![n] = "foreign"]
      /\ android' = android /\ want' = want /\ box' = box /\ relay' = relay /\ state' = state /\ act' = act
      /\ last' = last /\ moved' = moved /\ ops' = ops
  BY DEF NetTaken, Fault
<1>2. /\ nets' \in BoxNets
      /\ \A m \in {"room", "control"} :
          /\ nets[m] = "foreign" => nets'[m] = "foreign"
          /\ nets'[m] = "ours" => nets[m] = "ours"
  BY <1>1 DEF BoxInv, BoxTyped, BoxNets
<1>3. Gentle({}, {}, {})
  BY <1>1, <1>2, DataIs DEF Gentle, BoxData, Running, Ours
<1>4. (Proof => Proof') /\ \A q \in Joiners : Joins(q) => (Joins(q))'
  BY <1>1 DEF Joins, Running, Ours, Attached, Proof, Authority
<1>5. faults' \in 0 .. MaxFaults /\ want' \in 0 .. 1 /\ moved' \in BOOLEAN
  BY <1>1 DEF RoomContainersAssumption, BoxInv, BoxTyped
<1> QED
  BY <1>1, <1>3, <1>4, <1>5, Around

LEMMA BoxStays ==
    ASSUME BoxInv, android' = android, want' \in 0 .. 1, box' = box, nets' = nets, relay' = relay, state' = state,
           act' = act, last' = last, moved' = moved, ops' = ops, faults' = faults
    PROVE  BoxInv'
<1>1. Gentle({}, {}, {})
  BY SameIsGentle, DataIs DEF Same
<1>2. (Proof => Proof') /\ \A q \in Joiners : Joins(q) => (Joins(q))'
  BY DEF Joins, Running, Ours, Attached, Proof, Authority
<1>3. moved' \in BOOLEAN /\ faults' \in 0 .. MaxFaults
  BY DEF BoxInv, BoxTyped
<1> QED
  BY <1>1, <1>2, <1>3, Around

LEMMA BoxRestarts ==
    ASSUME RoomContainersAssumption, BoxInv, AppRestarts
    PROVE  BoxInv'
<1>1. /\ faults < MaxFaults /\ faults' = faults + 1 /\ relay' = "none" /\ last' = NoEnd
      /\ android' = android /\ want' = want /\ box' = box /\ nets' = nets /\ moved' = moved /\ ops' = ops
  BY DEF AppRestarts, Fault
<1>2. last' \in BoxEnds /\ faults' \in 0 .. MaxFaults /\ last'.op = "none" /\ last'.result = "none"
  BY <1>1 DEF RoomContainersAssumption, BoxInv, BoxTyped, BoxEnds, NoEnd
<1>3. AtRest'
  BY <1>2 DEF AtRest
<1>4. CASE state \in {"none", "deleted"} /\ act = NoAct
  <2>1. act' = act /\ state' = state /\ act.op = "none" /\ act.mode = "idle"
    BY <1>4 DEF AppRestarts, NoAct
  <2>2. BoxTyped'
    BY <1>1, <1>2, <2>1 DEF BoxInv, BoxTyped
  <2>3. Planned'
    BY <1>1, <2>1 DEF BoxInv, Planned, Ahead
  <2>4. Kept'
    BY <1>1, <2>1 DEF BoxInv, Kept, Ahead, Ours
  <2>5. Stopping' /\ StoppedAll' /\ Deleting' /\ Undoing' /\ WebJoined' /\ SvcJoined'
    BY <2>1 DEF Stopping, StoppedAll, Deleting, Undoing, WebJoined, SvcJoined, WebOps
  <2>6. AwakeJoined'
    BY <1>4, <2>1 DEF AwakeJoined
  <2> QED
    BY <1>3, <2>2, <2>3, <2>4, <2>5, <2>6 DEF BoxInv
<1>5. CASE ~(state \in {"none", "deleted"} /\ act = NoAct)
  <2>1. act' = [op |-> "stop", mode |-> "do", todo |-> StopSteps, gaps |-> FALSE] /\ state' = "broken"
    BY <1>5 DEF AppRestarts
  <2>2. /\ act' \in BoxActs /\ act'.op = "stop" /\ act'.mode = "do" /\ StepsIn(act'.todo) = Stops /\ InOrder(act'.todo)
    BY <2>1, StopList DEF BoxActs, Listed, BoxOps
  <2>3. BoxTyped'
    BY <1>1, <1>2, <2>1, <2>2 DEF BoxInv, BoxTyped
  <2>4. Planned'
    BY <2>1, <2>2 DEF Planned, Ahead, Plan, Stops, AwakeOps
  <2>5. Kept'
    BY <1>1, <2>1, <2>2 DEF BoxInv, Kept, Ahead, Ours, Stops
  <2>6. Stopping' /\ StoppedAll' /\ Deleting' /\ Undoing' /\ WebJoined' /\ SvcJoined'
    BY <2>2 DEF Stopping, StoppedAll, Deleting, Undoing, WebJoined, SvcJoined, WebOps, Ahead, Stops
  <2>7. AwakeJoined'
    BY <2>1 DEF AwakeJoined
  <2> QED
    BY <1>3, <2>3, <2>4, <2>5, <2>6, <2>7 DEF BoxInv
<1> QED
  BY <1>4, <1>5

LEMMA BoxStarts ==
    ASSUME RoomContainersAssumption, Init
    PROVE  BoxInv
<1>1. /\ android \in BOOLEAN /\ want = 0 /\ box = [r \in Roles |-> Absent]
      /\ nets = [room |-> "none", control |-> "none"] /\ relay = "none" /\ state = "none"
      /\ act = NoAct /\ last = NoEnd /\ moved = FALSE /\ ops = 0 /\ faults = 0
  BY DEF Init
<1>2. /\ act.op = "none" /\ act.mode = "idle" /\ act.todo = <<>> /\ last.op = "none" /\ last.result = "none"
      /\ act \in BoxActs /\ last \in BoxEnds
  <2>1. <<>> \in Seq(BoxSteps)
    OBVIOUS
  <2> QED
    BY <1>1, <2>1 DEF NoAct, NoEnd, BoxActs, BoxEnds
<1>3. Absent \in BoxRecords /\ Absent.own = "none"
  BY DEF Absent, BoxRecords
<1>4. nets \in BoxNets /\ 0 \in 0 .. 1 /\ 0 \in 0 .. MaxOps /\ 0 \in 0 .. MaxFaults
  BY <1>1 DEF BoxNets, RoomContainersAssumption
<1>5. BoxTyped
  BY <1>1, <1>2, <1>3, <1>4 DEF BoxTyped
<1>6. Planned
  <2>1. InOrder(act.todo) /\ StepsIn(act.todo) = {}
    BY <1>2, ListedSteps
  <2> QED
    BY <1>1, <1>2, <2>1 DEF Planned, Ahead, AwakeOps
<1>7. Kept
  <2>1. \A r \in Roles : ~Ours(r)
    BY <1>1, <1>3 DEF Ours
  <2>2. {"anchor", "svc"} \cup Joiners \subseteq Roles
    BY DEF Roles, Anchors, Joiners
  <2> QED
    BY <1>1, <2>1, <2>2 DEF Kept
<1>8. Stopping /\ StoppedAll /\ Deleting /\ Undoing /\ WebJoined /\ SvcJoined /\ AwakeJoined /\ AtRest
  BY <1>1, <1>2 DEF Stopping, StoppedAll, Deleting, Undoing, WebJoined, SvcJoined, AwakeJoined, AtRest, WebOps
<1> QED
  BY <1>5, <1>6, <1>7, <1>8 DEF BoxInv

LEMMA BoxStep ==
    ASSUME RoomContainersAssumption, BoxInv, Next \/ UNCHANGED vars
    PROVE  BoxInv'
<1>1. CASE \E o \in Ops : Begin(o)
  BY <1>1, BoxBegins
<1>2. CASE \E r \in Roles : Dies(r) \/ Taken(r)
  BY <1>2, BoxDies, BoxTaken
<1>3. CASE \E n \in {"room", "control"} : NetTaken(n)
  BY <1>3, BoxNetTaken
<1>4. CASE Reconfigure
  <2>1. want' = 1 /\ android' = android /\ box' = box /\ nets' = nets /\ relay' = relay /\ state' = state /\ act' = act
        /\ last' = last /\ moved' = moved /\ ops' = ops /\ faults' = faults
    BY <1>4 DEF Reconfigure
  <2> QED
    BY <2>1, BoxStays
<1>5. CASE UNCHANGED vars
  <2>1. want' \in 0 .. 1
    BY <1>5 DEF vars, BoxInv, BoxTyped
  <2> QED
    BY <1>5, <2>1, BoxStays DEF vars
<1> QED
  BY <1>1, <1>2, <1>3, <1>4, <1>5, BoxStepDone, BoxStepFails, BoxOver, BoxRestarts DEF Next

\* An authority goes down only with a call of the list that shifts it.
LEMMA LeavesAreFirst ==
    ASSUME BoxInv, act.todo # <<>>, Moderate(Head(act.todo)), android' = android
    PROVE  LeavesFirst
<1> DEFINE s == Head(act.todo)
<1> SUFFICES ASSUME Running(Authority), box'[Authority].up = "exited", act.op \in {"stop", "delete"},
                    faults' = faults, ~act.gaps
             PROVE  \A r \in Joiners : ~Running(r)
  BY DEF LeavesFirst
<1>1. Proof
  <2>1. Authority \in Roles
    BY DEF Authority, Roles, Anchors
  <2> QED
    BY <2>1 DEF Running, Proof, BoxInv, BoxTyped, BoxRecords
<1>2. s \in Shifts
  BY <1>1 DEF Moderate, Steady, Proof, Authority
<1>3. /\ StepsIn(act.todo) = {s} \cup StepsIn(Tail(act.todo)) /\ \A t \in StepsIn(Tail(act.todo)) : MayFollow(s, t)
      /\ act.mode \in {"do", "undo"} /\ s \in Plan(act.op, act.mode)
  BY NextCall
<1>4. act.mode = "do"
  BY <1>3 DEF Plan
<1>5. ~Ahead("stopWeb") /\ ~Ahead("stopSvc")
  BY <1>2, <1>3 DEF Ahead, MayFollow, Shifts
<1> QED
  BY <1>4, <1>5 DEF BoxInv, Stopping, Joiners

LEMMA BoxKeeps ==
    ASSUME RoomContainersAssumption, BoxInv
    PROVE  /\ TypeOK /\ NothingLeftOver /\ RelayOpensAnchor /\ SharedNamespace
           /\ Next => ForeignUntouched /\ LeavesFirst
<1>1. TypeOK
  <2>1. BoxRecords \subseteq [own : {"none", "ours", "foreign"}, up : {"created", "running", "paused", "exited"},
                              link : {"none", "live", "restarted", "gone"}, proved : BOOLEAN, config : 0 .. 1]
    BY DEF BoxRecords
  <2> QED
    BY <2>1 DEF BoxInv, BoxTyped, TypeOK, BoxActs, BoxEnds, BoxNets
<1>2. act = NoAct => act.op = "none" /\ act.mode = "idle"
  BY DEF NoAct
<1>3. NothingLeftOver
  BY <1>2 DEF BoxInv, AtRest, NothingLeftOver, Over
<1>4. RelayOpensAnchor
  BY DEF BoxInv, Kept, RelayOpensAnchor
<1>5. SharedNamespace
  BY <1>2 DEF BoxInv, AtRest, AwakeJoined, Joins, SharedNamespace, WebOps
<1>6. ASSUME Next PROVE ForeignUntouched /\ LeavesFirst
  <2>1. ASSUME NEW M, NEW R, NEW O, Gentle(M, R, O) PROVE ForeignUntouched
    BY <2>1 DEF Gentle, ForeignUntouched
  <2>2. ASSUME box' = box PROVE LeavesFirst
    <3>1. Authority \in Roles
      BY DEF Authority, Roles, Anchors
    <3> QED
      BY <2>2, <3>1 DEF LeavesFirst, Running, Authority
  <2>3. ASSUME box' = box, nets' = nets PROVE ForeignUntouched
    BY <2>3 DEF ForeignUntouched
  <2>4. ASSUME faults' = faults + 1 PROVE LeavesFirst
    BY <2>4 DEF LeavesFirst, BoxInv, BoxTyped
  <2>5. CASE StepDone \/ StepFails
    <3>1. act.todo # <<>> /\ Moderate(Head(act.todo)) /\ android' = android
      <4>1. CASE StepDone
        <5>1. act.todo # <<>> /\ Call(Head(act.todo)) /\ android' = android
          BY <4>1 DEF StepDone
        <5>2. Head(act.todo) # "retained"
          <6>1. Drift
            BY DEF Drift, JoinsByName
          <6>2. Call("retained") => FALSE
            BY <6>1 DEF Call
          <6> QED
            BY <5>1, <6>2
        <5> QED
          BY <5>1, <5>2, NextCall, Calls, DataIs
      <4>2. CASE StepFails
        <5>1. act.todo # <<>> /\ Residue(Head(act.todo)) /\ android' = android
          BY <4>2 DEF StepFails
        <5> QED
          BY <5>1, NextCall, Residues, DataIs
      <4> QED
        BY <2>5, <4>1, <4>2
    <3> QED
      BY <2>1, <3>1, LeavesAreFirst DEF Moderate
  <2>6. CASE (\E o \in Ops : Begin(o)) \/ Ends \/ Reconfigure
    <3>1. box' = box /\ nets' = nets
      BY <2>6 DEF Begin, Ends, Reconfigure
    <3> QED
      BY <2>2, <2>3, <3>1
  <2>7. CASE \E r \in Roles : Dies(r) \/ Taken(r)
    <3>1. Gentle({}, {}, {}) /\ faults' = faults + 1
      BY <2>7, BoxDies, BoxTaken DEF Dies, Taken, Fault
    <3> QED
      BY <2>1, <2>4, <3>1
  <2>8. CASE \E n \in {"room", "control"} : NetTaken(n)
    <3>1. Gentle({}, {}, {}) /\ faults' = faults + 1
      BY <2>8, BoxNetTaken DEF NetTaken, Fault
    <3> QED
      BY <2>1, <2>4, <3>1
  <2>9. CASE AppRestarts
    <3>1. box' = box /\ nets' = nets
      BY <2>9 DEF AppRestarts
    <3> QED
      BY <2>2, <2>3, <3>1
  <2> QED
    BY <1>6, <2>5, <2>6, <2>7, <2>8, <2>9 DEF Next
<1> QED
  BY <1>1, <1>3, <1>4, <1>5, <1>6

LEMMA BoxInvariant == ASSUME RoomContainersAssumption PROVE Spec => []BoxInv
<1>1. Init => BoxInv
  BY BoxStarts
<1>2. BoxInv /\ [Next]_vars => BoxInv'
  BY BoxStep
<1> QED
  BY <1>1, <1>2, PTL DEF Spec

\* The variables of RoomContainers keep their types.
THEOREM TypeCorrect == ASSUME RoomContainersAssumption PROVE Spec => []TypeOK
<1>1. BoxInv => TypeOK
  BY BoxKeeps
<1> QED
  BY <1>1, BoxInvariant, PTL

\* A creation that fails and cleans up and a deletion that succeeds leave neither
\* container nor network, and a stop that succeeds nothing that runs.
THEOREM NothingIsLeft == ASSUME RoomContainersAssumption PROVE Spec => []NothingLeftOver
<1>1. BoxInv => NothingLeftOver
  BY BoxKeeps
<1> QED
  BY <1>1, BoxInvariant, PTL

\* Between operations the relay credential that the process holds opens the anchor
\* that is there.
THEOREM RelayIsOpened == ASSUME RoomContainersAssumption PROVE Spec => []RelayOpensAnchor
<1>1. BoxInv => RelayOpensAnchor
  BY BoxKeeps
<1> QED
  BY <1>1, BoxInvariant, PTL

\* Whoever started the web left it in the namespace of the present authority, and so is
\* the service of an awake Room unless the authority moved.
THEOREM NamespaceIsShared == ASSUME RoomContainersAssumption PROVE Spec => []SharedNamespace
<1>1. BoxInv => SharedNamespace
  BY BoxKeeps
<1> QED
  BY <1>1, BoxInvariant, PTL

\* No step stops, removes or changes what is not the Room's, and a stop or a deletion takes
\* the authority down after its joiners.
THEOREM StrangersAreSpared ==
    ASSUME RoomContainersAssumption
    PROVE  Spec => [][ForeignUntouched /\ LeavesFirst]_vars
<1>1. BoxInv /\ Next => ForeignUntouched /\ LeavesFirst
  BY BoxKeeps
<1> QED
  BY <1>1, BoxInvariant, PTL DEF Spec
-----------------------------------------------------------------------------
(***************************************************************************)
(* The address pool and the status reads, which share the run of the       *)
(* containers.                                                             *)
(***************************************************************************)

CONSTANTS None, Tenants, PoolSize, MaxWakes, MaxTrouble, MaxMutations, MaxLooks, MaxDeaths, MaxHiccups

VARIABLES roomRow, network, attached, others, allocated, claimed, ask, answers, wakes, glitches, outside,
          handset, served, real, waiting, latest, look, told, since, mutations, looks, fallen, hiccups

N == INSTANCE RoomNetworks WITH row <- roomRow
U == INSTANCE RuntimeStatus WITH phone <- handset, room <- served, deaths <- fallen

(***************************************************************************)
(* Addresses.  Only the call of a Room makes its network, and a Room whose *)
(* row is gone has none and never comes back: what the allocator gave to a *)
(* Room is the address of its network or of none.  While a call is alone,  *)
(* every address that it saw in use is in use until it reclaims it.        *)
(***************************************************************************)

PoolSteps == {"idle", "look", "collect", "allocate", "reclaim", "create", "remove", "row"}

PoolAims == [of : Tenants, subnet : N!Subnets]

PoolAsks ==
    [pc : PoolSteps, used : SUBSET N!Subnets, stale : SUBSET Tenants, aim : {None} \cup PoolAims,
     freed : BOOLEAN, alone : BOOLEAN]

PoolTyped ==
    /\ N!TypeOK
    /\ ask \in [Tenants -> PoolAsks]
    /\ answers \in [Tenants -> {None, "refused", "made", "failed"}]
    /\ wakes \in Nat /\ glitches \in Nat /\ outside \in Nat

\* What the row of a Room and its call say of its network and its address.
Housed(r) ==
    /\ roomRow[r] = "never" => network[r] = None
    /\ roomRow[r] # "there" => ask[r].pc = "idle" /\ allocated[r] = None
    /\ ask[r].pc = "row" => allocated[r] = None
    /\ ask[r].pc \in {"collect", "allocate", "reclaim", "create"} => network[r] = None
    /\ ask[r].pc = "create" => allocated[r] # None
    /\ network[r] # None /\ allocated[r] # None => network[r] = allocated[r]

\* Only what is left of a Room that is gone is reclaimed.
AimsAtGone(r) ==
    ask[r].aim # None => /\ roomRow[ask[r].aim.of] = "gone"
                         /\ network[ask[r].aim.of] \in {None, ask[r].aim.subnet}

Claims == \A s \in claimed : \E r \in Tenants : allocated[r] = s /\ roomRow[r] = "there"

\* As long as the engine answers, an address is given to one Room, which holds it.
OneEach ==
    glitches = 0 =>
      /\ \A r \in Tenants : allocated[r] # None => allocated[r] \in claimed
      /\ \A r, q \in Tenants : r # q /\ allocated[r] # None => allocated[r] # allocated[q]
      /\ \A r \in Tenants : network[r] # None /\ roomRow[r] = "there" => allocated[r] = network[r]

\* What a call that is alone knows.
KnowsPool(r) ==
    /\ ask[r].alone /\ ask[r].pc # "idle" => \A q \in Tenants \ {r} : ask[q].pc = "idle"
    /\ ask[r].alone /\ ask[r].pc \in {"allocate", "reclaim"} /\ outside = 0 =>
         /\ ask[r].used \subseteq N!InUse
         /\ ask[r].pc = "reclaim" /\ ~ask[r].freed => allocated[r] = None /\ N!Free(r) = {}

PoolInv ==
    /\ PoolTyped /\ Claims /\ OneEach
    /\ \A r \in Tenants : Housed(r) /\ AimsAtGone(r) /\ KnowsPool(r)

LEMMA PoolNone ==
    ASSUME N!RoomNetworksAssumption
    PROVE  /\ N!Subnets \subseteq Nat /\ None \notin N!Subnets /\ None \notin PoolAims
           /\ N!NoAsk \in PoolAsks /\ N!NoAsk.pc = "idle" /\ N!NoAsk.aim = None
<1>1. N!Subnets \subseteq Nat /\ None \notin N!Subnets /\ None \notin PoolAims
  BY DEF N!RoomNetworksAssumption, N!Subnets, PoolAims
<1> QED
  BY <1>1 DEF N!NoAsk, PoolAsks, PoolSteps

\* The least of some numbers (the order of Nat is well founded)
LEMMA Below == \E R : IsWellFoundedOn(R, Nat) /\ \A x, y \in Nat : x < y => <<x, y>> \in R
<1>1. IsWellFoundedOn(OpToRel(<, Nat), Nat)
  BY NatLessThanWellFounded
<1>2. \A x, y \in Nat : x < y => <<x, y>> \in OpToRel(<, Nat)
  BY DEF OpToRel
<1> QED
  BY <1>1, <1>2, Zenon

LEMMA Least ==
    ASSUME NEW X \in SUBSET Nat, X # {}
    PROVE  \E x \in X : \A y \in X : x <= y
<1>1. PICK R : IsWellFoundedOn(R, Nat) /\ \A x, y \in Nat : x < y => <<x, y>> \in R
  BY Below
<1>2. IsWellFoundedOn(R, Nat) /\ X \subseteq Nat
  BY <1>1
<1>3. \E x \in X : \A y \in X : ~(<<y, x>> \in R)
  BY ONLY <1>2, X # {}, WFMin, Zenon
<1>4. PICK x \in X : \A y \in X : ~(<<y, x>> \in R)
  BY <1>3
<1>5. ASSUME NEW y \in X
      PROVE  x <= y
  <2>1. x \in Nat /\ y \in Nat
    OBVIOUS
  <2>2. ~(y < x)
    BY <1>1, <1>4, <2>1, Zenon
  <2> QED
    BY <2>1, <2>2
<1> QED
  BY <1>4, <1>5

LEMMA LeastSubnet ==
    ASSUME N!RoomNetworksAssumption, NEW X, X \subseteq N!Subnets, X # {}
    PROVE  N!Min(X) \in X
BY PoolNone, Least DEF N!Min

LEMMA PoolStarts ==
    ASSUME N!RoomNetworksAssumption, N!Init
    PROVE  PoolInv
<1>1. PoolTyped
  BY PoolNone DEF N!Init, PoolTyped, N!TypeOK
<1>2. \A r \in Tenants : Housed(r) /\ AimsAtGone(r) /\ KnowsPool(r)
  BY PoolNone DEF N!Init, Housed, AimsAtGone, KnowsPool
<1> QED
  BY <1>1, <1>2 DEF N!Init, PoolInv, Claims, OneEach

\* A call that asks is alone when no other is under way, and then no other was.
LEMMA PoolAsksFor ==
    ASSUME N!RoomNetworksAssumption, PoolInv, NEW r \in Tenants, NEW pc \in {"look", "remove"}, N!Asks(r, pc),
           \/ roomRow[r] # "gone" /\ roomRow' = [roomRow EXCEPT ![r] = "there"]
           \/ roomRow[r] = "there" /\ UNCHANGED roomRow
    PROVE  PoolInv'
<1> DEFINE Alone == \A x \in Tenants : ask[x].pc = "idle"
<1>1. /\ ask' \in [Tenants -> PoolAsks]
      /\ ask'[r] = [N!NoAsk EXCEPT !.pc = pc, !.alone = Alone]
      /\ \A q \in Tenants \ {r} : ask'[q] = [ask[q] EXCEPT !.alone = FALSE]
  BY PoolNone DEF N!Asks, N!At, PoolInv, PoolTyped, PoolAsks, PoolSteps
<1>2. PoolTyped'
  <2>1. /\ UNCHANGED <<network, allocated, claimed, others, glitches, outside>> /\ wakes' = wakes + 1
        /\ answers' = [answers EXCEPT ![r] = None]
    BY DEF N!Asks, N!memory
  <2>2. roomRow' \in [Tenants -> {"never", "there", "gone"}]
    BY DEF PoolInv, PoolTyped, N!TypeOK
  <2>3. answers' \in [Tenants -> {None, "refused", "made", "failed"}] /\ wakes' \in Nat
    BY <2>1 DEF PoolInv, PoolTyped
  <2> HIDE DEF PoolAsks
  <2> QED
    BY <1>1, <2>1, <2>2, <2>3 DEF PoolInv, PoolTyped, N!TypeOK
<1>3. ask[r].pc = "idle" /\ UNCHANGED <<network, others, allocated, claimed, glitches, outside>>
  BY DEF N!Asks, N!At, N!memory
<1>4. roomRow'[r] = "there" /\ roomRow[r] # "gone" /\ \A q \in Tenants \ {r} : roomRow'[q] = roomRow[q]
  BY DEF PoolInv, PoolTyped, N!TypeOK
<1>5. Claims'
  BY <1>3, <1>4 DEF PoolInv, Claims
<1>6. OneEach'
  BY <1>3, <1>4 DEF PoolInv, OneEach, Housed, PoolTyped, N!TypeOK
<1>7. ASSUME NEW q \in Tenants PROVE Housed(q)' /\ AimsAtGone(q)' /\ KnowsPool(q)'
  <2>1. CASE q = r
    <3>1. ask'[q].pc = pc /\ ask'[q].aim = None /\ (ask'[q].alone <=> Alone)
      BY <1>1, <2>1, PoolNone DEF N!NoAsk
    <3>2. Housed(q)'
      BY <1>3, <1>4, <2>1, <3>1 DEF PoolInv, Housed
    <3>3. KnowsPool(q)'
      <4>1. \A x \in Tenants \ {r} : ask'[x].pc = ask[x].pc
        BY <1>1 DEF PoolInv, PoolTyped, PoolAsks
      <4> QED
        BY <2>1, <3>1, <4>1 DEF KnowsPool
    <3> QED
      BY <3>1, <3>2, <3>3 DEF AimsAtGone
  <2>2. CASE q # r
    <3>1. ask'[q] = [ask[q] EXCEPT !.alone = FALSE] /\ ask[q] \in PoolAsks
      BY <1>1, <2>2 DEF PoolInv, PoolTyped
    <3>2. ask'[q].pc = ask[q].pc /\ ask'[q].aim = ask[q].aim /\ ~ask'[q].alone
      BY <3>1 DEF PoolAsks
    <3>3. Housed(q)'
      BY <1>3, <1>4, <2>2, <3>2 DEF PoolInv, Housed
    <3>4. AimsAtGone(q)'
      BY <1>3, <1>4, <3>2 DEF PoolInv, AimsAtGone, PoolTyped, PoolAsks, PoolAims, N!TypeOK
    <3> QED
      BY <3>2, <3>3, <3>4 DEF KnowsPool
  <2> QED
    BY <2>1, <2>2
<1> QED
  BY <1>2, <1>5, <1>6, <1>7 DEF PoolInv

\* A call that moves on keeps what it knows.
LEMMA PoolGoes ==
    ASSUME PoolTyped, NEW r \in Tenants, NEW pc \in PoolSteps, N!Goes(r, pc)
    PROVE  /\ ask' \in [Tenants -> PoolAsks] /\ \A q \in Tenants \ {r} : ask'[q] = ask[q]
           /\ ask'[r].pc = pc /\ ask'[r].used = ask[r].used /\ ask'[r].stale = ask[r].stale
           /\ ask'[r].aim = ask[r].aim /\ ask'[r].freed = ask[r].freed /\ ask'[r].alone = ask[r].alone
<1>1. ask \in [Tenants -> PoolAsks] /\ ask' = [ask EXCEPT ![r].pc = pc]
  BY DEF PoolTyped, N!Goes
<1>2. ask[r] \in PoolAsks /\ ask'[r] = [ask[r] EXCEPT !.pc = pc] /\ \A q \in Tenants \ {r} : ask'[q] = ask[q]
  BY <1>1
<1>3. ask'[r] \in PoolAsks
  BY <1>2 DEF PoolAsks
<1> QED
  BY <1>1, <1>2, <1>3 DEF PoolAsks

LEMMA PoolEnds ==
    ASSUME N!RoomNetworksAssumption, PoolTyped, NEW r \in Tenants, ask' = [ask EXCEPT ![r] = N!NoAsk]
    PROVE  /\ ask' \in [Tenants -> PoolAsks] /\ \A q \in Tenants \ {r} : ask'[q] = ask[q]
           /\ ask'[r].pc = "idle" /\ ask'[r].aim = None
BY PoolNone DEF PoolTyped

\* While a call is under way no other is alone.
LEMMA PoolOthers ==
    ASSUME PoolInv, NEW r \in Tenants, NEW q \in Tenants \ {r}, ask[r].pc # "idle", ask'[q] = ask[q]
    PROVE  KnowsPool(q)'
BY DEF PoolInv, KnowsPool

\* A Room that keeps its row, its network and its address, or loses an address.
LEMMA PoolApart ==
    ASSUME PoolInv, NEW q \in Tenants, ask'[q] = ask[q], roomRow'[q] = roomRow[q], network'[q] = network[q],
           allocated'[q] = allocated[q]
    PROVE  Housed(q)'
BY DEF PoolInv, Housed

LEMMA PoolAimStays ==
    ASSUME PoolInv, NEW q \in Tenants, ask'[q].aim \in {None, ask[q].aim},
           \A x \in Tenants : /\ roomRow[x] = "gone" => roomRow'[x] = "gone"
                              /\ roomRow[x] = "gone" => network'[x] \in {None, network[x]}
    PROVE  AimsAtGone(q)'
<1>1. ask[q].aim \in {None} \cup PoolAims
  BY DEF PoolInv, PoolTyped, PoolAsks
<1>2. ask[q].aim # None => ask[q].aim.of \in Tenants
  BY <1>1 DEF PoolAims
<1> QED
  BY <1>2 DEF PoolInv, AimsAtGone

LEMMA PoolLook ==
    ASSUME N!RoomNetworksAssumption, PoolInv, NEW r \in Tenants, N!Look(r)
    PROVE  PoolInv'
<1>1. ask[r].pc = "look" /\ UNCHANGED <<roomRow, network, attached, others, answers, wakes, glitches, outside>>
  BY DEF N!Look, N!At
<1>2. roomRow[r] = "there"
  BY <1>1 DEF PoolInv, PoolTyped, N!TypeOK, Housed
<1>3. PICK pc \in {"idle", "collect"} : N!Goes(r, pc) /\ (pc = "collect" <=> network[r] = None)
  BY DEF N!Look
<1>4. /\ ask' \in [Tenants -> PoolAsks] /\ \A q \in Tenants \ {r} : ask'[q] = ask[q]
      /\ ask'[r].pc = pc /\ ask'[r].aim = ask[r].aim /\ ask'[r].alone = ask[r].alone
  BY <1>3, PoolGoes DEF PoolInv, PoolSteps
<1>5. /\ network[r] # None => N!Adopts(r)
      /\ network[r] = None => UNCHANGED <<allocated, claimed>>
  BY DEF N!Look, N!memory
<1>6. /\ \A q \in Tenants \ {r} : allocated'[q] = allocated[q]
      /\ allocated' \in [Tenants -> N!Subnets \cup {None}] /\ claimed' \subseteq N!Subnets
      /\ network[r] # None => allocated'[r] = network[r] /\ claimed' = claimed \cup {network[r]}
  BY <1>5 DEF N!Adopts, PoolInv, PoolTyped, N!TypeOK
<1>7. network[r] = None => UNCHANGED <<allocated, claimed>>
  BY <1>5
<1>8. PoolTyped'
  BY <1>1, <1>4, <1>6 DEF PoolInv, PoolTyped, N!TypeOK
<1>9. Claims'
  <2>1. network[r] # None /\ allocated[r] # None => allocated'[r] = allocated[r]
    BY <1>6 DEF PoolInv, Housed
  <2>2. None \notin claimed
    BY PoolNone DEF PoolInv, PoolTyped, N!TypeOK
  <2> QED
    BY <1>1, <1>2, <1>6, <1>7, <2>1, <2>2 DEF PoolInv, Claims
<1>10. OneEach'
  BY <1>1, <1>2, <1>6, <1>7 DEF PoolInv, OneEach
<1>11. Housed(r)'
  BY <1>1, <1>2, <1>3, <1>4, <1>6 DEF Housed
<1>12. ASSUME NEW q \in Tenants PROVE Housed(q)' /\ AimsAtGone(q)' /\ KnowsPool(q)'
  <2>1. AimsAtGone(q)'
    BY <1>1, <1>4, PoolAimStays
  <2>2. CASE q = r
    BY <1>1, <1>4, <1>11, <2>1, <2>2 DEF PoolInv, KnowsPool
  <2>3. CASE q # r
    BY <1>1, <1>4, <1>6, <2>1, <2>3, PoolApart, PoolOthers
  <2> QED
    BY <2>2, <2>3
<1> QED
  BY <1>8, <1>9, <1>10, <1>12 DEF PoolInv

LEMMA PoolCollect ==
    ASSUME N!RoomNetworksAssumption, PoolInv, NEW r \in Tenants, N!Collect(r)
    PROVE  PoolInv'
<1>1. ask[r].pc = "collect" /\ UNCHANGED <<roomRow, network, attached, others, allocated, claimed, answers, wakes, outside>>
  BY DEF N!Collect, N!At, N!memory
<1>2. PICK some \in SUBSET N!InUse : ask' = [ask EXCEPT ![r].pc = "allocate", ![r].used = some]
  BY DEF N!Collect
<1>3. glitches' = glitches \/ glitches' = glitches + 1
  BY DEF N!Collect, N!Glitch
<1>4. N!InUse \subseteq N!Subnets /\ N!InUse' = N!InUse
  BY <1>1 DEF N!InUse, PoolInv, PoolTyped, N!TypeOK
<1>5. /\ ask \in [Tenants -> PoolAsks] /\ ask[r] \in PoolAsks
      /\ ask'[r] = [ask[r] EXCEPT !.pc = "allocate", !.used = some] /\ \A q \in Tenants \ {r} : ask'[q] = ask[q]
  BY <1>2 DEF PoolInv, PoolTyped
<1>6. /\ ask' \in [Tenants -> PoolAsks] /\ ask'[r].pc = "allocate" /\ ask'[r].used = some
      /\ ask'[r].aim = ask[r].aim /\ ask'[r].alone = ask[r].alone
  BY <1>2, <1>4, <1>5 DEF PoolAsks, PoolSteps
<1>7. PoolTyped'
  BY <1>1, <1>3, <1>6 DEF PoolInv, PoolTyped, N!TypeOK
<1>8. Claims' /\ OneEach'
  BY <1>1, <1>3 DEF PoolInv, Claims, OneEach, PoolTyped
<1>9. Housed(r)' /\ KnowsPool(r)'
  BY <1>1, <1>4, <1>5, <1>6 DEF PoolInv, Housed, KnowsPool
<1>10. ASSUME NEW q \in Tenants PROVE Housed(q)' /\ AimsAtGone(q)' /\ KnowsPool(q)'
  <2>1. AimsAtGone(q)'
    BY <1>1, <1>5, <1>6, PoolAimStays
  <2>2. CASE q # r
    BY <1>1, <1>5, <2>1, <2>2, PoolApart, PoolOthers
  <2> QED
    BY <1>9, <2>1, <2>2
<1> QED
  BY <1>7, <1>8, <1>10 DEF PoolInv

LEMMA PoolAllocate ==
    ASSUME N!RoomNetworksAssumption, PoolInv, NEW r \in Tenants, N!Allocate(r)
    PROVE  PoolInv'
<1>1. ask[r].pc = "allocate" /\ UNCHANGED <<roomRow, network, attached, others, wakes, glitches, outside>>
  BY DEF N!Allocate, N!At
<1>2. roomRow[r] = "there" /\ network[r] = None /\ N!InUse' = N!InUse
  BY <1>1 DEF PoolInv, PoolTyped, N!TypeOK, Housed, N!InUse
<1>3. CASE allocated[r] # None \/ N!Free(r) # {}
  <2>1. N!Goes(r, "create")
    BY <1>3 DEF N!Allocate
  <2>2. /\ ask' \in [Tenants -> PoolAsks] /\ \A q \in Tenants \ {r} : ask'[q] = ask[q]
        /\ ask'[r].pc = "create" /\ ask'[r].aim = ask[r].aim /\ ask'[r].alone = ask[r].alone
    BY <2>1, PoolGoes DEF PoolInv, PoolSteps
  <2>3. \/ allocated[r] # None /\ UNCHANGED <<allocated, claimed>>
        \/ /\ allocated[r] = None /\ N!Free(r) # {}
           /\ allocated' = [allocated EXCEPT ![r] = N!Min(N!Free(r))] /\ claimed' = claimed \cup {N!Min(N!Free(r))}
    BY <1>3 DEF N!Allocate, N!memory
  <2>4. N!Free(r) # {} => N!Min(N!Free(r)) \in N!Subnets /\ N!Min(N!Free(r)) \notin claimed
    <3>1. N!Free(r) \subseteq N!Subnets \ claimed
      BY DEF N!Free
    <3> HIDE DEF N!Free, N!Subnets
    <3>2. N!Free(r) # {} => N!Min(N!Free(r)) \in N!Free(r)
      BY <3>1, LeastSubnet
    <3> QED
      BY <3>1, <3>2
  <2> DEFINE least == N!Min(N!Free(r))
  <2>5. /\ \A q \in Tenants \ {r} : allocated'[q] = allocated[q]
        /\ allocated' \in [Tenants -> N!Subnets \cup {None}] /\ claimed' \subseteq N!Subnets
        /\ allocated'[r] # None
        /\ \/ allocated'[r] = allocated[r] /\ claimed' = claimed
           \/ allocated[r] = None /\ allocated'[r] \notin claimed /\ claimed' = claimed \cup {allocated'[r]}
    <3>1. allocated \in [Tenants -> N!Subnets \cup {None}] /\ claimed \subseteq N!Subnets
      BY DEF PoolInv, PoolTyped, N!TypeOK
    <3>2. CASE allocated[r] # None /\ UNCHANGED <<allocated, claimed>>
      BY <3>1, <3>2
    <3>3. CASE /\ allocated[r] = None /\ N!Free(r) # {}
               /\ allocated' = [allocated EXCEPT ![r] = least] /\ claimed' = claimed \cup {least}
      <4>1. least \in N!Subnets /\ least \notin claimed /\ least # None
        BY <2>4, <3>3, PoolNone
      <4> HIDE DEF least
      <4> QED
        BY <3>1, <3>3, <4>1
    <3> QED
      BY <2>3, <3>2, <3>3
  <2>6. PoolTyped'
    <3>1. UNCHANGED answers
      BY <1>3 DEF N!Allocate
    <3> QED
      BY <1>1, <2>2, <2>5, <3>1 DEF PoolInv, PoolTyped, N!TypeOK
  <2>7. Claims' /\ OneEach'
    <3>1. None \notin claimed
      BY PoolNone DEF PoolInv, PoolTyped, N!TypeOK
    <3>2. Claims'
      BY <1>1, <1>2, <2>5, <3>1 DEF PoolInv, Claims
    <3>3. OneEach'
      BY <1>1, <1>2, <2>5, <3>1 DEF PoolInv, OneEach
    <3> QED
      BY <3>2, <3>3
  <2>8. Housed(r)' /\ KnowsPool(r)'
    BY <1>1, <1>2, <2>2, <2>5 DEF PoolInv, Housed, KnowsPool
  <2>9. ASSUME NEW q \in Tenants PROVE Housed(q)' /\ AimsAtGone(q)' /\ KnowsPool(q)'
    <3>1. AimsAtGone(q)'
      BY <1>1, <2>2, PoolAimStays
    <3>2. CASE q # r
      BY <1>1, <2>2, <2>5, <3>1, <3>2, PoolApart, PoolOthers
    <3> QED
      BY <2>8, <3>1, <3>2
  <2> QED
    BY <2>6, <2>7, <2>9 DEF PoolInv
<1>4. CASE allocated[r] = None /\ N!Free(r) = {} /\ ~ask[r].freed
  <2>1. /\ ask' = [ask EXCEPT ![r].pc = "reclaim", ![r].stale = {q \in Tenants : network[q] # None}]
        /\ UNCHANGED <<allocated, claimed, answers>>
    BY <1>4 DEF N!Allocate, N!memory
  <2>2. /\ ask \in [Tenants -> PoolAsks] /\ ask[r] \in PoolAsks /\ \A q \in Tenants \ {r} : ask'[q] = ask[q]
        /\ ask'[r] = [ask[r] EXCEPT !.pc = "reclaim", !.stale = {q \in Tenants : network[q] # None}]
    BY <2>1 DEF PoolInv, PoolTyped
  <2>3. /\ ask' \in [Tenants -> PoolAsks] /\ ask'[r].pc = "reclaim" /\ ask'[r].used = ask[r].used
        /\ ask'[r].aim = ask[r].aim /\ ask'[r].alone = ask[r].alone /\ ask'[r].freed = ask[r].freed
    BY <2>1, <2>2 DEF PoolAsks, PoolSteps
  <2>4. PoolTyped'
    BY <1>1, <2>1, <2>3 DEF PoolInv, PoolTyped, N!TypeOK
  <2>5. Claims' /\ OneEach'
    BY <1>1, <2>1 DEF PoolInv, Claims, OneEach
  <2>6. N!Free(r)' = {}
    BY <1>4, <2>1, <2>3 DEF N!Free
  <2>7. Housed(r)' /\ KnowsPool(r)'
    BY <1>1, <1>2, <1>4, <2>1, <2>2, <2>3, <2>6 DEF PoolInv, Housed, KnowsPool
  <2>8. ASSUME NEW q \in Tenants PROVE Housed(q)' /\ AimsAtGone(q)' /\ KnowsPool(q)'
    <3>1. AimsAtGone(q)'
      BY <1>1, <2>2, <2>3, PoolAimStays
    <3>2. CASE q # r
      BY <1>1, <2>1, <2>2, <3>1, <3>2, PoolApart, PoolOthers
    <3> QED
      BY <2>7, <3>1, <3>2
  <2> QED
    BY <2>4, <2>5, <2>8 DEF PoolInv
<1>5. CASE allocated[r] = None /\ N!Free(r) = {} /\ ask[r].freed
  <2>1. /\ ask' = [ask EXCEPT ![r] = N!NoAsk] /\ UNCHANGED <<allocated, claimed>>
        /\ answers' = [answers EXCEPT ![r] = "refused"]
    BY <1>5 DEF N!Allocate, N!memory
  <2>2. /\ ask' \in [Tenants -> PoolAsks] /\ \A q \in Tenants \ {r} : ask'[q] = ask[q]
        /\ ask'[r].pc = "idle" /\ ask'[r].aim = None
    BY <2>1, PoolEnds DEF PoolInv
  <2>3. PoolTyped' /\ Claims' /\ OneEach'
    BY <1>1, <2>1, <2>2 DEF PoolInv, PoolTyped, N!TypeOK, Claims, OneEach
  <2>4. Housed(r)' /\ KnowsPool(r)' /\ AimsAtGone(r)'
    BY <1>1, <1>2, <2>1, <2>2 DEF PoolInv, Housed, KnowsPool, AimsAtGone
  <2>5. ASSUME NEW q \in Tenants, q # r PROVE Housed(q)' /\ AimsAtGone(q)' /\ KnowsPool(q)'
    BY <1>1, <2>1, <2>2, <2>5, PoolApart, PoolOthers, PoolAimStays
  <2> QED
    BY <2>3, <2>4, <2>5 DEF PoolInv
<1> QED
  BY <1>3, <1>4, <1>5 DEF N!Allocate, PoolInv, PoolTyped, PoolAsks

LEMMA PoolInspect ==
    ASSUME N!RoomNetworksAssumption, PoolInv, NEW r \in Tenants, NEW x \in Tenants, N!Inspect(r, x)
    PROVE  PoolInv'
<1> DEFINE aim == IF ~N!Active(x) /\ network[x] # None /\ x \notin attached
                  THEN [of |-> x, subnet |-> network[x]] ELSE None
<1>1. /\ ask[r].pc = "reclaim"
      /\ UNCHANGED <<roomRow, network, attached, others, allocated, claimed, answers, wakes, glitches, outside>>
  BY DEF N!Inspect, N!At, N!memory
<1>2. /\ ask \in [Tenants -> PoolAsks] /\ ask[r] \in PoolAsks /\ \A q \in Tenants \ {r} : ask'[q] = ask[q]
      /\ ask' = [ask EXCEPT ![r].stale = @ \ {x}, ![r].aim = aim]
      /\ ask'[r] = [ask[r] EXCEPT !.stale = @ \ {x}, !.aim = aim]
  BY DEF N!Inspect, PoolInv, PoolTyped
<1>3. aim \in {None} \cup PoolAims
  BY DEF PoolAims, PoolInv, PoolTyped, N!TypeOK
<1>4. aim # None => roomRow[aim.of] = "gone" /\ network[aim.of] = aim.subnet
  BY DEF PoolInv, PoolTyped, N!TypeOK, Housed, N!Active
<1> HIDE DEF aim
<1>5. /\ ask' \in [Tenants -> PoolAsks] /\ ask'[r].pc = ask[r].pc /\ ask'[r].used = ask[r].used
      /\ ask'[r].aim = aim /\ ask'[r].alone = ask[r].alone /\ ask'[r].freed = ask[r].freed
  BY <1>2, <1>3 DEF PoolAsks
<1>6. PoolTyped' /\ Claims' /\ OneEach'
  BY <1>1, <1>5 DEF PoolInv, PoolTyped, N!TypeOK, Claims, OneEach
<1>7. N!Free(r)' = N!Free(r) /\ N!InUse' = N!InUse
  BY <1>1, <1>5 DEF N!Free, N!InUse
<1>8. Housed(r)' /\ AimsAtGone(r)' /\ KnowsPool(r)'
  BY <1>1, <1>2, <1>4, <1>5, <1>7 DEF PoolInv, Housed, AimsAtGone, KnowsPool
<1>9. ASSUME NEW q \in Tenants, q # r PROVE Housed(q)' /\ AimsAtGone(q)' /\ KnowsPool(q)'
  BY <1>1, <1>2, <1>9, PoolApart, PoolOthers, PoolAimStays
<1> QED
  BY <1>6, <1>8, <1>9 DEF PoolInv

LEMMA PoolReclaim ==
    ASSUME N!RoomNetworksAssumption, PoolInv, NEW r \in Tenants, N!Reclaim(r)
    PROVE  PoolInv'
<1> DEFINE x == ask[r].aim.of
           kept == ask[r].used \ {ask[r].aim.subnet}
<1>1. /\ ask[r].pc = "reclaim" /\ ask[r].aim # None
      /\ UNCHANGED <<roomRow, attached, others, answers, wakes, outside>>
  BY DEF N!Reclaim, N!At
<1>2. /\ ask \in [Tenants -> PoolAsks] /\ ask[r] \in PoolAsks /\ x \in Tenants
      /\ roomRow[x] = "gone" /\ network[x] \in {None, ask[r].aim.subnet} /\ allocated[x] = None
  BY <1>1 DEF PoolInv, PoolTyped, PoolAsks, PoolAims, AimsAtGone, Housed
<1>3. CASE /\ network' = [network EXCEPT ![x] = None]
           /\ IF network[x] # None THEN N!Releases(x) ELSE UNCHANGED <<allocated, claimed>>
           /\ ask' = [ask EXCEPT ![r].aim = None, ![r].freed = TRUE, ![r].used = @ \ {ask[r].aim.subnet}]
           /\ UNCHANGED glitches
  <2>1. UNCHANGED <<allocated, claimed>>
    <3>1. allocated \in [Tenants -> N!Subnets \cup {None}] /\ None \notin claimed
      BY PoolNone DEF PoolInv, PoolTyped, N!TypeOK
    <3>2. [allocated EXCEPT ![x] = None] = allocated /\ claimed \ {allocated[x]} = claimed
      BY <1>2, <3>1
    <3>3. N!Releases(x) => claimed' = claimed \ {allocated[x]} /\ allocated' = [allocated EXCEPT ![x] = None]
      BY DEF N!Releases
    <3> HIDE DEF x
    <3> QED
      BY <1>3, <3>2, <3>3
  <2>2. /\ network' \in [Tenants -> N!Subnets \cup {None}] /\ network'[x] = None
        /\ \A q \in Tenants \ {x} : network'[q] = network[q]
    BY <1>2, <1>3 DEF PoolInv, PoolTyped, N!TypeOK
  <2>3. /\ \A q \in Tenants \ {r} : ask'[q] = ask[q]
        /\ ask'[r] = [ask[r] EXCEPT !.aim = None, !.freed = TRUE, !.used = kept]
    BY <1>2, <1>3
  <2>4. kept \subseteq ask[r].used /\ kept \subseteq N!Subnets
    BY <1>2 DEF PoolAsks
  <2>5. /\ ask' \in [Tenants -> PoolAsks] /\ ask'[r].pc = ask[r].pc /\ ask'[r].used = kept
        /\ ask'[r].aim = None /\ ask'[r].alone = ask[r].alone /\ ask'[r].freed
    <3>1. ask' = [ask EXCEPT ![r] = ask'[r]] /\ ask'[r] = [ask[r] EXCEPT !.aim = None, !.freed = TRUE, !.used = kept]
      BY <1>2, <1>3, <2>3
    <3>2. kept \in SUBSET N!Subnets
      BY <2>4
    <3> HIDE DEF kept
    <3>3. ask'[r] \in PoolAsks
      BY <1>2, <3>1, <3>2 DEF PoolAsks
    <3>4. /\ ask'[r].pc = ask[r].pc /\ ask'[r].used = kept /\ ask'[r].aim = None /\ ask'[r].alone = ask[r].alone
          /\ ask'[r].freed
      BY <1>2, <3>1 DEF PoolAsks
    <3> QED
      BY <1>2, <3>1, <3>3, <3>4
  <2>6. PoolTyped' /\ Claims' /\ OneEach'
    BY <1>1, <1>3, <2>1, <2>2, <2>5 DEF PoolInv, PoolTyped, N!TypeOK, Claims, OneEach
  <2>7. ASSUME ask[r].used \subseteq N!InUse PROVE kept \subseteq N!InUse'
    <3> SUFFICES ASSUME NEW u \in kept PROVE u \in N!InUse'
      OBVIOUS
    <3>1. u \in N!InUse /\ u # ask[r].aim.subnet /\ u \in N!Subnets /\ u # None
      BY <2>4, <2>7, PoolNone
    <3>2. CASE u \in others
      BY <1>1, <3>2 DEF N!InUse
    <3>3. CASE u \notin others
      <4>1. PICK q \in Tenants : network[q] # None /\ network[q] = u
        BY <3>1, <3>3 DEF N!InUse
      <4>2. q # x
        BY <1>2, <3>1, <4>1
      <4> QED
        BY <2>2, <4>1, <4>2 DEF N!InUse
    <3> QED
      BY <3>2, <3>3
  <2>8. \A q \in Tenants : Housed(q)'
    <3> SUFFICES ASSUME NEW q \in Tenants PROVE Housed(q)'
      OBVIOUS
    <3>1. ask'[q].pc = ask[q].pc /\ roomRow'[q] = roomRow[q] /\ allocated'[q] = allocated[q]
      BY <1>1, <2>1, <2>3, <2>5
    <3>2. network'[q] = network[q] \/ network'[q] = None
      BY <2>2
    <3> QED
      BY <3>1, <3>2 DEF PoolInv, Housed
  <2>9. AimsAtGone(r)'
    BY <2>5 DEF AimsAtGone
  <2>10. KnowsPool(r)'
    BY <1>1, <2>3, <2>5, <2>7 DEF PoolInv, KnowsPool
  <2>11. ASSUME NEW q \in Tenants, q # r PROVE AimsAtGone(q)' /\ KnowsPool(q)'
    BY <1>1, <2>2, <2>3, <2>11, PoolOthers, PoolAimStays
  <2> QED
    BY <2>6, <2>8, <2>9, <2>10, <2>11 DEF PoolInv
<1>4. CASE N!Glitch /\ ask' = [ask EXCEPT ![r].aim = None] /\ UNCHANGED <<network, allocated, claimed>>
  <2>1. /\ \A q \in Tenants \ {r} : ask'[q] = ask[q] /\ ask'[r] = [ask[r] EXCEPT !.aim = None]
        /\ ask' \in [Tenants -> PoolAsks]
    BY <1>2, <1>4 DEF PoolAsks
  <2>2. /\ ask'[r] = [ask[r] EXCEPT !.aim = None] /\ ask'[r].pc = ask[r].pc /\ ask'[r].used = ask[r].used
        /\ ask'[r].aim = None /\ ask'[r].alone = ask[r].alone /\ ask'[r].freed = ask[r].freed
    BY <1>2, <1>4 DEF PoolAsks
  <2>3. glitches' = glitches + 1 /\ glitches' # 0
    BY <1>4 DEF N!Glitch, PoolInv, PoolTyped
  <2>4. PoolTyped' /\ Claims' /\ OneEach'
    BY <1>1, <1>4, <2>1, <2>3 DEF PoolInv, PoolTyped, N!TypeOK, Claims, OneEach
  <2>5. N!Free(r)' = N!Free(r) /\ N!InUse' = N!InUse
    BY <1>1, <1>4, <2>2 DEF N!Free, N!InUse
  <2>6. Housed(r)' /\ AimsAtGone(r)' /\ KnowsPool(r)'
    BY <1>1, <1>4, <2>1, <2>2, <2>5 DEF PoolInv, Housed, AimsAtGone, KnowsPool
  <2>7. ASSUME NEW q \in Tenants, q # r PROVE Housed(q)' /\ AimsAtGone(q)' /\ KnowsPool(q)'
    BY <1>1, <1>4, <2>1, <2>7, PoolApart, PoolOthers, PoolAimStays
  <2> QED
    BY <2>4, <2>6, <2>7 DEF PoolInv
<1> QED
  BY <1>3, <1>4 DEF N!Reclaim, N!memory

LEMMA PoolReclaimed ==
    ASSUME N!RoomNetworksAssumption, PoolInv, NEW r \in Tenants, N!Reclaimed(r)
    PROVE  PoolInv'
<1>1. /\ ask[r].pc = "reclaim" /\ ask[r].aim = None
      /\ UNCHANGED <<roomRow, network, attached, others, allocated, claimed, wakes, glitches, outside>>
      /\ ask' = [ask EXCEPT ![r] = IF @.freed THEN [@ EXCEPT !.pc = "allocate"] ELSE N!NoAsk]
      /\ answers' \in {answers, [answers EXCEPT ![r] = "refused"]}
  BY DEF PoolInv, PoolTyped, N!Reclaimed, N!At, N!memory
<1>2. CASE ask[r].freed
  <2>1. N!Goes(r, "allocate")
    BY <1>1, <1>2 DEF N!Goes, PoolInv, PoolTyped
  <2>2. /\ ask' \in [Tenants -> PoolAsks] /\ \A q \in Tenants \ {r} : ask'[q] = ask[q]
        /\ ask'[r].pc = "allocate" /\ ask'[r].used = ask[r].used /\ ask'[r].aim = ask[r].aim /\ ask'[r].alone = ask[r].alone
    BY <2>1, PoolGoes DEF PoolInv, PoolSteps
  <2>3. PoolTyped' /\ Claims' /\ OneEach' /\ N!InUse' = N!InUse
    BY <1>1, <2>2 DEF PoolInv, PoolTyped, N!TypeOK, Claims, OneEach, N!InUse
  <2>4. Housed(r)' /\ AimsAtGone(r)' /\ KnowsPool(r)'
    BY <1>1, <2>2, <2>3 DEF PoolInv, Housed, AimsAtGone, KnowsPool
  <2>5. ASSUME NEW q \in Tenants, q # r PROVE Housed(q)' /\ AimsAtGone(q)' /\ KnowsPool(q)'
    BY <1>1, <2>2, <2>5, PoolApart, PoolOthers, PoolAimStays
  <2> QED
    BY <2>3, <2>4, <2>5 DEF PoolInv
<1>3. CASE ~ask[r].freed
  <2>1. ask' = [ask EXCEPT ![r] = N!NoAsk]
    BY <1>1, <1>3
  <2>2. /\ ask' \in [Tenants -> PoolAsks] /\ \A q \in Tenants \ {r} : ask'[q] = ask[q]
        /\ ask'[r].pc = "idle" /\ ask'[r].aim = None
    BY <2>1, PoolEnds DEF PoolInv
  <2>3. PoolTyped' /\ Claims' /\ OneEach'
    BY <1>1, <2>2 DEF PoolInv, PoolTyped, N!TypeOK, Claims, OneEach
  <2>4. Housed(r)' /\ KnowsPool(r)' /\ AimsAtGone(r)'
    BY <1>1, <2>2 DEF PoolInv, Housed, KnowsPool, AimsAtGone
  <2>5. ASSUME NEW q \in Tenants, q # r PROVE Housed(q)' /\ AimsAtGone(q)' /\ KnowsPool(q)'
    BY <1>1, <2>2, <2>5, PoolApart, PoolOthers, PoolAimStays
  <2> QED
    BY <2>3, <2>4, <2>5 DEF PoolInv
<1> QED
  BY <1>2, <1>3

\* An address that a Room gives back is claimed for nobody.
LEMMA PoolReleases ==
    ASSUME N!RoomNetworksAssumption, PoolInv, NEW r \in Tenants, N!Releases(r), UNCHANGED roomRow
    PROVE  /\ allocated' \in [Tenants -> N!Subnets \cup {None}] /\ allocated'[r] = None
           /\ \A q \in Tenants \ {r} : allocated'[q] = allocated[q]
           /\ claimed' = claimed \ {allocated[r]} /\ claimed' \subseteq N!Subnets /\ Claims'
<1>1. /\ allocated' \in [Tenants -> N!Subnets \cup {None}] /\ allocated'[r] = None
      /\ \A q \in Tenants \ {r} : allocated'[q] = allocated[q]
      /\ claimed' = claimed \ {allocated[r]} /\ claimed' \subseteq N!Subnets
  BY DEF N!Releases, PoolInv, PoolTyped, N!TypeOK
<1>2. Claims'
  BY <1>1 DEF PoolInv, Claims
<1> QED
  BY <1>1, <1>2

LEMMA PoolCreate ==
    ASSUME N!RoomNetworksAssumption, PoolInv, NEW r \in Tenants, N!Create(r)
    PROVE  PoolInv'
<1>1. /\ ask[r].pc = "create" /\ ask' = [ask EXCEPT ![r] = N!NoAsk]
      /\ UNCHANGED <<roomRow, attached, others, wakes, outside>>
  BY DEF N!Create, N!At
<1>2. /\ ask' \in [Tenants -> PoolAsks] /\ \A q \in Tenants \ {r} : ask'[q] = ask[q]
      /\ ask'[r].pc = "idle" /\ ask'[r].aim = None
  BY <1>1, PoolEnds DEF PoolInv
<1>3. roomRow[r] = "there" /\ network[r] = None /\ allocated[r] # None
  BY <1>1 DEF PoolInv, PoolTyped, N!TypeOK, Housed
<1>4. /\ network' \in {network, [network EXCEPT ![r] = allocated[r]]}
      /\ \/ network' = [network EXCEPT ![r] = allocated[r]] /\ UNCHANGED <<allocated, claimed, glitches>>
         \/ N!Releases(r) /\ network' = network /\ UNCHANGED glitches
         \/ N!Releases(r) /\ glitches' = glitches + 1
  BY DEF N!Create, N!memory, N!Glitch
<1>5. /\ network' \in [Tenants -> N!Subnets \cup {None}] /\ \A q \in Tenants \ {r} : network'[q] = network[q]
      /\ network'[r] \in {None, allocated[r]}
  BY <1>3, <1>4 DEF PoolInv, PoolTyped, N!TypeOK
<1>6. /\ allocated' \in [Tenants -> N!Subnets \cup {None}] /\ claimed' \subseteq N!Subnets /\ Claims'
      /\ \A q \in Tenants \ {r} : allocated'[q] = allocated[q]
      /\ allocated'[r] # None => allocated'[r] = allocated[r] /\ network'[r] = allocated[r]
  <2>1. CASE N!Releases(r)
    BY <1>1, <2>1, PoolReleases
  <2>2. CASE network' = [network EXCEPT ![r] = allocated[r]] /\ UNCHANGED <<allocated, claimed, glitches>>
    BY <1>1, <2>2 DEF PoolInv, PoolTyped, N!TypeOK, Claims
  <2> QED
    BY <1>4, <2>1, <2>2
<1>7. glitches' \in Nat /\ (glitches' = 0 => glitches = 0)
  BY <1>4 DEF PoolInv, PoolTyped
<1>8. PoolTyped'
  <2>1. answers' \in {[answers EXCEPT ![r] = "made"], [answers EXCEPT ![r] = "failed"]}
    BY DEF N!Create
  <2> QED
    BY <1>1, <1>2, <1>5, <1>6, <1>7, <2>1 DEF PoolInv, PoolTyped, N!TypeOK
<1>9. OneEach'
  <2>1. CASE N!Releases(r) /\ network' = network /\ UNCHANGED glitches
    <3>1. allocated'[r] = None /\ claimed' = claimed \ {allocated[r]} /\ network'[r] = None
      BY <1>1, <1>3, <2>1, PoolReleases
    <3> QED
      BY <1>1, <1>5, <1>6, <2>1, <3>1 DEF PoolInv, OneEach
  <2>2. CASE network' = [network EXCEPT ![r] = allocated[r]] /\ UNCHANGED <<allocated, claimed, glitches>>
    BY <1>1, <1>5, <1>6, <2>2 DEF PoolInv, OneEach, PoolTyped, N!TypeOK
  <2>3. CASE glitches' = glitches + 1
    BY <2>3 DEF PoolInv, PoolTyped, OneEach
  <2> QED
    BY <1>4, <2>1, <2>2, <2>3
<1>10. Housed(r)' /\ AimsAtGone(r)' /\ KnowsPool(r)'
  BY <1>1, <1>2, <1>3, <1>6 DEF Housed, AimsAtGone, KnowsPool
<1>11. ASSUME NEW q \in Tenants, q # r PROVE Housed(q)' /\ AimsAtGone(q)' /\ KnowsPool(q)'
  <2>1. \A x \in Tenants : roomRow[x] = "gone" => network'[x] = network[x]
    BY <1>3, <1>5
  <2> QED
    BY <1>1, <1>2, <1>5, <1>6, <1>11, <2>1, PoolApart, PoolOthers, PoolAimStays
<1> QED
  BY <1>6, <1>8, <1>9, <1>10, <1>11 DEF PoolInv

LEMMA PoolRemoveNetwork ==
    ASSUME N!RoomNetworksAssumption, PoolInv, NEW r \in Tenants, N!RemoveNetwork(r)
    PROVE  PoolInv'
<1>1. ask[r].pc = "remove" /\ UNCHANGED <<roomRow, attached, others, answers, wakes, outside>>
  BY DEF N!RemoveNetwork, N!At
<1>2. PICK pc \in {"idle", "row"} :
         /\ N!Goes(r, pc) /\ network' \in {network, [network EXCEPT ![r] = None]}
         /\ \/ pc = "row" /\ network' = [network EXCEPT ![r] = None] /\ N!Releases(r) /\ UNCHANGED glitches
            \/ pc = "idle" /\ UNCHANGED <<allocated, claimed>> /\ glitches' = glitches + 1
  BY DEF N!RemoveNetwork, N!Glitch, N!memory
<1>3. /\ ask' \in [Tenants -> PoolAsks] /\ \A q \in Tenants \ {r} : ask'[q] = ask[q]
      /\ ask'[r].pc = pc /\ ask'[r].aim = ask[r].aim /\ ask'[r].alone = ask[r].alone
  BY <1>2, PoolGoes DEF PoolInv, PoolSteps
<1>4. /\ network' \in [Tenants -> N!Subnets \cup {None}] /\ \A q \in Tenants \ {r} : network'[q] = network[q]
      /\ network'[r] \in {None, network[r]} /\ (pc = "row" => network'[r] = None)
  BY <1>2 DEF PoolInv, PoolTyped, N!TypeOK
<1>5. /\ allocated' \in [Tenants -> N!Subnets \cup {None}] /\ claimed' \subseteq N!Subnets /\ Claims'
      /\ \A q \in Tenants \ {r} : allocated'[q] = allocated[q]
      /\ \/ allocated'[r] = None /\ claimed' = claimed \ {allocated[r]}
         \/ pc = "idle" /\ UNCHANGED <<allocated, claimed>>
  <2>1. CASE N!Releases(r)
    BY <1>1, <2>1, PoolReleases
  <2>2. CASE pc = "idle" /\ UNCHANGED <<allocated, claimed>>
    BY <1>1, <2>2 DEF PoolInv, PoolTyped, N!TypeOK, Claims
  <2> QED
    BY <1>2, <2>1, <2>2
<1>6. glitches' \in Nat /\ (glitches' = 0 => glitches = 0 /\ pc = "row")
  BY <1>2 DEF PoolInv, PoolTyped
<1>7. PoolTyped'
  BY <1>1, <1>3, <1>4, <1>5, <1>6 DEF PoolInv, PoolTyped, N!TypeOK
<1>8. OneEach'
  BY <1>1, <1>4, <1>5, <1>6 DEF PoolInv, OneEach
<1>9. Housed(r)' /\ KnowsPool(r)'
  BY <1>1, <1>2, <1>3, <1>4, <1>5 DEF PoolInv, Housed, KnowsPool
<1>10. ASSUME NEW q \in Tenants PROVE Housed(q)' /\ AimsAtGone(q)' /\ KnowsPool(q)'
  <2>1. AimsAtGone(q)'
    BY <1>1, <1>3, <1>4, PoolAimStays
  <2>2. CASE q # r
    BY <1>1, <1>3, <1>4, <1>5, <2>1, <2>2, PoolApart, PoolOthers
  <2> QED
    BY <1>9, <2>1, <2>2
<1> QED
  BY <1>5, <1>7, <1>8, <1>10 DEF PoolInv

LEMMA PoolForgetRow ==
    ASSUME N!RoomNetworksAssumption, PoolInv, NEW r \in Tenants, N!ForgetRow(r)
    PROVE  PoolInv'
<1>1. /\ ask[r].pc = "row" /\ N!Goes(r, "idle") /\ roomRow' = [roomRow EXCEPT ![r] = "gone"]
      /\ UNCHANGED <<network, attached, others, allocated, claimed, answers, wakes, glitches, outside>>
  BY DEF N!ForgetRow, N!At, N!memory
<1>2. /\ ask' \in [Tenants -> PoolAsks] /\ \A q \in Tenants \ {r} : ask'[q] = ask[q]
      /\ ask'[r].pc = "idle" /\ ask'[r].aim = ask[r].aim
  BY <1>1, PoolGoes DEF PoolInv, PoolSteps
<1>3. /\ roomRow' \in [Tenants -> {"never", "there", "gone"}] /\ roomRow'[r] = "gone"
      /\ \A q \in Tenants \ {r} : roomRow'[q] = roomRow[q]
  BY <1>1 DEF PoolInv, PoolTyped, N!TypeOK
<1>4. allocated[r] = None /\ None \notin claimed
  BY <1>1, PoolNone DEF PoolInv, PoolTyped, N!TypeOK, Housed
<1>5. PoolTyped' /\ Claims' /\ OneEach'
  BY <1>1, <1>2, <1>3, <1>4 DEF PoolInv, PoolTyped, N!TypeOK, Claims, OneEach
<1>6. Housed(r)' /\ KnowsPool(r)'
  BY <1>1, <1>2, <1>3, <1>4 DEF PoolInv, Housed, KnowsPool
<1>7. ASSUME NEW q \in Tenants PROVE Housed(q)' /\ AimsAtGone(q)' /\ KnowsPool(q)'
  <2>1. \A x \in Tenants : roomRow[x] = "gone" => roomRow'[x] = "gone"
    BY <1>3
  <2>2. AimsAtGone(q)'
    BY <1>1, <1>2, <2>1, PoolAimStays
  <2>3. CASE q # r
    BY <1>1, <1>2, <1>3, <2>2, <2>3, PoolApart, PoolOthers
  <2> QED
    BY <1>6, <2>2, <2>3
<1> QED
  BY <1>5, <1>7 DEF PoolInv

LEMMA PoolDies ==
    ASSUME N!RoomNetworksAssumption, PoolInv, N!Die
    PROVE  PoolInv'
<1>1. /\ glitches' = glitches + 1 /\ ask' = [r \in Tenants |-> N!NoAsk]
      /\ UNCHANGED <<roomRow, attached, others, answers, wakes, outside>>
  BY DEF N!Die, N!Glitch
<1>2. PICK adopted \in SUBSET {r \in Tenants : N!Active(r) /\ network[r] # None},
           removed \in SUBSET {r \in Tenants : ~N!Active(r) /\ network[r] # None /\ r \notin attached} :
         /\ network' = [r \in Tenants |-> IF r \in removed THEN None ELSE network[r]]
         /\ allocated' = [r \in Tenants |-> IF r \in adopted THEN network[r] ELSE None]
         /\ claimed' = {network[r] : r \in adopted}
  BY DEF N!Die
<1>3. \A r \in adopted : r \in Tenants /\ roomRow[r] = "there" /\ network[r] # None /\ r \notin removed
  BY <1>2 DEF N!Active
<1>4. PoolTyped'
  BY <1>1, <1>2, <1>3, PoolNone DEF PoolInv, PoolTyped, N!TypeOK
<1>5. Claims'
  BY <1>1, <1>2, <1>3 DEF Claims
<1>6. OneEach'
  BY <1>1 DEF PoolInv, PoolTyped, OneEach
<1>7. ASSUME NEW r \in Tenants PROVE Housed(r)' /\ AimsAtGone(r)' /\ KnowsPool(r)'
  <2>1. ask'[r].pc = "idle" /\ ask'[r].aim = None
    BY <1>1, PoolNone
  <2>2. roomRow'[r] = roomRow[r] /\ (network'[r] # None => network'[r] = network[r])
        /\ (allocated'[r] # None => roomRow[r] = "there" /\ network'[r] = network[r] /\ allocated'[r] = network[r])
    BY <1>1, <1>2, <1>3
  <2> QED
    BY <2>1, <2>2 DEF PoolInv, Housed, AimsAtGone, KnowsPool
<1> QED
  BY <1>4, <1>5, <1>6, <1>7 DEF PoolInv

LEMMA PoolOutside ==
    ASSUME N!RoomNetworksAssumption, PoolInv, N!Outside
    PROVE  PoolInv'
<1>1. /\ outside' = outside + 1 /\ outside' # 0
      /\ UNCHANGED <<roomRow, attached, allocated, claimed, ask, answers, wakes, glitches>>
  BY DEF N!Outside, N!memory, PoolInv, PoolTyped
<1>2. /\ network' \in [Tenants -> N!Subnets \cup {None}] /\ others' \subseteq N!Subnets
      /\ \A q \in Tenants : network'[q] \in {None, network[q]}
  BY DEF N!Outside, PoolInv, PoolTyped, N!TypeOK
<1>3. PoolTyped' /\ Claims' /\ OneEach'
  BY <1>1, <1>2 DEF PoolInv, PoolTyped, N!TypeOK, Claims, OneEach
<1>4. ASSUME NEW r \in Tenants PROVE Housed(r)' /\ AimsAtGone(r)' /\ KnowsPool(r)'
  <2>1. Housed(r)'
    BY <1>1, <1>2 DEF PoolInv, Housed
  <2>2. AimsAtGone(r)'
    BY <1>1, <1>2, PoolAimStays
  <2>3. KnowsPool(r)'
    BY <1>1 DEF PoolInv, KnowsPool
  <2> QED
    BY <2>1, <2>2, <2>3
<1> QED
  BY <1>3, <1>4 DEF PoolInv

LEMMA PoolStutter ==
    ASSUME PoolInv, UNCHANGED N!vars
    PROVE  PoolInv'
BY DEF N!vars, N!memory, PoolInv, PoolTyped, N!TypeOK, Claims, OneEach, Housed, AimsAtGone, KnowsPool, N!InUse, N!Free

LEMMA PoolStep ==
    ASSUME N!RoomNetworksAssumption, PoolInv, N!Next \/ UNCHANGED N!vars
    PROVE  PoolInv'
<1>1. ASSUME NEW r \in Tenants, N!Wake(r) PROVE PoolInv'
  BY <1>1, PoolAsksFor DEF N!Wake
<1>2. ASSUME NEW r \in Tenants, N!Delete(r) PROVE PoolInv'
  BY <1>2, PoolAsksFor DEF N!Delete, N!Active
<1>3. ASSUME NEW r \in Tenants, N!Look(r) PROVE PoolInv'
  BY <1>3, PoolLook
<1>4. ASSUME NEW r \in Tenants, N!Collect(r) PROVE PoolInv'
  BY <1>4, PoolCollect
<1>5. ASSUME NEW r \in Tenants, N!Allocate(r) PROVE PoolInv'
  BY <1>5, PoolAllocate
<1>6. ASSUME NEW r \in Tenants, NEW q \in Tenants, N!Inspect(r, q) PROVE PoolInv'
  BY <1>6, PoolInspect
<1>7. ASSUME NEW r \in Tenants, N!Reclaim(r) PROVE PoolInv'
  BY <1>7, PoolReclaim
<1>8. ASSUME NEW r \in Tenants, N!Reclaimed(r) PROVE PoolInv'
  BY <1>8, PoolReclaimed
<1>9. ASSUME NEW r \in Tenants, N!Create(r) PROVE PoolInv'
  BY <1>9, PoolCreate
<1>10. ASSUME NEW r \in Tenants, N!RemoveNetwork(r) PROVE PoolInv'
  BY <1>10, PoolRemoveNetwork
<1>11. ASSUME NEW r \in Tenants, N!ForgetRow(r) PROVE PoolInv'
  BY <1>11, PoolForgetRow
<1> QED
  BY <1>1, <1>2, <1>3, <1>4, <1>5, <1>6, <1>7, <1>8, <1>9, <1>10, <1>11, PoolDies, PoolOutside, PoolStutter DEF N!Next

LEMMA PoolKeeps ==
    ASSUME N!RoomNetworksAssumption, PoolInv
    PROVE  /\ N!TypeOK /\ N!ClaimsAreBacked
           /\ N!Next => N!RoomKeepsNetwork /\ N!RefusalIsTrue
<1>1. N!TypeOK /\ N!ClaimsAreBacked
  BY DEF PoolInv, PoolTyped, Claims, OneEach, N!ClaimsAreBacked, N!Active
<1>2. ASSUME N!Next PROVE N!RoomKeepsNetwork
  <2> SUFFICES ASSUME NEW r \in Tenants, network[r] # None, network'[r] = None, roomRow[r] = "there", outside' = outside
               PROVE  ask[r].pc = "remove"
    BY DEF N!RoomKeepsNetwork, N!At
  <2>1. network \in [Tenants -> N!Subnets \cup {None}] /\ network' # network
    BY DEF PoolInv, PoolTyped, N!TypeOK
  <2>2. CASE \E q \in Tenants : N!Reclaim(q)
    <3>1. PICK q \in Tenants : N!Reclaim(q)
      BY <2>2
    <3>2. ask[q].aim # None /\ network' \in {network, [network EXCEPT ![ask[q].aim.of] = None]}
      BY <3>1 DEF N!Reclaim
    <3>3. roomRow[ask[q].aim.of] = "gone"
      BY <3>2 DEF PoolInv, AimsAtGone
    <3> QED
      BY <2>1, <3>2, <3>3
  <2>3. CASE \E q \in Tenants : N!Create(q)
    <3>1. PICK q \in Tenants : N!Create(q)
      BY <2>3
    <3>2. network' \in {network, [network EXCEPT ![q] = allocated[q]]} /\ ask[q].pc = "create"
      BY <3>1 DEF N!Create, N!At
    <3>3. allocated[q] # None
      BY <3>2 DEF PoolInv, Housed
    <3> QED
      BY <2>1, <3>2, <3>3
  <2>4. CASE \E q \in Tenants : N!RemoveNetwork(q)
    BY <2>1, <2>4 DEF N!RemoveNetwork, N!At
  <2>5. CASE N!Die
    BY <2>1, <2>5 DEF N!Die, N!Active
  <2>6. CASE N!Outside
    BY <2>6 DEF N!Outside, PoolInv, PoolTyped
  <2> QED
    BY <1>2, <2>1, <2>2, <2>3, <2>4, <2>5, <2>6
    DEF N!Next, N!Wake, N!Asks, N!Look, N!Collect, N!Allocate, N!Inspect, N!Reclaimed, N!Delete, N!ForgetRow
<1>3. ASSUME N!Next PROVE N!RefusalIsTrue
  <2> SUFFICES ASSUME NEW r \in Tenants, answers'[r] = "refused", answers[r] # "refused", outside = 0, ask[r].alone
               PROVE  N!Subnets \subseteq N!InUse \cup {allocated[q] : q \in {x \in Tenants : N!Active(x)}}
    BY DEF N!RefusalIsTrue
  <2>1. \/ ask[r].pc = "allocate" /\ N!Free(r) = {}
        \/ ask[r].pc = "reclaim" /\ ~ask[r].freed
    <3>0. answers \in [Tenants -> {None, "refused", "made", "failed"}] /\ answers' # answers /\ None # "refused"
      BY DEF PoolInv, PoolTyped, N!RoomNetworksAssumption
    <3>1. CASE \E q \in Tenants : N!Allocate(q)
      BY <3>0, <3>1 DEF N!Allocate, N!At
    <3>2. CASE \E q \in Tenants : N!Reclaimed(q)
      BY <3>0, <3>2 DEF N!Reclaimed, N!At
    <3>3. ASSUME NEW q \in Tenants, answers' \in {[answers EXCEPT ![q] = None], [answers EXCEPT ![q] = "made"],
                                                  [answers EXCEPT ![q] = "failed"]}
          PROVE FALSE
      BY <3>0, <3>3
    <3>4. ASSUME NEW q \in Tenants, N!Wake(q) \/ N!Delete(q) \/ N!Create(q) PROVE FALSE
      BY <3>3, <3>4 DEF N!Wake, N!Delete, N!Asks, N!Create
    <3> QED
      BY <1>3, <3>0, <3>1, <3>2, <3>4 DEF N!Next, N!Look, N!Collect, N!Inspect, N!Reclaim, N!RemoveNetwork, N!ForgetRow,
         N!Die, N!Outside
  <2>2. N!Free(r) = {} /\ ask[r].used \subseteq N!InUse
    BY <2>1 DEF PoolInv, KnowsPool
  <2> QED
    BY <2>2 DEF N!Free, PoolInv, Claims, N!Active
<1> QED
  BY <1>1, <1>2, <1>3

-----------------------------------------------------------------------------
(***************************************************************************)
(* Status.  What a read concluded so far it saw since it began, or the     *)
(* engine gave no answer twice, and a third time is beyond the bound.  An  *)
(* operation that published a route during the read was there when it      *)
(* began or is later than the identity that it took.                       *)
(***************************************************************************)

ReadSteps == {"over", "health", "inventory", "health2", "top", "web", "authority", "container", "emulator", "judge"}
WebStates == {"running", "idle", "exited", "missing"}
BoxStates == {"running", "exited", "missing"}
RowStatuses == {"running", "preparing", "sleeping", "broken"}

ReadRows == [status : RowStatuses, route : BOOLEAN]
ReadBoxes == [web : WebStates, anchor : BoxStates, emulator : BoxStates]
ReadLooks ==
    [kind : {"none", "list", "inspect"}, step : ReadSteps, status : {"none"} \cup RowStatuses, locked : BOOLEAN,
     op : Nat, available : BOOLEAN, anchor : {"none"} \cup BoxStates,
     main : {"unchecked", "running", "exited", "missing", "degraded", "unknown"},
     emulator : {"unchecked", "running", "exited", "missing", "degraded"}]
Tellings == [state : {"none", "running", "degraded", "unknown", "dead", "stopped"}, revoked : BOOLEAN]
Sightings == [down : BOOLEAN, up : BOOLEAN, emulatorDown : BOOLEAN, published : BOOLEAN, unanswered : BOOLEAN]

ReadTyped ==
    /\ handset \in BOOLEAN /\ served \in ReadRows /\ real \in ReadBoxes
    /\ waiting \in Seq({"start", "sleep"})
    /\ mutations \in 0 .. MaxMutations /\ latest = mutations
    /\ look \in ReadLooks /\ told \in Tellings /\ since \in Sightings
    /\ hiccups \in Nat

\* What has been true of the containers since the read began.
SeenSince ==
    look.step \notin {"over", "health"} =>
      /\ ~U!Up(real) => since.down
      /\ U!Serves(real) => since.up
      /\ real.emulator # "running" => since.emulatorDown

\* A route that was made meanwhile is the work of an operation that the read can tell.
TellsOperations ==
    look.step \notin {"over", "health"} =>
      /\ look.op <= latest
      /\ waiting # <<>> \/ since.published => look.locked \/ look.op < latest

\* What the read has found so far.
Found ==
    /\ look.main \in {"exited", "missing"} => since.down
    /\ look.main = "unknown" => since.unanswered
    /\ look.emulator \in {"exited", "missing"} => since.emulatorDown

Looked == look.available /\ look.status \in {"running", "sleeping"}

\* What each step of the read relies on.
ReliesOn ==
    /\ look.step \in {"inventory", "health2", "web", "container"} => look.main = "unchecked"
    /\ look.step \in {"health", "inventory", "health2", "web", "authority", "container"} => look.emulator = "unchecked"
    /\ look.step \in {"health2", "web", "authority"} => hiccups >= 1
    /\ look.step = "container" => since.down \/ hiccups >= 2
    /\ look.step = "top" => (look.anchor = "running" => since.up \/ real.web # "running")
    /\ look.step = "authority" => (real.anchor = "running" => since.up)
    /\ look.step \in {"emulator", "judge"} /\ look.main = "running" => since.up
    /\ look.step = "emulator" => look.main # "unchecked"
    /\ look.step = "judge" /\ Looked => look.main # "unchecked" /\ (handset => look.emulator # "unchecked")

\* What was told.
Told ==
    IF look.step = "over"
    THEN U!NewRouteStays /\ U!DeadIsProven /\ U!RunningWasSeen /\ U!StrayIsTold
    ELSE told = U!Nothing

ReadInv == ReadTyped /\ SeenSince /\ TellsOperations /\ (look.step # "over" => Found /\ ReliesOn) /\ Told

LEMMA ReadStarts ==
    ASSUME U!RuntimeStatusAssumption, U!Init
    PROVE  ReadInv
<1>1. ReadTyped
  BY DEF U!RuntimeStatusAssumption, U!Init, ReadTyped, ReadRows, ReadBoxes, ReadLooks, Tellings, Sightings, U!NoLook,
         U!Nothing, U!Now, U!Live, U!Up, U!Serves, ReadSteps, WebStates, BoxStates, RowStatuses
<1> QED
  BY <1>1 DEF U!Init, ReadInv, U!NoLook, U!Nothing, SeenSince, TellsOperations, Told, U!NewRouteStays, U!DeadIsProven,
              U!RunningWasSeen, U!StrayIsTold

-----------------------------------------------------------------------------
(* What happens while a read goes on. *)

\* What is seen of new containers.
LEMMA WitnessIs ==
    ASSUME ReadTyped, NEW r \in ReadBoxes, NEW b \in BOOLEAN, U!Witness(r, b)
    PROVE  /\ since' \in Sightings
           /\ look.step = "over" => since' = since
           /\ since.down => since'.down
           /\ since.up => since'.up
           /\ since.emulatorDown => since'.emulatorDown
           /\ since.unanswered => since'.unanswered
           /\ look.step # "over" => /\ ~U!Up(r) => since'.down
                                    /\ U!Serves(r) => since'.up
                                    /\ r.emulator # "running" => since'.emulatorDown
                                    /\ since'.published => since.published \/ b
<1> DEFINE n == U!Now(r, b)
<1>1. n = [down |-> ~U!Up(r), up |-> U!Serves(r), emulatorDown |-> r.emulator # "running",
           published |-> b, unanswered |-> FALSE]
  BY DEF U!Now
<1>2. since \in Sightings
  BY DEF ReadTyped
<1>3. CASE look.step = "over"
  BY <1>2, <1>3 DEF U!Witness, U!At
<1>4. CASE look.step # "over"
  <2>1. since' = [f \in DOMAIN since |-> since[f] \/ n[f]]
    BY <1>4 DEF U!Witness, U!At
  <2>2. DOMAIN since = {"down", "up", "emulatorDown", "published", "unanswered"}
    BY <1>2 DEF Sightings
  <2>3. since' = [down |-> since.down \/ n.down, up |-> since.up \/ n.up,
                  emulatorDown |-> since.emulatorDown \/ n.emulatorDown,
                  published |-> since.published \/ n.published,
                  unanswered |-> since.unanswered \/ n.unanswered]
    BY <2>1, <2>2
  <2>4. /\ since'.down <=> (since.down \/ ~U!Up(r))
        /\ since'.up <=> (since.up \/ U!Serves(r))
        /\ since'.emulatorDown <=> (since.emulatorDown \/ r.emulator # "running")
        /\ since'.published <=> (since.published \/ b)
        /\ since'.unanswered <=> since.unanswered
    <3>1. /\ n.down = ~U!Up(r) /\ n.up = U!Serves(r) /\ n.emulatorDown = (r.emulator # "running")
          /\ n.published = b /\ n.unanswered = FALSE
      BY <1>1
    <3>2. /\ since.unanswered \in BOOLEAN /\ U!Up(r) \in BOOLEAN /\ U!Serves(r) \in BOOLEAN
      BY <1>2 DEF Sightings, U!Up, U!Serves
    <3> HIDE DEF n
    <3>3. /\ since'.down = (since.down \/ n.down) /\ since'.up = (since.up \/ n.up)
          /\ since'.emulatorDown = (since.emulatorDown \/ n.emulatorDown)
          /\ since'.published = (since.published \/ n.published)
          /\ since'.unanswered = (since.unanswered \/ n.unanswered)
      BY <2>3
    <3> QED
      BY <3>1, <3>2, <3>3
  <2>5. since' \in Sightings
    BY <1>1, <1>2, <2>3 DEF Sightings, U!Up, U!Serves
  <2> QED
    BY <1>4, <2>4, <2>5
<1> QED
  BY <1>3, <1>4

\* Containers that move under a read are seen, and a web or an anchor comes up
\* only with the other one.
LEMMA BoxesMove ==
    ASSUME ReadInv, real' \in ReadBoxes, NEW b \in BOOLEAN, U!Witness(real', b), b => waiting # <<>>,
           real'.web = "running" => real.web = "running" \/ U!Serves(real'),
           real'.anchor = "running" => real.anchor = "running" \/ U!Serves(real'),
           waiting' # <<>> => waiting # <<>>, UNCHANGED <<handset, latest, look, told, hiccups>>
    PROVE  /\ since' \in Sightings /\ SeenSince' /\ TellsOperations' /\ (look'.step # "over" => Found' /\ ReliesOn') /\ Told'
<1>1. ReadTyped /\ SeenSince /\ TellsOperations /\ (look.step # "over" => Found /\ ReliesOn) /\ Told
  BY DEF ReadInv
<1>2. /\ since' \in Sightings
      /\ look.step = "over" => since' = since
      /\ since.down => since'.down
      /\ since.up => since'.up
      /\ since.emulatorDown => since'.emulatorDown
      /\ since.unanswered => since'.unanswered
      /\ look.step # "over" => /\ ~U!Up(real') => since'.down
                               /\ U!Serves(real') => since'.up
                               /\ real'.emulator # "running" => since'.emulatorDown
                               /\ since'.published => since.published \/ b
  BY <1>1, WitnessIs
<1>3. SeenSince'
  BY <1>2 DEF SeenSince, U!Up, U!Serves
<1>4. TellsOperations'
  BY <1>1, <1>2 DEF TellsOperations
<1>5. look.step # "over" => Found'
  BY <1>1, <1>2 DEF Found
<1>6. look.step # "over" => ReliesOn'
  BY <1>1, <1>2 DEF ReliesOn, Looked
<1>7. Told'
  BY <1>1, <1>2 DEF Told, U!NewRouteStays, U!DeadIsProven, U!RunningWasSeen, U!StrayIsTold, U!Nothing
<1> QED
  BY <1>2, <1>3, <1>4, <1>5, <1>6, <1>7

LEMMA EnteredTyped ==
    ASSUME NEW op, NEW r \in ReadRows, NEW boxes
    PROVE  U!Entered(op, r, boxes) \in ReadRows
<1>1. [r EXCEPT !.route = FALSE] \in ReadRows /\ [r EXCEPT !.status = "preparing"] \in ReadRows
  BY DEF ReadRows, RowStatuses
<1> QED
  BY <1>1 DEF U!Entered

LEMMA ReadAdmit ==
    ASSUME ReadInv, NEW op \in {"start", "sleep"}, U!Admit(op), U!RuntimeStatusAssumption
    PROVE  ReadInv'
<1>1. ReadTyped /\ SeenSince /\ TellsOperations /\ (look.step # "over" => Found /\ ReliesOn) /\ Told
  BY DEF ReadInv
<1>2. /\ UNCHANGED <<handset, real, look, told, since, looks, fallen, hiccups>>
      /\ mutations < MaxMutations /\ mutations' = mutations + 1 /\ latest' = latest + 1
      /\ waiting' = Append(waiting, op) /\ served' \in {served, U!Entered(op, served, real)}
  BY DEF U!Admit
<1>3. ReadTyped'
  <2>1. served' \in ReadRows
    BY <1>1, <1>2, EnteredTyped DEF ReadTyped
  <2>2. waiting' \in Seq({"start", "sleep"})
    BY <1>1, <1>2 DEF ReadTyped
  <2> QED
    BY <1>1, <1>2, <2>1, <2>2 DEF ReadTyped, U!RuntimeStatusAssumption
<1>4. TellsOperations'
  BY <1>1, <1>2 DEF TellsOperations, ReadTyped, ReadLooks
<1> QED
  BY <1>1, <1>2, <1>3, <1>4 DEF ReadInv, SeenSince, U!Up, U!Serves, Found, ReliesOn, Looked, Told, U!NewRouteStays,
     U!DeadIsProven, U!RunningWasSeen, U!StrayIsTold, U!Nothing

LEMMA ReadEnds ==
    ASSUME ReadInv, NEW r \in ReadRows, NEW boxes \in {real, U!Live, U!Still}, waiting # <<>>, U!Ends(r, boxes)
    PROVE  ReadInv'
<1>1. ReadTyped
  BY DEF ReadInv
<1>2. /\ waiting' = Tail(waiting) /\ real' = boxes /\ U!Witness(boxes, r.route)
      /\ UNCHANGED <<handset, latest, look, told, mutations, looks, fallen, hiccups>>
      /\ served' \in {r, U!Entered(Head(waiting'), r, boxes)}
  BY DEF U!Ends
<1>3. boxes \in ReadBoxes
  BY <1>1 DEF ReadTyped, ReadBoxes, WebStates, BoxStates, U!Live, U!Still
<1>4. served' \in ReadRows /\ waiting' \in Seq({"start", "sleep"})
  BY <1>1, <1>2, EnteredTyped DEF ReadTyped
<1>5. /\ real'.web = "running" => real.web = "running" \/ U!Serves(real')
      /\ real'.anchor = "running" => real.anchor = "running" \/ U!Serves(real')
  BY <1>2 DEF U!Live, U!Still, U!Serves
<1>6. r.route \in BOOLEAN
  BY DEF ReadRows
<1>7. /\ since' \in Sightings /\ SeenSince' /\ TellsOperations' /\ (look'.step # "over" => Found' /\ ReliesOn') /\ Told'
  BY <1>2, <1>3, <1>5, <1>6, BoxesMove
<1> QED
  BY <1>1, <1>2, <1>3, <1>4, <1>7 DEF ReadInv, ReadTyped

LEMMA ReadStart ==
    ASSUME ReadInv, U!Start
    PROVE  ReadInv'
<1>1. served \in ReadRows /\ waiting # <<>>
  BY DEF ReadInv, ReadTyped, U!Start, U!Holds
<1>2. /\ [served EXCEPT !.route = TRUE] \in ReadRows
      /\ [status |-> "running", route |-> TRUE] \in ReadRows /\ [status |-> "broken", route |-> FALSE] \in ReadRows
  BY <1>1 DEF ReadRows, RowStatuses
<1> QED
  BY <1>1, <1>2, ReadEnds DEF U!Start

LEMMA ReadSleep ==
    ASSUME ReadInv, U!Sleep
    PROVE  ReadInv'
<1>1. served \in ReadRows /\ waiting # <<>>
  BY DEF ReadInv, ReadTyped, U!Sleep, U!Holds
<1>2. [served EXCEPT !.route = FALSE] \in ReadRows /\ [status |-> "sleeping", route |-> FALSE] \in ReadRows
  BY <1>1 DEF ReadRows, RowStatuses
<1> QED
  BY <1>1, <1>2, ReadEnds DEF U!Sleep

LEMMA ReadDeaths ==
    ASSUME ReadInv, U!Deaths
    PROVE  ReadInv'
<1>1. ReadTyped /\ real \in ReadBoxes
  BY DEF ReadInv, ReadTyped
<1>2. U!Witness(real', FALSE) /\ UNCHANGED <<handset, served, waiting, latest, look, told, mutations, looks, hiccups>>
  BY DEF U!Deaths
<1>3. /\ real' \in ReadBoxes
      /\ real'.web = "running" => real.web = "running" \/ U!Serves(real')
      /\ real'.anchor = "running" => real.anchor = "running" \/ U!Serves(real')
  BY <1>1 DEF U!Deaths, ReadBoxes, WebStates, BoxStates, U!Serves
<1>4. /\ since' \in Sightings /\ SeenSince' /\ TellsOperations' /\ (look'.step # "over" => Found' /\ ReliesOn') /\ Told'
  BY <1>2, <1>3, BoxesMove
<1> QED
  BY <1>1, <1>2, <1>3, <1>4 DEF ReadInv, ReadTyped

-----------------------------------------------------------------------------
(* The read. *)

\* A step of the read moves what it has found, and whether a call got no answer.
Finds ==
    /\ UNCHANGED <<handset, served, real, waiting, latest, mutations, told>> /\ look.step # "over"
    /\ \/ UNCHANGED <<hiccups, since>>
       \/ hiccups < MaxHiccups /\ hiccups' = hiccups + 1 /\ since' = [since EXCEPT !.unanswered = TRUE]
    /\ look'.status = look.status /\ look'.locked = look.locked /\ look'.op = look.op
    /\ look.step # "health" /\ look'.step \notin {"over", "health"}

LEMMA FindsKeeps ==
    ASSUME ReadInv, Finds, look' \in ReadLooks, Found', ReliesOn'
    PROVE  ReadInv'
<1>1. ReadTyped /\ SeenSince /\ TellsOperations /\ Told
  BY DEF ReadInv
<1>2. /\ since' \in Sightings /\ since'.down = since.down /\ since'.up = since.up
      /\ since'.emulatorDown = since.emulatorDown /\ since'.published = since.published
  BY <1>1 DEF Finds, ReadTyped, Sightings
<1>3. ReadTyped'
  BY <1>1, <1>2 DEF Finds, ReadTyped
<1>4. SeenSince' /\ TellsOperations'
  BY <1>1, <1>2 DEF Finds, SeenSince, TellsOperations, U!Up, U!Serves
<1>5. Told'
  BY <1>1 DEF Finds, Told, U!Nothing
<1> QED
  BY <1>3, <1>4, <1>5 DEF ReadInv

LEMMA SeesIs2 ==
    ASSUME NEW l \in ReadLooks, NEW next \in ReadSteps, U!Sees(l, next)
    PROVE  /\ look' \in ReadLooks /\ look'.step = next
           /\ look'.status = l.status /\ look'.locked = l.locked /\ look'.op = l.op /\ look'.available = l.available
           /\ look'.anchor = l.anchor /\ look'.main = l.main /\ look'.emulator = l.emulator
BY DEF U!Sees, ReadLooks

\* The read found out about the web, and goes on with the emulator or judges.
LEMMA ThenEmulatorIs ==
    ASSUME look \in ReadLooks, NEW main \in {"running", "exited", "missing", "degraded", "unknown"},
           U!ThenEmulator([look EXCEPT !.main = main])
    PROVE  /\ look' \in ReadLooks
           /\ look'.step = IF handset /\ look.emulator \in {"running", "unchecked"} THEN "emulator" ELSE "judge"
           /\ look'.status = look.status /\ look'.locked = look.locked /\ look'.op = look.op /\ look'.available = look.available
           /\ look'.anchor = look.anchor /\ look'.main = main /\ look'.emulator = look.emulator
<1>1. [look EXCEPT !.main = main] \in ReadLooks /\ {"emulator", "judge"} \subseteq ReadSteps
  BY DEF ReadLooks, ReadSteps
<1>2. [look EXCEPT !.main = main].emulator = look.emulator
  BY DEF ReadLooks
<1> DEFINE next == IF handset /\ look.emulator \in {"running", "unchecked"} THEN "emulator" ELSE "judge"
<1>3. U!Sees([look EXCEPT !.main = main], next) /\ next \in ReadSteps
  BY <1>1, <1>2 DEF U!ThenEmulator
<1> HIDE DEF next
<1>4. /\ look' \in ReadLooks /\ look'.step = next
      /\ look' = [[look EXCEPT !.main = main] EXCEPT !.step = next]
  BY <1>1, <1>3, SeesIs2 DEF U!Sees
<1> QED
  BY <1>4 DEF ReadLooks, next

\* A conclusion about the web that the containers bear out.
LEMMA ConcludesKeeps ==
    ASSUME ReadInv, NEW main \in {"running", "exited", "missing", "degraded", "unknown"},
           look.step \in {"top", "web", "authority", "container"},
           U!ThenEmulator([look EXCEPT !.main = main]), U!Quietly,
           (hiccups' = hiccups /\ since' = since) \/ (U!Hiccup /\ U!Missed),
           main \in {"exited", "missing"} => since.down, main = "unknown" => U!Missed, main = "running" => since.up
    PROVE  ReadInv'
<1>1. ReadTyped /\ SeenSince /\ Found /\ ReliesOn
  BY DEF ReadInv
<1>2. look \in ReadLooks /\ since \in Sightings /\ hiccups \in Nat
  BY <1>1 DEF ReadTyped
<1>3. /\ look' \in ReadLooks
      /\ look'.step = IF handset /\ look.emulator \in {"running", "unchecked"} THEN "emulator" ELSE "judge"
      /\ look'.status = look.status /\ look'.locked = look.locked /\ look'.op = look.op /\ look'.available = look.available
      /\ look'.anchor = look.anchor /\ look'.main = main /\ look'.emulator = look.emulator
  BY <1>2, ThenEmulatorIs
<1>4. Finds
  BY <1>3 DEF Finds, U!Quietly, U!Reads, U!Hiccup, U!Missed
<1>5. /\ since'.down = since.down /\ since'.up = since.up /\ since'.emulatorDown = since.emulatorDown
      /\ (since.unanswered => since'.unanswered) /\ (U!Missed => since'.unanswered)
  BY <1>2 DEF U!Missed, Sightings
<1>6. Found'
  BY <1>1, <1>3, <1>5 DEF Found
<1>7. ReliesOn'
  BY <1>1, <1>3, <1>5 DEF ReliesOn, Looked, U!Quietly, U!Reads
<1> QED
  BY <1>3, <1>4, <1>6, <1>7, FindsKeeps

LEMMA ReadInventory ==
    ASSUME ReadInv, U!Inventory
    PROVE  ReadInv'
<1>1. ReadTyped /\ SeenSince /\ Found /\ ReliesOn /\ look.step = "inventory" /\ U!Quietly
  BY DEF ReadInv, U!Inventory, U!At
<1>2. look \in ReadLooks /\ real \in ReadBoxes /\ since \in Sightings /\ hiccups \in Nat
  BY <1>1 DEF ReadTyped
<1> DEFINE r == [look EXCEPT !.anchor = real.anchor, !.emulator = real.emulator,
                             !.main = IF U!Up(real) THEN "running" ELSE real.web]
<1>3. CASE U!Answers /\ UNCHANGED since /\ (IF U!Up(real) THEN U!Sees(r, "top") ELSE U!ThenEmulator(r))
  <2>1. /\ r \in ReadLooks /\ r.anchor = real.anchor /\ r.emulator = real.emulator
        /\ r.main = (IF U!Up(real) THEN "running" ELSE real.web)
        /\ r.status = look.status /\ r.locked = look.locked /\ r.op = look.op /\ r.available = look.available
    BY <1>2 DEF ReadLooks, ReadBoxes, WebStates, BoxStates, U!Up
  <2> HIDE DEF r
  <2>2. PICK next \in ReadSteps :
          /\ U!Sees(r, next)
          /\ next = IF U!Up(real) THEN "top" ELSE IF handset /\ r.emulator \in {"running", "unchecked"} THEN "emulator" ELSE "judge"
    BY <1>3 DEF U!ThenEmulator, ReadSteps
  <2>3. /\ look' \in ReadLooks /\ look'.step = next
        /\ look'.status = look.status /\ look'.locked = look.locked /\ look'.op = look.op /\ look'.available = look.available
        /\ look'.anchor = real.anchor /\ look'.main = r.main /\ look'.emulator = real.emulator
    BY <2>1, <2>2, SeesIs2
  <2>4. Finds
    BY <1>1, <1>3, <2>2, <2>3 DEF Finds, U!Quietly, U!Reads, U!Answers
  <2>5. U!Up(real) \/ real.web \in {"exited", "missing"}
    BY <1>2 DEF U!Up, ReadBoxes, WebStates
  <2>6. Found'
    BY <1>1, <1>2, <1>3, <2>1, <2>3, <2>5 DEF Found, SeenSince, ReadBoxes, BoxStates
  <2>7. ReliesOn'
    BY <1>1, <1>2, <1>3, <2>1, <2>2, <2>3, <2>5 DEF ReliesOn, SeenSince, U!Serves, U!Quietly, U!Reads, ReadBoxes, BoxStates
  <2> QED
    BY <2>3, <2>4, <2>6, <2>7, FindsKeeps
<1>4. CASE U!Hiccup /\ U!Missed /\ U!Sees(look, IF look.kind = "inspect" THEN "health2" ELSE "web")
  <2>1. PICK next \in {"health2", "web"} : U!Sees(look, next)
    BY <1>4
  <2>2. /\ look' \in ReadLooks /\ look'.step = next
        /\ look'.status = look.status /\ look'.locked = look.locked /\ look'.op = look.op /\ look'.available = look.available
        /\ look'.anchor = look.anchor /\ look'.main = look.main /\ look'.emulator = look.emulator
    BY <1>2, <2>1, SeesIs2 DEF ReadSteps
  <2>3. /\ since'.down = since.down /\ since'.emulatorDown = since.emulatorDown /\ since'.unanswered
        /\ hiccups' = hiccups + 1
    BY <1>2, <1>4 DEF U!Missed, U!Hiccup, Sightings
  <2>4. Finds
    BY <1>1, <1>4, <2>2 DEF Finds, U!Quietly, U!Reads, U!Hiccup, U!Missed
  <2>5. Found' /\ ReliesOn'
    BY <1>1, <1>2, <2>1, <2>2, <2>3 DEF Found, ReliesOn
  <2> QED
    BY <2>2, <2>4, <2>5, FindsKeeps
<1> QED
  BY <1>3, <1>4 DEF U!Inventory

LEMMA ReadSecondHealth ==
    ASSUME ReadInv, U!SecondHealth
    PROVE  ReadInv'
<1>1. ReadTyped /\ Found /\ ReliesOn /\ look.step = "health2" /\ U!Quietly
  BY DEF ReadInv, U!SecondHealth, U!At
<1>2. look \in ReadLooks /\ since \in Sightings /\ hiccups \in Nat
  BY <1>1 DEF ReadTyped
<1>3. CASE U!Answers /\ UNCHANGED since /\ U!Sees(look, "web")
  <2>1. /\ look' \in ReadLooks /\ look'.step = "web"
        /\ look'.status = look.status /\ look'.locked = look.locked /\ look'.op = look.op /\ look'.available = look.available
        /\ look'.anchor = look.anchor /\ look'.main = look.main /\ look'.emulator = look.emulator
    BY <1>2, <1>3, SeesIs2 DEF ReadSteps
  <2>2. Finds /\ Found' /\ ReliesOn'
    BY <1>1, <1>3, <2>1 DEF Finds, U!Quietly, U!Reads, U!Answers, Found, ReliesOn
  <2> QED
    BY <2>1, <2>2, FindsKeeps
<1>4. CASE U!Hiccup /\ U!Missed /\ U!Sees([look EXCEPT !.available = FALSE], "judge")
  <2> DEFINE r == [look EXCEPT !.available = FALSE]
  <2>1. /\ r \in ReadLooks /\ r.status = look.status /\ r.locked = look.locked /\ r.op = look.op /\ ~r.available
        /\ r.main = look.main /\ r.emulator = look.emulator
    BY <1>2 DEF ReadLooks
  <2> HIDE DEF r
  <2>2. /\ look' \in ReadLooks /\ look'.step = "judge"
        /\ look'.status = look.status /\ look'.locked = look.locked /\ look'.op = look.op /\ ~look'.available
        /\ look'.main = look.main /\ look'.emulator = look.emulator
    BY <1>4, <2>1, SeesIs2 DEF ReadSteps, r
  <2>3. /\ since'.down = since.down /\ since'.emulatorDown = since.emulatorDown /\ since'.unanswered
    BY <1>2, <1>4 DEF U!Missed, Sightings
  <2>4. Finds /\ Found' /\ ReliesOn'
    BY <1>1, <1>4, <2>2, <2>3 DEF Finds, U!Quietly, U!Reads, U!Hiccup, U!Missed, Found, ReliesOn, Looked
  <2> QED
    BY <2>2, <2>4, FindsKeeps
<1> QED
  BY <1>3, <1>4 DEF U!SecondHealth

LEMMA ReadTop ==
    ASSUME ReadInv, U!Top
    PROVE  ReadInv'
<1>1. ReliesOn /\ look.step = "top" /\ U!Quietly
  BY DEF ReadInv, U!Top, U!At
<1>2. CASE U!Answers /\ UNCHANGED since
           /\ U!ThenEmulator([look EXCEPT !.main = IF real.web = "running" /\ look.anchor = "running"
                                                   THEN "running" ELSE "degraded"])
  <2>1. CASE real.web = "running" /\ look.anchor = "running"
    <3>1. U!ThenEmulator([look EXCEPT !.main = "running"]) /\ hiccups' = hiccups /\ since' = since /\ since.up
      BY <1>1, <1>2, <2>1 DEF ReliesOn, U!Answers
    <3> QED
      BY <1>1, <3>1, ConcludesKeeps
  <2>2. CASE ~(real.web = "running" /\ look.anchor = "running")
    <3>1. U!ThenEmulator([look EXCEPT !.main = "degraded"]) /\ hiccups' = hiccups /\ since' = since
      BY <1>2, <2>2 DEF U!Answers
    <3> QED
      BY <1>1, <3>1, ConcludesKeeps
  <2> QED
    BY <2>1, <2>2
<1>3. CASE U!Hiccup /\ U!Missed /\ U!ThenEmulator([look EXCEPT !.main = "unknown"])
  BY <1>1, <1>3, ConcludesKeeps
<1> QED
  BY <1>2, <1>3 DEF U!Top

LEMMA ReadWeb ==
    ASSUME ReadInv, U!Web
    PROVE  ReadInv'
<1>1. ReadTyped /\ SeenSince /\ Found /\ ReliesOn /\ look.step = "web" /\ U!Quietly
  BY DEF ReadInv, U!Web, U!At
<1>2. look \in ReadLooks /\ since \in Sightings /\ hiccups \in Nat
  BY <1>1 DEF ReadTyped
<1>3. ASSUME NEW next \in {"container", "authority"}, U!Sees(look, next),
             (hiccups' = hiccups /\ since' = since) \/ (U!Hiccup /\ U!Missed),
             next = "container" => since.down \/ hiccups' >= 2,
             next = "authority" => real.web = "running" /\ since' = since
      PROVE  ReadInv'
  <2>1. /\ look' \in ReadLooks /\ look'.step = next
        /\ look'.status = look.status /\ look'.locked = look.locked /\ look'.op = look.op /\ look'.available = look.available
        /\ look'.anchor = look.anchor /\ look'.main = look.main /\ look'.emulator = look.emulator
    BY <1>2, <1>3, SeesIs2 DEF ReadSteps
  <2>2. /\ since'.down = since.down /\ since'.up = since.up /\ since'.emulatorDown = since.emulatorDown
        /\ (since.unanswered => since'.unanswered) /\ hiccups' \in Nat /\ hiccups' >= hiccups
    BY <1>2, <1>3 DEF U!Missed, U!Hiccup, Sightings
  <2>3. next = "authority" => (real.anchor = "running" => since.up)
    BY <1>1, <1>3 DEF SeenSince, U!Serves
  <2>4. Finds /\ Found'
    BY <1>1, <1>3, <2>1, <2>2 DEF Finds, U!Quietly, U!Reads, U!Hiccup, U!Missed, Found
  <2>5. ReliesOn'
    BY <1>1, <1>2, <1>3, <2>1, <2>2, <2>3 DEF ReliesOn, U!Quietly, U!Reads
  <2> QED
    BY <2>1, <2>4, <2>5, FindsKeeps
<1>4. CASE U!Answers /\ UNCHANGED since /\ ~U!Up(real) /\ U!Sees(look, "container")
  BY <1>1, <1>3, <1>4 DEF SeenSince, U!Answers
<1>5. CASE U!Answers /\ UNCHANGED since /\ real.web = "running" /\ U!Sees(look, "authority")
  BY <1>3, <1>5 DEF U!Answers
<1>6. CASE U!Answers /\ UNCHANGED since /\ U!ThenEmulator([look EXCEPT !.main = "degraded"])
  BY <1>1, <1>6, ConcludesKeeps DEF U!Answers
<1>7. CASE U!Hiccup /\ U!Missed /\ U!Sees(look, "container")
  <2>1. hiccups' >= 2
    BY <1>1, <1>2, <1>7 DEF ReliesOn, U!Hiccup
  <2> QED
    BY <1>3, <1>7, <2>1
<1> QED
  BY <1>4, <1>5, <1>6, <1>7 DEF U!Web

LEMMA ReadAuthority ==
    ASSUME ReadInv, U!Authority
    PROVE  ReadInv'
<1>1. ReliesOn /\ look.step = "authority" /\ U!Quietly
  BY DEF ReadInv, U!Authority, U!At
<1>2. CASE U!Answers /\ UNCHANGED since
           /\ U!ThenEmulator([look EXCEPT !.main = IF real.anchor = "running" THEN "running" ELSE "degraded"])
  <2>1. CASE real.anchor = "running"
    <3>1. U!ThenEmulator([look EXCEPT !.main = "running"]) /\ hiccups' = hiccups /\ since' = since /\ since.up
      BY <1>1, <1>2, <2>1 DEF ReliesOn, U!Answers
    <3> QED
      BY <1>1, <3>1, ConcludesKeeps
  <2>2. CASE real.anchor # "running"
    <3>1. U!ThenEmulator([look EXCEPT !.main = "degraded"]) /\ hiccups' = hiccups /\ since' = since
      BY <1>2, <2>2 DEF U!Answers
    <3> QED
      BY <1>1, <3>1, ConcludesKeeps
  <2> QED
    BY <2>1, <2>2
<1>3. CASE U!Hiccup /\ U!Missed /\ U!ThenEmulator([look EXCEPT !.main = "unknown"])
  BY <1>1, <1>3, ConcludesKeeps
<1> QED
  BY <1>2, <1>3 DEF U!Authority

\* A container that was not found is one that was down: two calls before this one
\* got no answer, and there is no third (MaxHiccups).
LEMMA ReadContainer ==
    ASSUME U!RuntimeStatusAssumption, MaxHiccups <= 2, ReadInv, U!Container
    PROVE  ReadInv'
<1>1. ReadTyped /\ SeenSince /\ ReliesOn /\ look.step = "container" /\ U!Quietly
  BY DEF ReadInv, U!Container, U!At
<1>2. real \in ReadBoxes /\ hiccups \in Nat
  BY <1>1 DEF ReadTyped
<1>3. CASE U!Answers /\ UNCHANGED since /\ U!ThenEmulator([look EXCEPT !.main = IF U!Up(real) THEN "degraded" ELSE real.web])
  <2>1. CASE U!Up(real)
    <3>1. U!ThenEmulator([look EXCEPT !.main = "degraded"]) /\ hiccups' = hiccups /\ since' = since
      BY <1>3, <2>1 DEF U!Answers
    <3> QED
      BY <1>1, <3>1, ConcludesKeeps
  <2>2. CASE ~U!Up(real)
    <3>1. real.web \in {"exited", "missing"} /\ since.down
      BY <1>1, <1>2, <2>2 DEF U!Up, ReadBoxes, WebStates, SeenSince
    <3> QED
      <4>1. U!ThenEmulator([look EXCEPT !.main = real.web]) /\ hiccups' = hiccups /\ since' = since
        BY <1>3, <2>2 DEF U!Answers
      <4> QED
        BY <1>1, <3>1, <4>1, ConcludesKeeps
  <2> QED
    BY <2>1, <2>2
<1>4. CASE U!Hiccup /\ U!Missed /\ U!ThenEmulator([look EXCEPT !.main = "missing"])
  <2>1. since.down
    BY <1>1, <1>2, <1>4 DEF ReliesOn, U!Hiccup, U!RuntimeStatusAssumption
  <2> QED
    BY <1>1, <1>4, <2>1, ConcludesKeeps
<1> QED
  BY <1>3, <1>4 DEF U!Container

LEMMA ReadEmulator ==
    ASSUME ReadInv, U!Emulator
    PROVE  ReadInv'
<1>1. ReadTyped /\ SeenSince /\ Found /\ ReliesOn /\ look.step = "emulator" /\ U!Quietly
  BY DEF ReadInv, U!Emulator, U!At
<1>2. look \in ReadLooks /\ real \in ReadBoxes /\ since \in Sightings /\ hiccups \in Nat
  BY <1>1 DEF ReadTyped
<1>3. PICK e \in {"degraded", real.emulator} :
        /\ U!Sees([look EXCEPT !.emulator = e], "judge")
        /\ (hiccups' = hiccups /\ since' = since) \/ (U!Hiccup /\ U!Missed)
  BY DEF U!Emulator, U!Answers
<1> DEFINE r == [look EXCEPT !.emulator = e]
<1>4. /\ r \in ReadLooks /\ r.status = look.status /\ r.locked = look.locked /\ r.op = look.op
      /\ r.available = look.available /\ r.main = look.main /\ r.emulator = e
  BY <1>2, <1>3 DEF ReadLooks, ReadBoxes, BoxStates
<1> HIDE DEF r
<1>5. /\ look' \in ReadLooks /\ look'.step = "judge"
      /\ look'.status = look.status /\ look'.locked = look.locked /\ look'.op = look.op /\ look'.available = look.available
      /\ look'.main = look.main /\ look'.emulator = e
  BY <1>3, <1>4, SeesIs2 DEF ReadSteps, r
<1>6. /\ since'.down = since.down /\ since'.up = since.up /\ since'.emulatorDown = since.emulatorDown
      /\ (since.unanswered => since'.unanswered)
  BY <1>2, <1>3 DEF U!Missed, Sightings
<1>7. e \in {"exited", "missing"} => since.emulatorDown
  BY <1>1, <1>3 DEF SeenSince
<1>8. Finds /\ Found'
  BY <1>1, <1>3, <1>5, <1>6, <1>7 DEF Finds, U!Quietly, U!Reads, U!Hiccup, U!Missed, Found
<1>9. ReliesOn'
  BY <1>1, <1>2, <1>3, <1>5, <1>6 DEF ReliesOn, ReadBoxes, BoxStates
<1> QED
  BY <1>5, <1>8, <1>9, FindsKeeps

LEMMA ReadJudge ==
    ASSUME ReadInv, U!Judge
    PROVE  ReadInv'
<1>1. ReadTyped /\ TellsOperations /\ Found /\ ReliesOn /\ look.step = "judge"
  BY DEF ReadInv, U!Judge, U!At
<1>2. look \in ReadLooks /\ served \in ReadRows /\ since \in Sightings
  BY <1>1 DEF ReadTyped
<1>3. look' = [look EXCEPT !.step = "over"] /\ UNCHANGED <<since, hiccups, handset, real, waiting, latest, mutations>>
  BY DEF U!Judge, U!Reads
<1>4. look' \in ReadLooks /\ look'.step = "over" /\ look'.status = look.status /\ look'.available = look.available
  BY <1>2, <1>3 DEF ReadLooks, ReadSteps
<1>5. PICK verdict \in U!States :
        LET revokes == U!Expected(look.status) = "running" /\ verdict = "dead" /\ U!MayRevoke
        IN  /\ told' = [state |-> verdict, revoked |-> revokes /\ served.route]
            /\ served' = IF revokes THEN [served EXCEPT !.route = FALSE] ELSE served
  BY DEF U!Judge
<1>6. /\ verdict \in {"running", "degraded", "unknown", "dead", "stopped"}
      /\ verdict = "dead" => look.available /\ U!Combined = "dead" /\ look.status = "running"
      /\ verdict = "running" => look.available /\ U!Combined = "running" /\ look.status = "running"
      /\ verdict = "stopped" /\ look.status = "sleeping" => U!Parts \cap {"running", "degraded"} = {}
  BY <1>2, <1>5 DEF U!States, U!Expected, U!Combined
<1>7. told' \in Tellings /\ told'.state = verdict /\ (told'.revoked => U!MayRevoke)
  <2>1. U!MayRevoke \in BOOLEAN /\ served.route \in BOOLEAN
    BY <1>2 DEF U!MayRevoke, ReadRows
  <2> QED
    BY <1>5, <1>6, <2>1 DEF Tellings
<1>8. served' \in ReadRows
  BY <1>2, <1>5 DEF ReadRows
<1>9. ReadTyped'
  BY <1>1, <1>3, <1>4, <1>7, <1>8 DEF ReadTyped
<1>10. told'.revoked => ~since.published
  BY <1>1, <1>2, <1>7 DEF TellsOperations, U!MayRevoke, ReadTyped, ReadLooks
<1>11. look.main \in U!Parts /\ (handset => look.emulator \in U!Parts)
  BY DEF U!Parts
<1>12. verdict = "dead" => since.down /\ (handset => since.emulatorDown)
  <2> SUFFICES ASSUME verdict = "dead" PROVE since.down /\ (handset => since.emulatorDown)
    OBVIOUS
  <2>1. U!Parts \cap {"running", "degraded"} = {} /\ "unknown" \notin U!Parts
    BY <1>6 DEF U!Combined
  <2>2. look.main \in {"exited", "missing"} /\ (handset => look.emulator \in {"exited", "missing"})
    BY <1>1, <1>2, <1>6, <1>11, <2>1 DEF ReliesOn, Looked, ReadLooks
  <2> QED
    BY <1>1, <2>2 DEF Found
<1>13. verdict = "running" => since.up
  <2> SUFFICES ASSUME verdict = "running" PROVE since.up
    OBVIOUS
  <2>1. U!Parts = {"running"}
    BY <1>6 DEF U!Combined
  <2> QED
    BY <1>1, <1>11, <2>1 DEF ReliesOn
<1>14. verdict = "stopped" /\ look.status = "sleeping" /\ look.available => since.down \/ since.unanswered
  <2> SUFFICES ASSUME verdict = "stopped", look.status = "sleeping", look.available PROVE since.down \/ since.unanswered
    OBVIOUS
  <2>1. look.main \in {"exited", "missing", "unknown"}
    BY <1>1, <1>2, <1>6, <1>11 DEF ReliesOn, Looked, ReadLooks
  <2> QED
    BY <1>1, <2>1 DEF Found
<1>15. Told'
  BY <1>3, <1>4, <1>7, <1>10, <1>12, <1>13, <1>14 DEF Told, U!NewRouteStays, U!DeadIsProven, U!RunningWasSeen, U!StrayIsTold
<1> QED
  BY <1>4, <1>9, <1>15 DEF ReadInv, SeenSince, TellsOperations

\* A read begins with what is there.
LEMMA SnapshotIs ==
    ASSUME ReadTyped, NEW kind \in {"list", "inspect"}, NEW available \in BOOLEAN, U!Snapshot(kind, available),
           UNCHANGED <<handset, served, real, waiting, latest, mutations>>, hiccups' \in Nat, told' = U!Nothing
    PROVE  ReadInv'
<1> DEFINE next == IF available /\ (U!Expected(served.status) = "running" \/ served.status = "sleeping")
                   THEN "inventory" ELSE "judge"
<1>1. /\ look' = [kind |-> kind, step |-> next, status |-> served.status, locked |-> waiting # <<>>, op |-> latest,
                  available |-> available, anchor |-> "none", main |-> "unchecked", emulator |-> "unchecked"]
      /\ since' = U!Now(real, FALSE)
  BY DEF U!Snapshot, U!NoLook
<1>2. latest \in Nat /\ served.status \in RowStatuses /\ next \in ReadSteps
  BY DEF ReadTyped, ReadRows, ReadSteps
<1>3. next = "judge" => ~(available /\ served.status \in {"running", "sleeping"})
  BY DEF U!Expected
<1>4. next \in {"inventory", "judge"}
  OBVIOUS
<1> HIDE DEF next
<1>5. look' \in ReadLooks
  BY <1>1, <1>2 DEF ReadLooks
<1>6. since' \in Sightings /\ ~since'.published /\ (~U!Up(real) => since'.down) /\ (U!Serves(real) => since'.up)
      /\ (real.emulator # "running" => since'.emulatorDown)
  <2>1. /\ since' = [down |-> ~U!Up(real), up |-> U!Serves(real), emulatorDown |-> real.emulator # "running",
                    published |-> FALSE, unanswered |-> FALSE]
        /\ (~U!Up(real)) \in BOOLEAN /\ U!Serves(real) \in BOOLEAN /\ (real.emulator # "running") \in BOOLEAN
    BY <1>1 DEF U!Now, U!Up, U!Serves
  <2> QED
    BY <2>1 DEF Sightings
<1>7. ReadTyped'
  BY <1>5, <1>6 DEF ReadTyped, Tellings, U!Nothing
<1>8. SeenSince' /\ TellsOperations'
  <2>1. look'.op = latest /\ look'.locked = (waiting # <<>>)
    BY <1>1
  <2>2. TellsOperations'
    <3>1. latest' = latest /\ look'.op <= latest'
      BY <1>2, <2>1
    <3>2. ~(waiting' # <<>> /\ ~look'.locked)
      BY <2>1
    <3>3. ~since'.published
      BY <1>6
    <3> QED
      BY ONLY <3>1, <3>2, <3>3, Zenon DEF TellsOperations
  <2>3. real' = real
    OBVIOUS
  <2>4. SeenSince'
    BY ONLY <1>6, <2>3 DEF SeenSince, U!Up, U!Serves
  <2> QED
    BY <2>2, <2>4
<1>9. Found' /\ ReliesOn' /\ Told'
  BY <1>1, <1>3, <1>4 DEF Found, ReliesOn, Looked, Told, U!Nothing
<1> QED
  BY <1>7, <1>8, <1>9 DEF ReadInv

LEMMA ReadAsk ==
    ASSUME ReadInv, NEW kind \in {"list", "inspect"}, U!Ask(kind)
    PROVE  ReadInv'
<1>1. ReadTyped
  BY DEF ReadInv
<1>2. told' = U!Nothing /\ UNCHANGED <<handset, served, real, waiting, latest, mutations, hiccups>>
  BY DEF U!Ask
<1>3. CASE kind = "inspect"
  BY <1>1, <1>2, <1>3, SnapshotIs DEF U!Ask, ReadTyped
<1>4. CASE kind # "inspect"
  <2>1. look' = [U!NoLook EXCEPT !.kind = kind, !.step = "health"] /\ UNCHANGED since
    BY <1>4 DEF U!Ask
  <2>2. look' \in ReadLooks /\ look'.step = "health" /\ look'.main = "unchecked" /\ look'.emulator = "unchecked"
    BY <2>1 DEF U!NoLook, ReadLooks, ReadSteps
  <2> QED
    BY <1>1, <1>2, <2>1, <2>2 DEF ReadInv, ReadTyped, SeenSince, TellsOperations, Found, ReliesOn, Told, U!Nothing, Tellings
<1> QED
  BY <1>3, <1>4

LEMMA ReadHealth ==
    ASSUME ReadInv, U!Health
    PROVE  ReadInv'
<1>1. ReadTyped /\ told = U!Nothing /\ hiccups \in Nat
  BY DEF ReadInv, Told, U!Health, U!At, ReadTyped
<1>2. UNCHANGED <<handset, served, real, waiting, latest, mutations, told>>
  BY DEF U!Health, U!Quietly, U!Reads
<1>3. PICK available \in BOOLEAN : U!Snapshot("list", available) /\ hiccups' \in {hiccups, hiccups + 1}
  BY DEF U!Health, U!Answers, U!Hiccup
<1> QED
  BY <1>1, <1>2, <1>3, SnapshotIs

LEMMA ReadStutter ==
    ASSUME ReadInv, UNCHANGED U!vars
    PROVE  ReadInv'
BY DEF U!vars, ReadInv, ReadTyped, SeenSince, TellsOperations, Found, ReliesOn, Looked, Told, U!NewRouteStays, U!DeadIsProven,
       U!RunningWasSeen, U!StrayIsTold, U!Nothing, U!Up, U!Serves

LEMMA ReadStep ==
    ASSUME U!RuntimeStatusAssumption, MaxHiccups <= 2, ReadInv, U!Next \/ UNCHANGED U!vars
    PROVE  ReadInv'
BY ReadAdmit, ReadStart, ReadSleep, ReadAsk, ReadHealth, ReadInventory, ReadSecondHealth, ReadTop, ReadWeb, ReadAuthority,
   ReadContainer, ReadEmulator, ReadJudge, ReadDeaths, ReadStutter DEF U!Next

LEMMA ReadKeeps ==
    ASSUME U!RuntimeStatusAssumption, ReadInv
    PROVE  U!TypeOK /\ U!NewRouteStays /\ U!DeadIsProven /\ U!RunningWasSeen /\ U!StrayIsTold
<1>1. U!TypeOK
  BY DEF ReadInv, ReadTyped, U!TypeOK, ReadRows, RowStatuses, ReadBoxes, WebStates, ReadLooks, ReadSteps, Tellings
<1> QED
  BY <1>1 DEF ReadInv, Told, U!Nothing, U!NewRouteStays, U!DeadIsProven, U!RunningWasSeen, U!StrayIsTold

-----------------------------------------------------------------------------
\* No address of the pool is lost or given twice, a Room loses its network to its own
\* deletion or to others, and a call that is alone is refused only when the pool is
\* exhausted (ipam.ts), for any number of Rooms, subnets, calls and faults.
THEOREM AddressesAreKept ==
    ASSUME N!RoomNetworksAssumption
    PROVE  N!Spec => /\ [](N!TypeOK /\ N!ClaimsAreBacked)
                     /\ [][N!RoomKeepsNetwork /\ N!RefusalIsTrue]_(N!vars)
<1>1. N!Init => PoolInv
  BY PoolStarts
<1>2. PoolInv /\ [N!Next]_(N!vars) => PoolInv'
  BY PoolStep
<1>3. PoolInv => N!TypeOK /\ N!ClaimsAreBacked
  BY PoolKeeps
<1>4. PoolInv /\ N!Next => N!RoomKeepsNetwork /\ N!RefusalIsTrue
  BY PoolKeeps
<1> QED
  BY <1>1, <1>2, <1>3, <1>4, PTL DEF N!Spec

\* A read calls a Room dead, running or stray only of what was so since the read began,
\* and takes no route that was made meanwhile (orchestrator.ts, backend/ociCli.ts), for
\* any number of operations, reads and deaths.  The engine gives no answer at most twice
\* (MaxHiccups <= 2; section 6 of the README shows the third).
THEOREM ReadsAreTrue ==
    ASSUME U!RuntimeStatusAssumption, MaxHiccups <= 2
    PROVE  U!Spec => [](U!TypeOK /\ U!NewRouteStays /\ U!DeadIsProven /\ U!RunningWasSeen /\ U!StrayIsTold)
<1>1. U!Init => ReadInv
  BY ReadStarts
<1>2. ReadInv /\ [U!Next]_(U!vars) => ReadInv'
  BY ReadStep
<1>3. ReadInv => U!TypeOK /\ U!NewRouteStays /\ U!DeadIsProven /\ U!RunningWasSeen /\ U!StrayIsTold
  BY ReadKeeps
<1> QED
  BY <1>1, <1>2, <1>3, PTL DEF U!Spec
=============================================================================
