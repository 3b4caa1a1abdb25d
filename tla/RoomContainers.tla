---------------------------- MODULE RoomContainers ----------------------------
(***************************************************************************)
(* The containers and networks of one Room on the OCI engine: a relay      *)
(* anchor, on Android also a runtime anchor, and the service and the web   *)
(* that join the network namespace of one of them.  An operation of the    *)
(* backend is the sequence of its engine calls; each may fail and leave    *)
(* something behind, a container may die or somebody else may take its     *)
(* name between any two of them, and the app may be restarted.             *)
(***************************************************************************)
EXTENDS Naturals, Sequences, FiniteSets, SequencesExt

CONSTANTS
    Ops,        \* the operations that are asked for
    MaxOps,     \* bound on the number of operations
    MaxFaults   \* bound on deaths, foreign names and app restarts

RoomContainersAssumption ==
    /\ Ops \subseteq {"create", "wake", "stop", "delete", "recreate", "restart", "port",
                      "add", "bounce", "drop"}
    /\ MaxOps \in Nat /\ MaxFaults \in Nat

VARIABLES
    android,    \* the Room has an Android runtime
    want,       \* the settings that the Room's row asks for
    box,        \* role -> container
    nets,       \* the Room's network and the Android control network
    relay,      \* the relay capability that this process holds
    state,      \* the Room's row
    act,        \* the operation under way
    last,       \* how the last operation ended
    moved,      \* since the last wake the authority died or was replaced
    ops, faults

vars == <<android, want, box, nets, relay, state, act, last, moved, ops, faults>>

Anchors == {"anchor", "ranchor"}
Joiners == {"svc", "web"}
Roles == Anchors \cup Joiners
Absent == [own |-> "none", up |-> "exited", link |-> "none", proved |-> FALSE, config |-> 0]
Ours(r) == box[r].own = "ours"
Running(r) == Ours(r) /\ box[r].up \in {"running", "paused"}

\* The container whose network namespace the service and the web join, and
\* whether it is there to be joined.
Authority == IF android THEN "ranchor" ELSE "anchor"
Proof == Ours(Authority) /\ box[Authority].up = "running"

\* link: the namespace that a joiner was created in is the present one (live),
\* was started again since (restarted) or was removed (gone).  A joiner that
\* was started in a restarted namespace needs a stored proof of that start.
Attached(r) == box[r].link = "live" \/ (box[r].link = "restarted" /\ box[r].proved)

NoAct == [op |-> "none", mode |-> "idle", todo |-> <<>>, gaps |-> FALSE]
NoEnd == [op |-> "none", result |-> "none"]

Init ==
    /\ android \in BOOLEAN /\ want = 0 /\ box = [r \in Roles |-> Absent]
    /\ nets = [room |-> "none", control |-> "none"] /\ relay = "none" /\ state = "none"
    /\ act = NoAct /\ last = NoEnd /\ moved = FALSE /\ ops = 0 /\ faults = 0

----------------------------------------------------------------------------
(* The operations.                                                          *)

IfAndroid(s) == IF android THEN s ELSE <<>>
Nets == <<"net">> \o IfAndroid(<<"ctl">>)
WebSteps == <<"proof", "webCreate", "webStart">>
CreateSteps == Nets \o <<"anchorRun">> \o IfAndroid(<<"ranchor">>) \o WebSteps \o <<"port", "keepToken">>
Rollback == <<"dropToken", "rmWeb", "rmRanchor", "rmAnchor">> \o IfAndroid(<<"rmCtl">>) \o <<"rmNet">>
MutantAnchorSteps ==
    Nets \o IfAndroid(<<"ranchor">>) \o <<"rmAnchor", "anchorRun", "port", "keepToken">>
AnchorSteps ==
    <<"dropToken">> \o Nets \o IfAndroid(<<"ranchor">>) \o <<"rmAnchor", "anchorRun", "port", "keepToken">>
RecreateSteps == IfAndroid(<<"ranchor">>) \o <<"rmWebExact">> \o WebSteps
RestartSteps == <<"stopExact", "webStart">>
StopSteps == <<"stopWeb", "stopSvc", "stopRanchor", "stopAnchor", "inventory">>
DeleteSteps == <<"owned", "stopWeb", "stopSvc", "stopRanchor", "stopAnchor", "eraseLeaves", "eraseRanchor",
                 "eraseAnchor", "inventoryGone", "rmNet", "rmCtl", "dropToken">>
AddSteps == <<"svcProof", "svcRun">>
BounceSteps == <<"stopSvcExact", "svcStart">>

\* A wake first tries to start what the Room went to sleep with; when that is
\* refused it replaces the anchor, the service and the web.
ResumeSteps == <<"retained", "startAnchor">> \o IfAndroid(<<"startRanchor">>) \o
               (IF Ours("svc") THEN <<"startSvc">> ELSE <<>>) \o <<"startWeb", "warmPort">>
ColdSteps == AnchorSteps \o (IF Ours("svc") THEN <<"rmSvc">> \o AddSteps ELSE <<>>) \o RecreateSteps

StepsOf(o) ==
    CASE o = "create" -> CreateSteps  [] o = "wake" -> ResumeSteps    [] o = "stop" -> StopSteps
      [] o = "delete" -> DeleteSteps  [] o = "recreate" -> RecreateSteps [] o = "restart" -> RestartSteps
      [] o = "port" -> AnchorSteps \o RecreateSteps
      [] o = "add" -> AddSteps        [] o = "bounce" -> BounceSteps  [] o = "drop" -> <<"rmSvc">>

\* What the operation still does after a step of it failed.
Handler(o, s) ==
    IF o = "create" THEN Rollback
    ELSE CASE s \in {"anchorRun", "port"} -> <<"rmAnchor">>
           [] s \in {"webCreate", "webStart"} /\ o # "restart" -> <<"rmWeb">>
           [] s \in {"svcRun", "svcStart"} -> <<"rmSvc">>
           [] OTHER -> <<>>

\* A warm start that fails half way stops what it started; then the wake goes
\* on with new containers.
Warm == {"retained", "startAnchor", "startRanchor", "startSvc", "startWeb", "warmPort"}
Fallback(s) == (IF s \in {"retained", "startAnchor"} THEN <<>> ELSE StopSteps) \o ColdSteps

\* Steps whose failure is only noted: the inventory after them decides.
Soft(s) == act.mode = "undo" \/ s \in {"stopWeb", "stopSvc", "stopRanchor", "stopAnchor"}

Allowed(o) ==
    CASE o = "create" -> state = "none"
      [] o = "wake" -> state \in {"asleep", "broken"} /\ last.op # "create"
      [] o = "stop" -> state \in {"awake", "broken"}
      [] o = "delete" -> state \in {"asleep", "awake", "broken"}
      [] o \in {"recreate", "restart"} -> state = "awake"
      [] o = "port" -> state = "awake" /\ ~android
      [] o = "add" -> state = "awake" /\ ~Ours("svc")
      [] o \in {"bounce", "drop"} -> state = "awake" /\ Ours("svc")

Begin(o) ==
    /\ act = NoAct /\ ops < MaxOps /\ Allowed(o)
    /\ act' = [op |-> o, mode |-> "do", todo |-> StepsOf(o), gaps |-> FALSE]
    /\ moved' = ((moved /\ o # "wake") \/ o = "port") /\ ops' = ops + 1
    /\ UNCHANGED <<android, want, box, nets, relay, state, last, faults>>

StateAfter(o, result) ==
    CASE o \in {"create", "wake"} -> IF result = "ok" THEN "awake" ELSE "broken"
      [] o = "stop" -> IF result = "ok" THEN "asleep" ELSE "broken"
      [] o = "delete" -> IF result = "ok" THEN "deleted" ELSE "broken"
      [] OTHER -> state

Ends ==
    /\ act # NoAct /\ act.todo = <<>>
    /\ LET result == IF act.mode = "do" THEN "ok" ELSE IF act.gaps THEN "unclean" ELSE "failed" IN
          last' = [op |-> act.op, result |-> result] /\ state' = StateAfter(act.op, result)
    /\ act' = NoAct
    /\ UNCHANGED <<android, want, box, nets, relay, moved, ops, faults>>

----------------------------------------------------------------------------
(* The engine calls.                                                        *)

\* When an authority is removed or started, its joiners are left behind.
Left(b, link) ==
    [r \in Roles |-> IF r \in Joiners /\ b[r].own = "ours" /\ b[r].link # "gone"
                     THEN [b[r] EXCEPT !.link = link, !.proved = FALSE] ELSE b[r]]
Removed(r) == [(IF r = Authority /\ Ours(r) THEN Left(box, "gone") ELSE box) EXCEPT ![r] = Absent]
Started(r) == [(IF r = Authority THEN Left(box, "restarted") ELSE box)
               EXCEPT ![r].up = "running", ![r].proved = (box[r].link = "restarted")]
Stopped(r) == [box EXCEPT ![r].up = "exited"]
New(r, up) == [Absent EXCEPT !.own = "ours", !.up = up, !.config = want,
                             !.link = IF r \in Joiners THEN "live" ELSE "none"]
Lost == IF relay = "none" THEN relay ELSE "other"

Boxes(b) == box' = b /\ UNCHANGED <<nets, relay>>
Erase(R) == box' = [r \in Roles |-> IF r \in R /\ Ours(r) THEN Absent
                                    ELSE IF Authority \in R /\ Ours(Authority) THEN Left(box, "gone")[r]
                                    ELSE box[r]]
            /\ relay' = (IF "anchor" \in R /\ Ours("anchor") THEN Lost ELSE relay) /\ UNCHANGED nets
Same == UNCHANGED <<box, nets, relay>>

\* Nothing is attached to a network that is removed.
Users(n) == IF n = "control" THEN {"anchor"} \cap {r \in Roles : android}
            ELSE IF android THEN {"ranchor"} ELSE {"anchor"}
NetMade(n) == nets[n] # "foreign" /\ nets' = [nets EXCEPT ![n] = "ours"] /\ UNCHANGED <<box, relay>>
NetGone(n) ==
    /\ nets[n] # "foreign" /\ \A r \in Users(n) : ~Ours(r)
    /\ nets' = [nets EXCEPT ![n] = "none"] /\ UNCHANGED <<box, relay>>

\* A removal by name finds nothing, or a container that carries the Room's
\* labels; with an anchor goes what its relay credential opens.
ByName(r) == box[r].own # "foreign" /\ Erase({r})
StopOne(r) == IF Running(r) THEN Boxes(Stopped(r)) ELSE Same

\* Started again only where its own namespace runs; one that runs already must
\* be in it.
Join(r) ==
    /\ Ours(r) /\ Proof /\ box[r].link # "gone" /\ box[r].up # "paused"
    /\ IF Running(r) THEN Attached(r) /\ Same ELSE Boxes(Started(r))

\* The retained containers are what the row asks for: the comparison expects a
\* web that joined its namespace by the anchor's name.
JoinsByName == FALSE
Retained ==
    /\ relay = "this" /\ Ours("anchor") /\ (android => Ours("ranchor")) /\ Ours("web")
    /\ \A r \in Roles : Ours(r) => box[r].up = "exited"
Drift == android \/ ~JoinsByName \/ box["web"].config # want

Call(s) ==
    CASE s = "net" -> NetMade("room")            [] s = "ctl" -> NetMade("control")
      [] s = "rmNet" -> NetGone("room")          [] s = "rmCtl" -> NetGone("control")
      [] s = "anchorRun" -> box["anchor"].own = "none"
                            /\ box' = [box EXCEPT !["anchor"] = New("anchor", "running")]
                            /\ relay' = Lost /\ UNCHANGED nets
      [] s = "ranchor" -> /\ box["ranchor"].own # "foreign" /\ nets.room = "ours"
                          /\ IF Running("ranchor") THEN Same
                             ELSE IF Ours("ranchor") THEN Boxes(Started("ranchor"))
                             ELSE Boxes([box EXCEPT !["ranchor"] = New("ranchor", "running")])
      [] s \in {"proof", "svcProof"} -> Proof /\ Same
      [] s = "webCreate" -> box["web"].own = "none" /\ Boxes([box EXCEPT !["web"] = New("web", "created")])
      [] s = "webStart" -> Join("web")           [] s = "svcStart" -> Join("svc")
      [] s = "svcRun" -> box["svc"].own = "none" /\ Proof /\ Boxes([box EXCEPT !["svc"] = New("svc", "running")])
      [] s \in {"port", "warmPort"} -> Running("anchor") /\ Same
      [] s = "keepToken" -> relay' = "this" /\ UNCHANGED <<box, nets>>
      [] s = "dropToken" -> relay' = "none" /\ UNCHANGED <<box, nets>>
      [] s \in {"rmWeb", "rmWebExact"} -> ByName("web")  [] s = "rmSvc" -> ByName("svc")
      [] s = "rmRanchor" -> ByName("ranchor")    [] s = "rmAnchor" -> ByName("anchor")
      [] s \in {"stopWeb", "stopExact"} -> StopOne("web")
      [] s \in {"stopSvc", "stopSvcExact"} -> StopOne("svc")
      [] s = "stopRanchor" -> StopOne("ranchor") [] s = "stopAnchor" -> StopOne("anchor")
      [] s = "inventory" -> (\A r \in Roles : ~Running(r)) /\ Same
      [] s = "owned" -> "foreign" \notin {nets.room, nets.control} /\ Same
      [] s = "eraseLeaves" -> Erase(Joiners)     [] s = "eraseRanchor" -> Erase({"ranchor"})
      [] s = "eraseAnchor" -> Erase({"anchor"})
      [] s = "inventoryGone" -> (\A r \in Roles : ~Ours(r)) /\ Same
      [] s = "retained" -> Retained /\ ~Drift /\ Same
      [] s = "startAnchor" -> Ours("anchor") /\ Boxes(Started("anchor"))
      [] s = "startRanchor" -> Ours("ranchor") /\ Boxes(Started("ranchor"))
      [] s = "startSvc" -> Ours("svc") /\ Proof /\ Boxes(Started("svc"))
      [] s = "startWeb" -> Ours("web") /\ Proof /\ Boxes(Started("web"))

\* What a call that fails has still done.  A start that cannot be validated
\* removes the container that it started.
Residue(s) ==
    \/ Same
    \/ s \in {"anchorRun", "webCreate", "svcRun"} /\ Call(s)
    \/ s \in {"webStart", "svcStart", "ranchor", "startAnchor", "startRanchor", "startSvc", "startWeb"} /\ Call(s)
    \/ s = "webStart" /\ Ours("web") /\ ByName("web")
    \/ s \in {"rmWeb", "rmSvc", "rmAnchor", "rmRanchor", "eraseLeaves", "eraseRanchor", "eraseAnchor", "rmNet"} /\ Call(s)

StepDone ==
    /\ act.todo # <<>> /\ Call(Head(act.todo))
    /\ act' = [act EXCEPT !.todo = Tail(@)]
    /\ UNCHANGED <<android, want, state, last, moved, ops, faults>>

StepFails ==
    /\ act.todo # <<>>
    /\ LET s == Head(act.todo) IN
          /\ s \notin {"dropToken", "keepToken"}
          /\ Residue(s)
          /\ act' = CASE Soft(s) -> [act EXCEPT !.todo = Tail(@), !.gaps = TRUE]
                      [] ~Soft(s) /\ s \in Warm -> [act EXCEPT !.todo = Fallback(s)]
                      [] OTHER -> [act EXCEPT !.mode = "undo", !.todo = Handler(act.op, s), !.gaps = FALSE]
    /\ UNCHANGED <<android, want, state, last, moved, ops, faults>>

----------------------------------------------------------------------------
(* What happens around the backend.                                         *)

Fault == faults < MaxFaults /\ faults' = faults + 1

Dies(r) ==
    /\ Fault /\ Running(r) /\ box' = Stopped(r) /\ moved' = (moved \/ r = Authority)
    /\ UNCHANGED <<android, want, nets, relay, state, act, last, ops>>

Taken(r) ==
    /\ Fault /\ box[r].own = "none"
    /\ box' = [box EXCEPT ![r] = [Absent EXCEPT !.own = "foreign", !.up = "running"]]
    /\ UNCHANGED <<android, want, nets, relay, state, act, last, moved, ops>>

NetTaken(n) ==
    /\ Fault /\ nets[n] = "none" /\ nets' = [nets EXCEPT ![n] = "foreign"]
    /\ UNCHANGED <<android, want, box, relay, state, act, last, moved, ops>>

\* The next process holds no relay credential; it puts the Room to sleep first.
AppRestarts ==
    /\ Fault /\ relay' = "none" /\ last' = NoEnd
    /\ IF state \in {"none", "deleted"} /\ act = NoAct THEN act' = NoAct /\ UNCHANGED state
       ELSE /\ act' = [op |-> "stop", mode |-> "do", todo |-> StopSteps, gaps |-> FALSE]
            /\ state' = "broken"
    /\ UNCHANGED <<android, want, box, nets, moved, ops>>

\* The record of a sleeping Room is changed; the next wake materialises it.
Reconfigure ==
    /\ act = NoAct /\ state = "asleep" /\ want = 0 /\ want' = 1
    /\ UNCHANGED <<android, box, nets, relay, state, act, last, moved, ops, faults>>

Next ==
    \/ \E o \in Ops : Begin(o)
    \/ StepDone \/ StepFails \/ Ends
    \/ \E r \in Roles : Dies(r) \/ Taken(r)
    \/ \E n \in {"room", "control"} : NetTaken(n)
    \/ AppRestarts \/ Reconfigure

Spec == Init /\ [][Next]_vars

----------------------------------------------------------------------------
\* Every variable has its type.
TypeOK ==
    /\ android \in BOOLEAN /\ want \in 0 .. 1 /\ moved \in BOOLEAN
    /\ box \in [Roles -> [own : {"none", "ours", "foreign"}, up : {"created", "running", "paused", "exited"},
                          link : {"none", "live", "restarted", "gone"}, proved : BOOLEAN, config : 0 .. 1]]
    /\ nets \in [room : {"none", "ours", "foreign"}, control : {"none", "ours", "foreign"}]
    /\ relay \in {"none", "this", "other"}
    /\ state \in {"none", "asleep", "awake", "broken", "deleted"}
    /\ act.mode \in {"idle", "do", "undo"} /\ act.gaps \in BOOLEAN
    /\ last.result \in {"none", "ok", "failed", "unclean"}
    /\ ops \in 0 .. MaxOps /\ faults \in 0 .. MaxFaults

Over(o, result) == act = NoAct /\ last = [op |-> o, result |-> result]

\* A creation that fails and cleans up leaves no container and no network, a
\* deletion that succeeds neither, and a stop that succeeds nothing that runs.
NothingLeftOver ==
    /\ Over("create", "failed") \/ Over("delete", "ok")
       => (\A r \in Roles : ~Ours(r)) /\ "ours" \notin {nets.room, nets.control}
    /\ Over("stop", "ok") => \A r \in Roles : ~Running(r)

\* The relay credential that the gateway is given opens the present anchor.
RelayOpensAnchor == act = NoAct /\ relay = "other" => ~Ours("anchor")

\* An operation that started the web left it in the namespace of the present
\* authority; so is the service of an awake Room, unless the authority died or
\* was replaced since the last wake.
SharedNamespace ==
    /\ act = NoAct /\ last.result = "ok" /\ last.op \in {"create", "wake", "recreate", "restart", "port"}
       /\ Running("web") => Attached("web")
    /\ act = NoAct /\ state = "awake" /\ ~moved /\ Running("svc") => Attached("svc")

\* The programs of a Room reach its service at localhost, also after the anchor
\* was replaced: every service that runs was recreated in its namespace.
ServicesShareWeb ==
    act = NoAct /\ last = [op |-> "port", result |-> "ok"] /\ faults = 0 /\ Running("web")
    /\ Running("svc") => Attached("svc")

\* A Room that went to sleep cleanly and whose record is unchanged is started
\* in place, not recreated.
WakesWarm ==
    act.op = "wake" /\ act.todo # <<>> /\ Head(act.todo) = "retained"
    /\ Retained /\ box["web"].config = want /\ ~android => ~Drift

\* A container or network that is not the Room's is never stopped or removed.
ForeignUntouched ==
    /\ \A r \in Roles : box[r].own = "foreign" => box'[r] = box[r]
    /\ \A n \in {"room", "control"} : nets[n] = "foreign" => nets'[n] = "foreign"

\* A stop takes an authority down only after its joiners, unless a stop failed.
LeavesFirst ==
    Running(Authority) /\ box'[Authority].up = "exited" /\ act.op \in {"stop", "delete"}
    /\ faults' = faults => act.gaps \/ \A r \in Joiners : ~Running(r)
=============================================================================
