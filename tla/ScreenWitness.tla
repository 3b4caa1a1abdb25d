----------------------------- MODULE ScreenWitness -----------------------------
(***************************************************************************)
(* An Android screen is read, or tapped, between two private markers in    *)
(* the phone's event log. A reader that started first must show every      *)
(* record between them; whatever else moved on the screen refuses the      *)
(* answer (devices/androidAutomation.ts).                                  *)
(***************************************************************************)
EXTENDS Naturals, Sequences, FiniteSetsExt

CONSTANTS
    Attempts,       \* how often a first marker is written
    Budget,         \* the records that may precede the action
    TapRecords,     \* the records of a tap: its two markers and its own transitions
    MaxNudges,      \* bound: what else happens on the phone
    MaxTroubles,    \* bound: failing commands and deadlines that pass
    None

VARIABLES
    screen,         \* the phone: its user, what is in front, where the text is, the package
    events,         \* the event log of the phone
    reader,         \* the reader: its state, where it began, how many records it showed
    witness,        \* the call: its step, user, first markers, the index of the one that
                    \* was seen, whether its last one was written, and whether it was aborted
    node,           \* what was read of the screen, or None
    input,          \* the tap: whether it was attempted, its code, where it landed
    outcome,        \* what the caller was told, or None
    nudges, troubles

vars == <<screen, events, reader, witness, node, input, outcome, nudges, troubles>>

-----------------------------------------------------------------------------
(* Helpers *)

ActionKinds == {"dump", "tap"}
Screens == [user : {1, 2}, focus : {"app", "other"}, page : {1, 2}, pkg : {1, 2}]
Fences == {"begin", "end", "pad"}

\* The install that is tracked: incarnation 1 of the package, for user 1.
InFront == screen.focus = "app" /\ screen.user = 1
Installed == screen.pkg = 1 /\ screen.user = 1

Transitions == (IF witness.kind = "tap" THEN TapRecords ELSE 2) - 2
Limit == Transitions + 2 + Budget

Shown(n) == SubSeq(events, reader.from + 1, reader.from + n)
Transcript == Shown(reader.got)

\* isAllowedAppTransition
Allowed(r) == r.tag = "own" /\ witness.kind = "tap"

At(pc) == witness.pc = pc /\ outcome = None
Goes(pc) == witness' = [witness EXCEPT !.pc = pc]
Logs(r) == events' = Append(events, r)
Trouble == troubles < MaxTroubles /\ troubles' = troubles + 1

-----------------------------------------------------------------------------
(* The reader and the first marker *)

\* The active user is proved first; the reader is started, and not waited for.
Open ==
    /\ At("open")
    /\ witness' = [witness EXCEPT !.pc = "boot", !.user = screen.user]
    /\ reader' = [reader EXCEPT !.state = "starting"]
    /\ UNCHANGED <<screen, events, node, input, outcome, nudges, troubles>>

\* logcat -T 1: from the newest row on, which may be one of ours.
ReaderStarts ==
    /\ reader.state = "starting" /\ outcome = None
    /\ \E back \in 0 .. Min({1, Len(events)}) :
         reader' = [reader EXCEPT !.state = "live", !.from = Len(events) - back]
    /\ UNCHANGED <<screen, events, witness, node, input, outcome, nudges, troubles>>

\* A first marker is due, and written a while later.
Issue ==
    /\ At("boot") /\ witness.seen = 0 /\ witness.tries < Attempts /\ ~witness.aborted
    /\ witness' = [witness EXCEPT !.pc = "marking", !.tries = @ + 1]
    /\ UNCHANGED <<screen, events, reader, node, input, outcome, nudges, troubles>>

Mark ==
    /\ At("marking")
    /\ Logs([tag |-> "begin", n |-> witness.tries]) /\ Goes("boot")
    /\ UNCHANGED <<screen, reader, node, input, outcome, nudges, troubles>>

\* inspectReadiness, before a marker was seen: the last one in the chunk counts.
Bootstrapped(t) ==
    LET marks == {i \in 1 .. Len(t) : t[i].tag = "begin"}
        after == SubSeq(t, Max(marks) + 1, Len(t))
    IN  IF marks = {}
        THEN witness' = [witness EXCEPT !.aborted = @ \/ Len(t) >= Budget]
        ELSE IF /\ Max(marks) <= Budget
                /\ Len(after) <= Transitions
                /\ \A i \in 1 .. Len(after) : Allowed(after[i])
             THEN witness' = [witness EXCEPT !.seen = Max(marks)]
             ELSE witness' = [witness EXCEPT !.aborted = TRUE]

\* and after: only transitions that are allowed may follow it.
Watched(t) ==
    LET after == SubSeq(t, witness.seen + 1, Len(t))
    IN  witness' = [witness EXCEPT !.aborted =
                      @ \/ Len(after) > Transitions \/ \E i \in 1 .. Len(after) : ~Allowed(after[i])]

\* The reader shows records, several at once perhaps, and ends with the last it may
\* show. It must not end before the closing markers are written.
Deliver ==
    /\ reader.state = "live" /\ ~witness.aborted /\ outcome = None
    /\ \E n \in reader.got + 1 .. Min({Limit, Len(events) - reader.from}) :
         /\ witness.closed => n = Min({Limit, Len(events) - reader.from})
         /\ reader' = [reader EXCEPT !.got = n, !.state = IF n = Limit THEN "done" ELSE "live"]
         /\ IF witness.closed THEN UNCHANGED witness
            ELSE IF n = Limit THEN witness' = [witness EXCEPT !.aborted = TRUE]
            ELSE IF witness.seen = 0 THEN Bootstrapped(Shown(n))
            ELSE Watched(Shown(n))
    /\ UNCHANGED <<screen, events, node, input, outcome, nudges, troubles>>

\* The action begins with the marker in the stream and the user still there.
Ready ==
    /\ At("boot") /\ witness.seen # 0 /\ ~witness.aborted
    /\ IF screen.user = witness.user THEN Goes("read") /\ UNCHANGED outcome
       ELSE outcome' = "error" /\ UNCHANGED witness
    /\ UNCHANGED <<screen, events, reader, node, input, nudges, troubles>>

NotReady ==
    /\ At("boot") /\ witness.seen = 0 /\ witness.tries = Attempts
    /\ outcome' = "error"
    /\ UNCHANGED <<screen, events, reader, witness, node, input, nudges, troubles>>

-----------------------------------------------------------------------------
(* The action: readTrackedUiHierarchy, and for a tap the input after it *)

Acts(pc, next) == At(pc) /\ ~witness.aborted /\ Goes(next)

Read ==
    /\ Acts("read", "front") /\ node' = screen
    /\ UNCHANGED <<screen, events, reader, input, outcome, nudges, troubles>>

Front ==
    /\ InFront /\ Acts("front", "install")
    /\ UNCHANGED <<screen, events, reader, node, input, outcome, nudges, troubles>>

Install ==
    /\ Installed /\ Acts("install", IF witness.kind = "tap" THEN "compare" ELSE "close")
    /\ UNCHANGED <<screen, events, reader, node, input, outcome, nudges, troubles>>

\* The text is where the first dump of the tap saw it.
Compare ==
    /\ Acts("compare", "guard") /\ node.page = witness.first
    /\ input' = [input EXCEPT !.attempted = TRUE]
    /\ UNCHANGED <<screen, events, reader, node, outcome, nudges, troubles>>

\* GUARDED_TAP_SCRIPT: the user is checked before the tap and after it.
Guard ==
    /\ Acts("guard", IF screen.user = 1 THEN "tap" ELSE "postflight")
    /\ input' = [input EXCEPT !.code = IF screen.user = 1 THEN @ ELSE 71]
    /\ UNCHANGED <<screen, events, reader, node, outcome, nudges, troubles>>

Tap ==
    /\ Acts("tap", "tapped") /\ input' = [input EXCEPT !.landed = screen]
    /\ UNCHANGED <<screen, events, reader, node, outcome, nudges, troubles>>

Tapped ==
    /\ Acts("tapped", "postflight")
    /\ input' = [input EXCEPT !.code = IF screen.user = 1 THEN 0 ELSE 71]
    /\ UNCHANGED <<screen, events, reader, node, outcome, nudges, troubles>>

Postflight ==
    /\ Installed /\ Acts("postflight", "close")
    /\ UNCHANGED <<screen, events, reader, node, input, outcome, nudges, troubles>>

\* What a tap is told when something failed after it was attempted.
Spoilt ==
    IF ~input.attempted THEN "error" ELSE IF input.code = 0 THEN "committed" ELSE "indeterminate"

\* A proof that does not hold, a command that fails, an answer that is lost. The last
\* markers are still written, and change nothing of the answer.
ActionFails ==
    /\ \/ At("front") /\ ~InFront /\ UNCHANGED troubles
       \/ (At("install") \/ At("postflight")) /\ ~Installed /\ UNCHANGED troubles
       \/ At("compare") /\ node.page # witness.first /\ UNCHANGED troubles
       \/ /\ \E pc \in {"read", "front", "install", "guard", "tap", "tapped", "postflight"} : At(pc)
          /\ Trouble
    /\ outcome' = Spoilt
    /\ UNCHANGED <<screen, events, reader, witness, node, input, nudges>>

\* The reader saw what it must not see; a deadline passed, or the reader failed.
Abort ==
    /\ outcome = None /\ witness.pc \notin {"open", "settle", "sealed"}
    /\ IF witness.aborted THEN UNCHANGED troubles ELSE Trouble
    /\ outcome' = Spoilt
    /\ UNCHANGED <<screen, events, reader, witness, node, input, nudges>>

-----------------------------------------------------------------------------
(* The last marker, unknown before, and padding until the reader is full *)

End ==
    /\ At("close") /\ ~witness.aborted
    /\ Logs([tag |-> "end", n |-> 0])
    /\ witness' = [witness EXCEPT !.pc = "pad", !.closed = TRUE]
    /\ UNCHANGED <<screen, reader, node, input, outcome, nudges, troubles>>

Pad ==
    /\ At("pad") /\ ~witness.aborted
    /\ events' = events \o [i \in 1 .. Limit - 1 |-> [tag |-> "pad", n |-> i]]
    /\ Goes("full")
    /\ UNCHANGED <<screen, reader, node, input, outcome, nudges, troubles>>

\* exactMarkers and transitionsAllowed
Exact ==
    LET t == Transcript
        last == {i \in 1 .. Len(t) : t[i].tag = "end"}
        to == Max(last)
    IN  /\ Len(t) = Limit /\ last # {}
        /\ to > witness.seen /\ to - witness.seen - 1 <= Transitions
        /\ \A i \in witness.seen + 1 .. to - 1 : t[i].tag \notin Fences /\ Allowed(t[i])
        /\ \A i \in to + 1 .. Len(t) : t[i] = [tag |-> "pad", n |-> i - to]

Judge ==
    /\ At("full") /\ reader.state = "done" /\ ~witness.aborted
    /\ LET held == Exact /\ screen.user = witness.user
       IN  IF ~held THEN outcome' = Spoilt /\ UNCHANGED witness
           ELSE IF witness.kind = "dump" THEN outcome' = "dumped" /\ UNCHANGED witness
           ELSE IF input.code # 0 THEN outcome' = "indeterminate" /\ UNCHANGED witness
           ELSE Goes("settle") /\ UNCHANGED outcome
    /\ UNCHANGED <<screen, events, reader, node, input, nudges, troubles>>

\* A tap is confirmed by the foreground, and last by the install.
Settle ==
    /\ At("settle")
    /\ IF InFront THEN Goes("sealed") /\ UNCHANGED outcome ELSE outcome' = Spoilt /\ UNCHANGED witness
    /\ UNCHANGED <<screen, events, reader, node, input, nudges, troubles>>

Seal ==
    /\ At("sealed")
    /\ outcome' = IF Installed THEN "confirmed" ELSE Spoilt
    /\ UNCHANGED <<screen, events, reader, witness, node, input, nudges, troubles>>

-----------------------------------------------------------------------------
(* What else happens on the phone; what moves inside the application, and an install,
   leave no record. *)

Moves ==
    /\ nudges < MaxNudges /\ nudges' = nudges + 1 /\ outcome = None /\ ~witness.aborted
    /\ \/ screen' = [screen EXCEPT !.user = 3 - @] /\ Logs([tag |-> "switch", n |-> 0])
       \/ screen.focus = "app" /\ screen' = [screen EXCEPT !.focus = "other"] /\ Logs([tag |-> "foreign", n |-> 0])
       \/ screen' = [screen EXCEPT !.focus = "app"] /\ Logs([tag |-> "own", n |-> 0])
       \/ screen' = [screen EXCEPT !.page = 3 - @] /\ UNCHANGED events
       \/ screen.pkg = 1 /\ screen' = [screen EXCEPT !.pkg = 2] /\ UNCHANGED events
    /\ UNCHANGED <<reader, witness, node, input, outcome, troubles>>

-----------------------------------------------------------------------------

\* The last row of the log is of an earlier witness, which the reader may show.
Init ==
    /\ screen = [user |-> 1, focus |-> "app", page |-> 1, pkg |-> 1]
    /\ events = <<[tag |-> "pad", n |-> 1]>>
    /\ reader = [state |-> "off", from |-> 0, got |-> 0]
    /\ \E kind \in ActionKinds :
         witness = [kind |-> kind, pc |-> "open", user |-> 0, tries |-> 0, seen |-> 0,
                    first |-> 1, closed |-> FALSE, aborted |-> FALSE]
    /\ node = None /\ outcome = None
    /\ input = [attempted |-> FALSE, code |-> None, landed |-> None]
    /\ nudges = 0 /\ troubles = 0

Next ==
    \/ Open \/ ReaderStarts \/ Issue \/ Mark \/ Deliver \/ Ready \/ NotReady
    \/ Read \/ Front \/ Install \/ Compare \/ Guard \/ Tap \/ Tapped \/ Postflight
    \/ ActionFails \/ Abort
    \/ End \/ Pad \/ Judge \/ Settle \/ Seal
    \/ Moves

Spec == Init /\ [][Next]_vars

-----------------------------------------------------------------------------
(* Properties *)

\* Every variable has its type.
TypeOK ==
    /\ screen \in Screens
    /\ node \in Screens \cup {None} /\ input.landed \in Screens \cup {None}
    /\ reader.got <= Limit /\ witness.seen <= Len(Transcript)
    /\ outcome \in {None, "error", "dumped", "confirmed", "committed", "indeterminate"}

\* A screen that is returned was the tracked application's, of the tracked install and
\* its user, when it was read; a tap that is confirmed landed on it.
ScreenIsOurs ==
    /\ outcome = "dumped" => node.user = 1 /\ node.focus = "app" /\ node.pkg = 1
    /\ outcome = "confirmed" =>
          input.landed # None /\ input.landed.user = 1 /\ input.landed.focus = "app" /\ input.landed.pkg = 1

\* A tap that is told as failed, so that it may be repeated, touched nothing.
NoBlindRetry == outcome = "error" => input.landed = None
=============================================================================
