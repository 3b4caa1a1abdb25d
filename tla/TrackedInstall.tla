---------------------------- MODULE TrackedInstall ----------------------------
(***************************************************************************)
(* What a Room may drive on a phone: the application it installed itself.  *)
(* A receipt names the installed incarnation of the package and its        *)
(* Android user; every command is between proofs that both are still       *)
(* there, since nothing locks the phone (devices/androidAutomation.ts,     *)
(* installAndRecordAndroidArtifactLocked).                                 *)
(***************************************************************************)
EXTENDS Naturals, Sequences, FiniteSets, SequencesExt

CONSTANTS
    Drives,         \* the kinds of calls that are made
    MaxCalls,       \* bound: calls
    MaxMoves,       \* bound: what others do on the phone
    MaxTroubles,    \* bound: failing commands and deaths of DevHotel
    None

VARIABLES
    app,            \* the phone: its user, the incarnation of the package (0: none), whether
                    \* it is in front, its process (0: none), its locale
    born,           \* incarnations and processes there have been
    lines,          \* the log of the package's uid: who wrote each line, and what
    receipt,        \* the durable receipt: incarnation, user, whether it has a fence
    ask,            \* the call: its kind, where it is, what it expects, what it saw,
                    \* and the incarnations its commands touched
    calls, moves, troubles

vars == <<app, born, lines, receipt, ask, calls, moves, troubles>>

-----------------------------------------------------------------------------
(* The commands of each call, in order *)

\* assertTrackedInstall
Seal == <<"user", "package", "user">>

\* assertLogAuthority
LogSeal == <<"uid">> \o Seal

\* finalAppLocalePulse: one shell, whose commands run one after the other.
Pulse == <<"user", "package", "uid", "locale", "front", "process">>

\* establishInstallEvidence, and confirmInstallEvidence after the receipt was written
Evidence == <<"who", "uid", "fence", "readback", "uid", "package", "user">>
Confirmation == <<"user", "uid", "package", "user">>
InstallCommands == <<"invalidate", "push">> \o Evidence \o <<"record">> \o Confirmation

StatusCommands == Seal \o <<"user", "front">> \o Seal
LaunchCommands == Seal \o <<"resolve">> \o Seal \o <<"start">> \o Seal \o <<"front">> \o Seal
StopCommands == Seal \o <<"kill">> \o Seal \o <<"stopped">> \o Seal \o <<"hidden", "stopped">> \o Seal
LogcatCommands == Seal \o <<"uid", "read">> \o Seal \o LogSeal \o LogSeal
CrashCommands ==
    Seal \o <<"uid", "process">> \o Seal \o <<"crash">> \o Seal \o <<"gone">> \o Seal
         \o <<"uid", "read">> \o Seal \o LogSeal \o LogSeal
SnapshotCommands == Seal \o <<"locale", "front", "uid", "process", "locale">> \o Seal
ProofCommands == Seal \o <<"uid">> \o Pulse \o Pulse

Commands(kind) ==
    CASE kind = "install" -> InstallCommands
      [] kind = "status"  -> StatusCommands
      [] kind = "launch"  -> LaunchCommands
      [] kind = "stop"    -> StopCommands
      [] kind = "logcat"  -> LogcatCommands
      [] kind = "crash"   -> CrashCommands
      [] kind = "seal"    -> SnapshotCommands
      [] kind = "prove"   -> ProofCommands

\* What a final proof may send, and what needs no writer's record.
ProofReads == {"user", "package", "uid", "front", "locale", "process"}
Reads == ProofReads \cup {"read", "readback", "resolve", "stopped", "hidden", "gone", "who"}

-----------------------------------------------------------------------------
(* Helpers *)

NoAsk == [kind |-> None, pc |-> 0, tracked |-> None, answer |-> None, told |-> <<>>,
          locale |-> 0, process |-> 0, fence |-> 0,
          crash |-> FALSE, observed |-> FALSE, touched |-> {}]

Working == ask.kind # None /\ ask.answer = None
Command == Commands(ask.kind)[ask.pc]
At(command) == Working /\ Command = command

Trouble == troubles < MaxTroubles /\ troubles' = troubles + 1

\* The next command, or the answer.
Proceeds(a) ==
    IF a.pc = Len(Commands(a.kind)) THEN [a EXCEPT !.answer = "done"] ELSE [a EXCEPT !.pc = @ + 1]

Touches(a) == [a EXCEPT !.touched = @ \cup {app.inc}]

Fails == ask' = [ask EXCEPT !.answer = "failed"]

\* A line of the application's uid; another incarnation may have the same uid.
Writes(mark) == lines' = Append(lines, [inc |-> app.inc, mark |-> mark])

\* Where the log of a call starts: a mark of the tracked incarnation.
Marks(mark) == {i \in 1 .. Len(lines) : lines[i] = [inc |-> ask.tracked.inc, mark |-> mark]}

-----------------------------------------------------------------------------
(* A call opens a session of its own, under the lock of its Room. *)

Ask(kind) ==
    /\ ~Working /\ calls < MaxCalls /\ calls' = calls + 1
    /\ kind = "install" \/ receipt # None
    /\ ask' = [NoAsk EXCEPT !.kind = kind, !.pc = 1, !.tracked = IF kind = "install" THEN None ELSE receipt]
    /\ UNCHANGED <<app, born, lines, receipt, moves, troubles>>

\* The old receipt goes before the package is touched.
Invalidate ==
    /\ At("invalidate") /\ receipt' = None /\ ask' = Proceeds(ask)
    /\ UNCHANGED <<app, born, lines, calls, moves, troubles>>

Installed == [app EXCEPT !.inc = born + 1, !.front = FALSE, !.process = 0]

Push ==
    /\ At("push") /\ app' = Installed /\ born' = born + 1 /\ ask' = Proceeds(ask)
    /\ UNCHANGED <<lines, receipt, calls, moves, troubles>>

\* establishInstallEvidence: what is there now, for the user that is active, and with
\* the bytes that were pushed (those of another installation differ).
Who ==
    /\ At("who")
    /\ IF app.inc = born /\ app.inc # 0
       THEN ask' = Proceeds([ask EXCEPT !.tracked = [inc |-> app.inc, user |-> app.user, fenced |-> FALSE]])
       ELSE Fails
    /\ UNCHANGED <<app, born, lines, receipt, calls, moves, troubles>>

\* currentUserAuthority
User ==
    /\ At("user")
    /\ IF app.user = ask.tracked.user THEN ask' = Proceeds(ask) ELSE Fails
    /\ UNCHANGED <<app, born, lines, receipt, calls, moves, troubles>>

\* installedPackageIdentity reads one incarnation or none; only what it read revokes
\* the receipt.
Package ==
    /\ At("package")
    /\ IF app.inc = ask.tracked.inc THEN ask' = Proceeds(ask) /\ UNCHANGED receipt
       ELSE Fails /\ receipt' = None
    /\ UNCHANGED <<app, born, lines, calls, moves, troubles>>

\* packageUid
Uid ==
    /\ At("uid")
    /\ IF app.inc # 0 THEN ask' = Proceeds(ask) ELSE Fails
    /\ UNCHANGED <<app, born, lines, receipt, calls, moves, troubles>>

\* The application writes the fence itself; without a proof of it there is none.
Fence ==
    /\ At("fence")
    /\ IF app.inc # 0 THEN Writes("install") ELSE UNCHANGED lines
    /\ ask' = Proceeds(Touches([ask EXCEPT !.fence = Len(lines')]))
    /\ UNCHANGED <<app, born, receipt, calls, moves, troubles>>

Readback ==
    /\ At("readback")
    /\ \E proven \in BOOLEAN :
         /\ proven => ask.fence # 0 /\ lines[ask.fence].mark = "install"
         /\ ask' = Proceeds(Touches([ask EXCEPT !.tracked.fenced = proven]))
    /\ UNCHANGED <<app, born, lines, receipt, calls, moves, troubles>>

Record ==
    /\ At("record") /\ receipt' = ask.tracked /\ ask' = Proceeds(ask)
    /\ UNCHANGED <<app, born, lines, calls, moves, troubles>>

-----------------------------------------------------------------------------
(* Commands that act on the application or read it *)

Foreground ==
    /\ At("front")
    /\ IF app.front /\ app.user = ask.tracked.user THEN ask' = Proceeds(Touches(ask)) ELSE Fails
    /\ UNCHANGED <<app, born, lines, receipt, calls, moves, troubles>>

Hidden ==
    /\ At("hidden")
    /\ IF app.front /\ app.user = ask.tracked.user THEN Fails ELSE ask' = Proceeds(ask)
    /\ UNCHANGED <<app, born, lines, receipt, calls, moves, troubles>>

Resolve ==
    /\ At("resolve") /\ ask' = Proceeds(Touches(ask))
    /\ UNCHANGED <<app, born, lines, receipt, calls, moves, troubles>>

Started == [app EXCEPT !.front = TRUE, !.process = IF @ = 0 THEN born + 1 ELSE @]

Start ==
    /\ At("start")
    /\ IF app.inc # 0 THEN app' = Started /\ born' = born + 1 ELSE UNCHANGED <<app, born>>
    /\ ask' = Proceeds(Touches(ask))
    /\ UNCHANGED <<lines, receipt, calls, moves, troubles>>

Killed == [app EXCEPT !.front = FALSE, !.process = 0]

Kill ==
    /\ At("kill") /\ app' = Killed /\ ask' = Proceeds(Touches(ask))
    /\ UNCHANGED <<born, lines, receipt, calls, moves, troubles>>

Stopped ==
    /\ At("stopped")
    /\ IF app.process = 0 THEN ask' = Proceeds(Touches(ask)) ELSE Fails
    /\ UNCHANGED <<app, born, lines, receipt, calls, moves, troubles>>

Locale ==
    /\ At("locale")
    /\ IF ask.locale \in {0, app.locale} THEN ask' = Proceeds(Touches([ask EXCEPT !.locale = app.locale])) ELSE Fails
    /\ UNCHANGED <<app, born, lines, receipt, calls, moves, troubles>>

Process ==
    /\ At("process")
    /\ IF app.process # 0 /\ ask.process \in {0, app.process}
       THEN ask' = Proceeds(Touches([ask EXCEPT !.process = app.process])) ELSE Fails
    /\ UNCHANGED <<app, born, lines, receipt, calls, moves, troubles>>

\* The application marks the log and is made to crash, soon, unless the command fails.
Crash ==
    /\ At("crash") /\ ask.tracked.fenced
    /\ \E ok \in BOOLEAN, marked \in BOOLEAN :
         /\ ok => marked
         /\ IF marked THEN Writes("crash") ELSE UNCHANGED lines
         /\ app' \in {app} \cup IF ok THEN {Killed} ELSE {}
         /\ ask' = Proceeds(Touches([ask EXCEPT !.crash = ok]))
    /\ UNCHANGED <<born, receipt, calls, moves, troubles>>

\* Polled for a while: a crash is observed when the processes of before are gone.
Gone ==
    /\ At("gone")
    /\ ask' = Proceeds(Touches([ask EXCEPT !.observed = ask.crash /\ app.process # ask.process]))
    /\ UNCHANGED <<app, born, lines, receipt, calls, moves, troubles>>

\* logcat --uid, from the fence of the install, or of the crash, on.
Read ==
    /\ At("read")
    /\ LET fence == Marks(IF ask.kind = "crash" THEN "crash" ELSE "install")
       IN  IF ask.tracked.fenced /\ fence # {}
           THEN ask' = Proceeds(Touches([ask EXCEPT !.told = SubSeq(lines, Max(fence) + 1, Len(lines))]))
           ELSE Fails
    /\ UNCHANGED <<app, born, lines, receipt, calls, moves, troubles>>

-----------------------------------------------------------------------------
(* Failures *)

\* A command fails, or its answer is lost: nothing is known of the package.
CommandFails ==
    /\ Working /\ Command \notin {"invalidate", "record"} /\ Trouble
    /\ Fails
    /\ UNCHANGED <<app, born, lines, receipt, calls, moves>>

\* A failed install takes the receipt it wrote back.
Withdraw ==
    /\ ask.kind = "install" /\ ask.answer = "failed"
    /\ receipt' = None /\ ask' = NoAsk
    /\ UNCHANGED <<app, born, lines, calls, moves, troubles>>

Die ==
    /\ Working /\ Trouble /\ ask' = NoAsk
    /\ UNCHANGED <<app, born, lines, receipt, calls, moves>>

\* Others switch the user, start and stop the application, replace or remove it; it
\* logs, and takes another locale.
Moves ==
    /\ Working /\ moves < MaxMoves /\ moves' = moves + 1
    /\ \/ app' = [app EXCEPT !.user = 3 - @, !.front = FALSE] /\ UNCHANGED <<born, lines>>
       \/ app.inc # 0 /\ app' = Started /\ born' = born + 1 /\ UNCHANGED lines
       \/ app.process # 0 /\ app' = Killed /\ UNCHANGED <<born, lines>>
       \/ app' = Installed /\ born' = born + 1 /\ UNCHANGED lines
       \/ app.inc # 0 /\ app' = [app EXCEPT !.inc = 0, !.front = FALSE, !.process = 0] /\ UNCHANGED <<born, lines>>
       \/ app.inc # 0 /\ Writes("line") /\ UNCHANGED <<app, born>>
       \/ app.inc # 0 /\ app' = [app EXCEPT !.locale = 3 - @] /\ UNCHANGED <<born, lines>>
    /\ UNCHANGED <<receipt, ask, calls, troubles>>

-----------------------------------------------------------------------------

\* An install of this Room may be there, with the receipt of it, and running.
Init ==
    /\ \E there \in BOOLEAN :
         /\ app = [user |-> 1, inc |-> IF there THEN 1 ELSE 0, front |-> there,
                   process |-> IF there THEN 2 ELSE 0, locale |-> 1]
         /\ born = IF there THEN 2 ELSE 0
         /\ lines = IF there THEN <<[inc |-> 1, mark |-> "install"]>> ELSE <<>>
         /\ receipt = IF there THEN [inc |-> 1, user |-> 1, fenced |-> TRUE] ELSE None
    /\ ask = NoAsk /\ calls = 0 /\ moves = 0 /\ troubles = 0

Next ==
    \/ \E kind \in Drives : Ask(kind)
    \/ Invalidate \/ Push \/ Who \/ User \/ Package \/ Uid \/ Fence \/ Readback \/ Record
    \/ Foreground \/ Hidden \/ Resolve \/ Start \/ Kill \/ Stopped \/ Locale \/ Process
    \/ Crash \/ Gone \/ Read
    \/ CommandFails \/ Withdraw \/ Die \/ Moves

Spec == Init /\ [][Next]_vars

-----------------------------------------------------------------------------
(* Properties *)

\* Every variable has its type.
TypeOK ==
    /\ app.user \in {1, 2} /\ app.inc <= born /\ app.process <= born /\ app.locale \in {1, 2}
    /\ Working => ask.pc \in 1 .. Len(Commands(ask.kind))
    /\ ask.answer \in {None, "done", "failed"}

\* What a call answers it read from the incarnation it was to drive, or did to it.
EvidenceIsTracked == ask.answer = "done" => ask.touched \subseteq {ask.tracked.inc}

\* The log that is told is of the tracked incarnation, which shares its uid with others.
LogsAreOurs == ask.answer = "done" => \A i \in 1 .. Len(ask.told) : ask.told[i].inc = ask.tracked.inc

\* A receipt with a fence names the incarnation that wrote the fence.
FenceIsTrue ==
    receipt # None /\ (ask.kind # "install" \/ ask.answer = "done")
    => (receipt.fenced => \E i \in 1 .. Len(lines) : lines[i] = [inc |-> receipt.inc, mark |-> "install"])

\* A crash that is told as observed was asked for: the application marked it, and the
\* process of before is gone; its log starts at the mark.
CrashIsReal ==
    ask.kind = "crash" /\ ask.answer = "done"
    => Marks("crash") # {} /\ (ask.observed => app.process # ask.process)

\* A failing phone takes no receipt: only an install takes it back, or its replacement.
ReceiptStays ==
    receipt # None /\ receipt' = None => ask.kind = "install" \/ app.inc # receipt.inc

\* A command that is sent without a writer's record, or under a proof, changes nothing.
ReadsOnlyRead ==
    Working /\ ask' # ask /\ (Command \in Reads \/ ask.kind = "prove") => UNCHANGED <<app, lines>>
=============================================================================
