--------------------------- MODULE LocaleRecovery ---------------------------
(***************************************************************************)
(* The locale matrix of one emulator Room: an app's locale is changed from *)
(* capture to capture and must be put back, also by the next start of the  *)
(* application (orchestrator.ts, androidAutomation.ts; the helper that     *)
(* runs a command inside the emulator's network is ociCli.ts).             *)
(*                                                                         *)
(* A locale is a number: the user's own choices are not positive, and n>0  *)
(* is the n-th attempt, which carries DevHotel's ownership marker.         *)
(***************************************************************************)
EXTENDS Integers

CONSTANTS
    Captures,       \* how many locales a matrix visits
    MaxAttempts,    \* bound: attempts that are marked
    MaxStarts,      \* bound: restarts of the application
    Interferes,     \* the user changes the app's locale meanwhile
    Aborts,         \* the screen witness may abort a setter under way
    None

Chosen == {0, -1}

IsMarked(locale) == locale > 0

VARIABLES
    device,     \* the app's locale
    intent,     \* the stored recovery intent, or None
    setter,     \* the setter command that somebody waits for, or None
    stray,      \* setters that run on although nobody waits
    run,        \* how far the matrix or the recovery is
    visited,    \* captures taken by this run
    attempts,   \* attempts so far
    starts,     \* restarts so far
    unseen,     \* history: the user chose since the last look before a setter
    foreign     \* history: the user chose since the claim

work == <<run, visited, attempts>>
history == <<unseen, foreign>>
vars == <<device, intent, setter, stray, work, starts, history>>

-----------------------------------------------------------------------------
(* The intent *)

Stage(original, expected, attempted) ==
    [original |-> original, expected |-> expected, attempted |-> attempted,
     dispatched |-> FALSE, owned |-> FALSE]

\* Mutant: whatever is not the original locale is DevHotel's
MutantAnyOwns(i, locale) == locale # i.original

\* pendingAndroidLocaleOwnsCurrent
Owns(i, locale) ==
    \/ IsMarked(i.expected) /\ locale = i.expected
    \/ /\ i.owned \/ i.dispatched
       /\ IsMarked(i.attempted) /\ locale = i.attempted

\* setIfAbsentWhenKeysAbsent, after the snapshot in the same turn
Claim ==
    /\ run = "idle" /\ intent = None
    /\ attempts < MaxAttempts
    /\ attempts' = attempts + 1
    /\ intent' = Stage(device, device, attempts')
    /\ run' = "staged" /\ visited' = 0
    /\ foreign' = FALSE
    /\ UNCHANGED <<device, setter, stray, starts, unseen>>

\* The next stage is stored before its locale is tried.
Advance ==
    /\ run = "set" /\ visited + 1 < Captures
    /\ device = intent.attempted
    /\ attempts < MaxAttempts
    /\ attempts' = attempts + 1
    /\ intent' = Stage(intent.original, device, attempts')
    /\ visited' = visited + 1
    /\ run' = "staged"
    /\ UNCHANGED <<device, setter, stray, starts, history>>

\* The last capture, or a proof, a capture or a helper that failed
LeaveCaptures ==
    /\ run = "set"
    /\ run' = "restore"
    /\ UNCHANGED <<device, intent, setter, stray, visited, attempts, starts, history>>

-----------------------------------------------------------------------------
(* The setter *)

Dispatched(locale, next) ==
    /\ intent' = [intent EXCEPT !.dispatched = TRUE]
    /\ setter' = locale
    /\ unseen' = FALSE
    /\ run' = next

\* applyAppLocalesAndWait up to its command: the last read must give the
\* expected locale, and the dispatch is recorded in the same turn.
Apply ==
    /\ run = "staged"
    /\ IF device = intent.expected
         THEN Dispatched(intent.attempted, "setting")
         ELSE run' = "idle" /\ UNCHANGED <<intent, setter, unseen>>
    /\ UNCHANGED <<device, stray, visited, attempts, starts, foreign>>

\* restoreAppLocalesFromFence, in the same way
ApplyBack ==
    /\ run = "restaged"
    /\ \/ /\ device = intent.expected /\ device # intent.original
          /\ Dispatched(intent.original, "settingBack")
       \/ /\ device = intent.original
          /\ run' = "proved" /\ UNCHANGED <<intent, setter, unseen>>
       \/ /\ device \notin {intent.expected, intent.original}
          /\ run' = "idle" /\ UNCHANGED <<intent, setter, unseen>>
    /\ UNCHANGED <<device, stray, visited, attempts, starts, foreign>>

\* The locale manager does it.
Lands ==
    /\ setter # None
    /\ device' = setter
    /\ UNCHANGED <<intent, setter, stray, work, starts, history>>

\* An exact acknowledgement: ownership is stored before anything else.
Acknowledged ==
    /\ setter # None /\ device = setter
    /\ setter' = None
    /\ intent' = [intent EXCEPT !.owned = TRUE]
    /\ run' = IF run = "setting" THEN "set" ELSE "proved"
    /\ UNCHANGED <<device, stray, visited, attempts, starts, history>>

\* Refused, not acknowledged, or not ready in time: its command is over.
SetterFails ==
    /\ setter # None
    /\ setter' = None
    /\ run' = IF run = "setting" THEN "restore" ELSE "idle"
    /\ UNCHANGED <<device, intent, stray, visited, attempts, starts, history>>

\* runFencedEmulatorAdb in the resident helper: an abort kills the client of
\* docker exec, and the command inside runs on until its own timeout.
SetterAborted ==
    /\ Aborts
    /\ setter # None
    /\ stray' = stray \cup {setter}
    /\ setter' = None
    /\ run' = IF run = "setting" THEN "restore" ELSE "idle"
    /\ UNCHANGED <<device, intent, visited, attempts, starts, history>>

StrayEnds(locale) ==
    /\ locale \in stray
    /\ stray' = stray \ {locale}
    /\ device' \in {device, locale}
    /\ UNCHANGED <<intent, setter, work, starts, history>>

-----------------------------------------------------------------------------
(* Restoration, by the run itself or by the next start *)

\* The final-state proof and, in its turn, what it decides
Decide ==
    /\ run = "restore"
    /\ \/ /\ device = intent.original
          /\ run' = "proved" /\ intent' = intent
       \/ /\ device # intent.original /\ Owns(intent, device)
          /\ intent' = Stage(intent.original, device, intent.original)
          /\ run' = "restaged"
       \/ /\ device # intent.original /\ ~Owns(intent, device)
          /\ run' = "idle" /\ intent' = intent
    /\ UNCHANGED <<device, setter, stray, visited, attempts, starts, history>>

\* The fresh proof and the release, in one turn
Release ==
    /\ run = "proved"
    /\ intent' = IF device = intent.original THEN None ELSE intent
    /\ run' = "idle"
    /\ UNCHANGED <<device, setter, stray, visited, attempts, starts, history>>

\* The target is gone, does not boot or does not prove: the intent stays.
RestoreFails ==
    /\ run \in {"restore", "restaged", "proved"}
    /\ run' = "idle"
    /\ UNCHANGED <<device, intent, setter, stray, visited, attempts, starts, history>>

\* The operator gives the intent up: nothing of it ever reached the target.
Abandon ==
    /\ run = "idle" /\ intent # None
    /\ ~intent.dispatched /\ ~intent.owned
    /\ device \notin {intent.original, intent.expected, intent.attempted}
    /\ ~IsMarked(device)
    /\ intent' = None
    /\ UNCHANGED <<device, setter, stray, work, starts, history>>

\* The process dies; its setter may have landed.  The next one removes every
\* job container first, and recovers only if that is proved.
Start(absent) ==
    /\ starts < MaxStarts
    /\ starts' = starts + 1
    /\ IF absent
         THEN stray' = {}
         ELSE stray' = IF setter = None THEN stray ELSE stray \cup {setter}
    /\ setter' = None
    /\ run' = IF intent # None /\ absent THEN "restore" ELSE "idle"
    /\ UNCHANGED <<device, intent, visited, attempts, history>>

UserChooses(locale) ==
    /\ Interferes
    /\ device # locale
    /\ device' = locale
    /\ unseen' = TRUE /\ foreign' = TRUE
    /\ UNCHANGED <<intent, setter, stray, work, starts>>

-----------------------------------------------------------------------------
(* The specification *)

Init ==
    /\ device = 0 /\ intent = None /\ setter = None /\ stray = {}
    /\ run = "idle" /\ visited = 0 /\ attempts = 0 /\ starts = 0
    /\ unseen = FALSE /\ foreign = FALSE

Matrix == Claim \/ Advance \/ LeaveCaptures \/ Apply \/ Decide \/ ApplyBack \/ Release
SetterNext == Lands \/ Acknowledged \/ SetterFails \/ SetterAborted

Next ==
    \/ Matrix \/ SetterNext \/ RestoreFails \/ Abandon
    \/ \E locale \in stray : StrayEnds(locale)
    \/ \E absent \in BOOLEAN : Start(absent)
    \/ \E locale \in Chosen : UserChooses(locale)

\* Every step of a run has a deadline.
Fairness == WF_vars(Matrix) /\ WF_vars(SetterFails)

Spec == Init /\ [][Next]_vars /\ Fairness

-----------------------------------------------------------------------------
(* Properties *)

Locales == Chosen \cup 1..MaxAttempts

\* Every variable has its type.
TypeOK ==
    /\ device \in Locales
    /\ intent = None \/ intent \in [original: Locales, expected: Locales, attempted: Locales,
                                    dispatched: BOOLEAN, owned: BOOLEAN]
    /\ setter = None \/ setter \in Locales
    /\ stray \in SUBSET Locales
    /\ run \in {"idle", "staged", "setting", "set", "restore", "restaged", "settingBack", "proved"}
    /\ visited \in 0..Captures /\ attempts \in 0..MaxAttempts /\ starts \in 0..MaxStarts
    /\ unseen \in BOOLEAN /\ foreign \in BOOLEAN

\* The intent goes only when nothing of DevHotel is left on the device, and
\* nothing comes back after it went.
NoMarkLeft == intent = None => ~IsMarked(device)

\* Wherever the process dies, and however often: as long as nobody else
\* touches the locale, the stored intent recognises what it finds.
Recoverable ==
    intent # None /\ ~foreign => device = intent.original \/ Owns(intent, device)

\* DevHotel does not overwrite a locale that the user chose and that it could
\* have seen: only a choice after the last look before the setter is lost.
UserChoiceStays ==
    device' # device /\ ~IsMarked(device) /\ intent # None /\ device # intent.original
      => unseen \/ unseen'

\* A matrix and a recovery come to an end.
RunEnds == run # "idle" ~> run = "idle"
=============================================================================
