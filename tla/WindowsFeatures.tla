---------------------------- MODULE WindowsFeatures ----------------------------
(***************************************************************************)
(* The Windows features the managed runtime needs: one elevated PowerShell *)
(* enables them, a restart of Windows makes them work, and DevHotel, which *)
(* mostly cannot see that a restart is due, remembers it by the identity   *)
(* of the boot (managedRuntimeWindowsFeature.ts).                          *)
(***************************************************************************)
EXTENDS Naturals, FiniteSets

CONSTANTS
    Features,
    MaxCalls,       \* bound: calls of enable()
    MaxBoots,       \* bound: restarts of Windows
    Partial,        \* an elevated child may fail after it enabled some of the features
    Overlaps,       \* the features may be looked at while enable() is under way
    None

VARIABLES
    feature,        \* what Windows has of each feature: off, pending a restart, on
    boot,           \* the identity of the boot
    record,         \* the stored record: a stage and the boot it is about, or None
    answer,         \* the file the elevated child answers in, or None
    elevated,       \* the elevated children: what each has still to enable
    enabling,       \* the call of enable(): what it waits for, and its child
    stageTold,      \* the stage DevHotel told last
    unheard,        \* a child acted in this boot that no call of enable() waited for
    prompts

vars == <<feature, boot, record, answer, elevated, enabling, stageTold, unheard, prompts>>

-----------------------------------------------------------------------------
(* inspect, observe *)

NotEnabling == [at |-> "idle", child |-> 0]

\* Without elevation a feature that waits for a restart reads as enabled.
Shown(f, read) == IF read = "cim" /\ feature[f] = "pending" THEN "on" ELSE feature[f]

MissingFeatures(read) == {f \in Features : Shown(f, read) # "on"}

\* A restart DevHotel earned is due until the boot has another identity.
Unrestarted == record # None /\ record.stage = "awaiting-restart" /\ record.boot = boot

StageOf(read) ==
    IF Unrestarted \/ \E f \in Features : Shown(f, read) = "pending" THEN "awaiting-restart"
    ELSE IF MissingFeatures(read) = {} THEN "completed"
    ELSE IF record # None /\ record.stage \in {"blocked-by-policy", "failed"} THEN record.stage
    ELSE "elevation-required"

Tells(read) ==
    /\ stageTold' = StageOf(read)
    /\ record' = IF StageOf(read) = "completed" /\ record # None
                 THEN [record EXCEPT !.stage = "completed"] ELSE record

Observe(read) ==
    /\ Overlaps \/ enabling.at = "idle"
    /\ Tells(read)
    /\ UNCHANGED <<feature, boot, answer, elevated, enabling, unheard, prompts>>

-----------------------------------------------------------------------------
(* enable *)

\* The prompt stands before the user when the record says so and no old answer is left.
Enable(read) ==
    /\ enabling.at = "idle" /\ prompts < MaxCalls
    /\ IF StageOf(read) \in {"completed", "awaiting-restart"}
       THEN Tells(read) /\ UNCHANGED <<answer, elevated, enabling, prompts>>
       ELSE /\ record' = [stage |-> "elevation-required", boot |-> None]
            /\ answer' = None
            /\ prompts' = prompts + 1
            /\ elevated' = elevated \cup
                 {[id |-> prompts + 1, todo |-> MissingFeatures(read), restart |-> FALSE, asked |-> TRUE]}
            /\ enabling' = [at |-> "child", child |-> prompts + 1]
            /\ UNCHANGED stageTold
    /\ UNCHANGED <<feature, boot, unheard>>

\* fail(): a refusal by policy is not a failed attempt.
FailsWith(policy) ==
    /\ record' = [record EXCEPT !.stage = IF policy THEN "blocked-by-policy" ELSE "failed"]
    /\ enabling' = NotEnabling

Decline(c) ==
    /\ c.asked
    /\ elevated' = elevated \ {c}
    /\ IF c.id = enabling.child THEN FailsWith(FALSE) ELSE UNCHANGED <<record, enabling>>
    /\ UNCHANGED <<feature, boot, answer, stageTold, unheard, prompts>>

Approve(c) ==
    /\ c.asked
    /\ elevated' = (elevated \ {c}) \cup {[c EXCEPT !.asked = FALSE]}
    /\ UNCHANGED <<feature, boot, record, answer, enabling, stageTold, unheard, prompts>>

\* Enable-WindowsOptionalFeature -NoRestart for one of them
EnableOne(c, f) ==
    /\ ~c.asked /\ f \in c.todo
    /\ \E now \in {"pending", "on"} :
         /\ feature' = IF feature[f] = "off" THEN [feature EXCEPT ![f] = now] ELSE feature
         /\ elevated' = (elevated \ {c}) \cup
              {[c EXCEPT !.todo = @ \ {f}, !.restart = @ \/ feature'[f] = "pending"]}
    /\ unheard' = (unheard \/ c.id # enabling.child)
    /\ UNCHANGED <<boot, record, answer, enabling, stageTold, prompts>>

Answers(c) ==
    /\ ~c.asked
    /\ \/ c.todo = {} /\ answer' = [ok |-> TRUE, restart |-> c.restart, policy |-> FALSE]
       \/ /\ c.todo # {} /\ (Partial \/ ~c.restart)
          /\ \E p \in BOOLEAN : answer' = [ok |-> FALSE, restart |-> FALSE, policy |-> p]
    /\ elevated' = elevated \ {c}
    /\ unheard' = (unheard \/ c.id # enabling.child)
    /\ UNCHANGED <<feature, boot, record, enabling, stageTold, prompts>>

\* readResult and what enable() makes of it; a child that leaves no answer failed.
Heard ==
    /\ enabling.at = "child" /\ ~ \E c \in elevated : c.id = enabling.child
    /\ answer' = None
    /\ IF answer # None /\ answer.ok
       THEN enabling' = [enabling EXCEPT !.at = IF answer.restart THEN "restart" ELSE "look"] /\ UNCHANGED record
       ELSE FailsWith(answer # None /\ answer.policy)
    /\ UNCHANGED <<feature, boot, elevated, stageTold, unheard, prompts>>

\* The features are looked at again, and the boot they were enabled in is recorded.
Conclude(read) ==
    /\ enabling.at \in {"restart", "look"}
    /\ record' = [stage |-> IF MissingFeatures(read) = {} /\ enabling.at = "look"
                            THEN "completed" ELSE "awaiting-restart",
                  boot |-> boot]
    /\ enabling' = NotEnabling
    /\ UNCHANGED <<feature, boot, answer, elevated, stageTold, unheard, prompts>>

-----------------------------------------------------------------------------
(* DevHotel dies, or cannot look: the elevated child goes on. Windows restarts. *)

Interrupt ==
    /\ enabling.at # "idle"
    /\ enabling' = NotEnabling
    /\ unheard' = (unheard \/ \E f \in Features : feature[f] = "pending")
    /\ UNCHANGED <<feature, boot, record, answer, elevated, stageTold, prompts>>

RestartWindows ==
    /\ boot < MaxBoots
    /\ boot' = boot + 1
    /\ feature' = [f \in Features |-> IF feature[f] = "pending" THEN "on" ELSE feature[f]]
    /\ elevated' = {} /\ enabling' = NotEnabling /\ unheard' = FALSE
    /\ stageTold' = None
    /\ UNCHANGED <<record, answer, prompts>>

\* Somebody switches a feature off.
SwitchOff(f) ==
    /\ enabling.at = "idle" /\ elevated = {} /\ feature[f] = "on"
    /\ feature' = [feature EXCEPT ![f] = "off"]
    /\ UNCHANGED <<boot, record, answer, elevated, enabling, stageTold, unheard, prompts>>

-----------------------------------------------------------------------------

Init ==
    /\ feature = [f \in Features |-> "off"]
    /\ boot = 0 /\ record = None /\ answer = None /\ elevated = {}
    /\ enabling = NotEnabling /\ stageTold = None /\ unheard = FALSE /\ prompts = 0

Next ==
    \/ \E read \in {"dism", "cim"} : Observe(read) \/ Enable(read) \/ Conclude(read)
    \/ \E c \in elevated : Decline(c) \/ Approve(c) \/ Answers(c) \/ \E f \in Features : EnableOne(c, f)
    \/ Heard \/ Interrupt \/ RestartWindows
    \/ \E f \in Features : SwitchOff(f)

Spec == Init /\ [][Next]_vars

-----------------------------------------------------------------------------
(* Properties *)

\* Every variable has its type.
TypeOK ==
    /\ feature \in [Features -> {"off", "pending", "on"}]
    /\ record # None => record.stage \in {"elevation-required", "awaiting-restart", "completed",
                                          "blocked-by-policy", "failed"}
    /\ enabling.at \in {"idle", "child", "restart", "look"}
    /\ unheard \in BOOLEAN

Due == \E f \in Features : feature[f] = "pending"

\* DevHotel says that the features work only when Windows was restarted for them,
\* however it can look at them, unless it died before it heard of the enablement.
CompletedIsTrue ==
    stageTold' = "completed" /\ stageTold # "completed" => unheard \/ ~Due

\* Nobody is asked for approval again while the restart is due.
NoSecondPrompt == prompts' # prompts => unheard \/ ~Due
=============================================================================
