------------------------ MODULE ArtifactPublication ------------------------
(***************************************************************************)
(* The publication of one artifact into the workspace of a Room, below     *)
(* RuntimeRecovery: the paused web container, the helper that stages and   *)
(* links the file, the second helper that decides what became of it, the   *)
(* return of the exact web container, and what the next start does about   *)
(* a publication that was cut (ociCli.ts, orchestrator.ts).                *)
(***************************************************************************)
EXTENDS Naturals

CONSTANTS
    MaxLosses,      \* bound: engine calls that fail or lose their answer, and outside hands
    MaxDeaths,      \* bound: deaths of DevHotel
    None

Helpers == {"primary", "finalizer"}

VARIABLES
    stage,      \* the private file in the workspace: none, partial, whole
    dest,       \* the destination: none, ours (a link to the stage), foreign
    source,     \* the file on the Host is the one that was captured
    helper,     \* the two containers that may write
    web,        \* the container under the web's name, or None
    at,         \* how far the operation is
    mode,       \* it is the export itself, or the recovery of a start
    outcome,    \* what the caller was told
    losses, deaths

files == <<stage, dest>>
control == <<at, mode, outcome>>
vars == <<files, source, helper, web, control, losses, deaths>>

-----------------------------------------------------------------------------
(* Helpers *)

Gone == [is |-> "none", step |-> "none", code |-> None]

Has(h) == helper[h].is # "none"

Lossy == losses < MaxLosses /\ losses' = losses + 1

Enters(next) == at' = next /\ UNCHANGED <<mode, outcome>>

Tells(what, next) == outcome' = what /\ at' = next /\ UNCHANGED mode

Is(id, state) == web # None /\ web.id = id /\ web.is \in state

\* assertPausedRoomArtifactWeb; a recovery has stopped every workload instead
Fenced == mode = "recovery" \/ Is("orig", {"paused"})

\* recheckPrivateRoomArtifact: the private file on the Host still has the
\* identity it was captured with; source says so.
Captured == source

Exits(h, code) == helper' = [helper EXCEPT ![h] = [is |-> "exited", step |-> "none", code |-> code]]

Steps(h, next) == helper' = [helper EXCEPT ![h].step = next]

-----------------------------------------------------------------------------
(* The web container is captured by its identity and paused. *)

PauseWeb ==
    /\ at = "idle" /\ Is("orig", {"running"})
    /\ \/ web' = [web EXCEPT !.is = "paused"] /\ Enters("create") /\ UNCHANGED losses
       \/ Lossy /\ web' \in {web, [web EXCEPT !.is = "paused"]} /\ Tells("failed", "restore")
    /\ UNCHANGED <<files, source, helper, deaths>>

-----------------------------------------------------------------------------
(* The primary helper: stage, verify, link, prove. *)

\* Created without being started; a create whose answer is lost is found by name.
CreatePrimary ==
    /\ at = "create"
    /\ IF ~Fenced \/ ~Captured
         THEN Tells("failed", "restore") /\ UNCHANGED <<helper, losses>>
         ELSE \/ /\ helper' = [helper EXCEPT !["primary"].is = "created"]
                 /\ Enters("start") /\ UNCHANGED losses
              \/ /\ Lossy /\ Enters("cleanup")
                 /\ helper' \in {helper, [helper EXCEPT !["primary"].is = "created"]}
    /\ UNCHANGED <<files, source, web, deaths>>

StartPrimary ==
    /\ at = "start"
    /\ IF ~Fenced \/ ~Captured
         THEN Enters("cleanup") /\ UNCHANGED <<helper, losses>>
         ELSE \/ /\ helper' = [helper EXCEPT !["primary"] = [@ EXCEPT !.is = "running", !.step = "stage"]]
                 /\ Enters("attached") /\ UNCHANGED losses
              \/ Lossy /\ Enters("cleanup") /\ UNCHANGED helper
    /\ UNCHANGED <<files, source, web, deaths>>

\* The attached command ends with the helper, or without it.
Detach ==
    /\ at = "attached"
    /\ \/ helper["primary"].is = "exited" /\ UNCHANGED losses
       \/ helper["primary"].is = "running" /\ Lossy
    /\ Enters("cleanup")
    /\ UNCHANGED <<files, source, helper, web, deaths>>

\* The trap of the script removes what the script made, if it still is that.
PrimaryCleans ==
    /\ stage' = "none"
    /\ dest' = IF helper["primary"].step = "proof" /\ dest = "ours" THEN "none" ELSE dest

PrimaryRuns ==
    LET step == helper["primary"].step IN
    /\ helper["primary"].is = "running"
    /\ \/ step = "stage" /\ source /\ stage' = "partial" /\ Steps("primary", "write") /\ UNCHANGED dest
       \/ step = "write" /\ source /\ stage' = "whole" /\ Steps("primary", "link") /\ UNCHANGED dest
       \/ step = "link" /\ dest = "none" /\ dest' = "ours" /\ Steps("primary", "proof") /\ UNCHANGED stage
       \/ step = "proof" /\ source /\ dest = "ours" /\ Exits("primary", "ok") /\ UNCHANGED files
       \/ /\ \/ step # "link" /\ ~source
             \/ step = "link" /\ dest # "none"
             \/ step = "proof" /\ dest # "ours"
          /\ PrimaryCleans /\ Exits("primary", "failed")
    /\ UNCHANGED <<source, web, control, losses, deaths>>

-----------------------------------------------------------------------------
(* The finalizer: the stage is the witness of who made the destination. *)

\* Mutant: a destination without its witness is taken for the publication
MutantVerdict ==
    CASE stage = "partial" -> "incomplete"
      [] stage = "whole" /\ dest = "ours" -> "ours"
      [] stage = "whole" /\ dest = "foreign" -> "exists"
      [] dest # "none" -> "ok"
      [] OTHER -> "absent"

Verdict ==
    CASE stage = "partial" -> "incomplete"
      [] stage = "whole" /\ dest = "ours" -> "ours"
      [] dest # "none" -> "exists"
      [] OTHER -> "absent"

FinalizerCleans ==
    /\ stage' = IF stage = "partial" THEN stage ELSE "none"
    /\ dest' = IF helper["finalizer"].step # "look" /\ dest = "ours" THEN "none" ELSE dest

FinalizerRuns ==
    LET step == helper["finalizer"].step IN
    /\ helper["finalizer"].is = "running"
    /\ \/ /\ step = "look" /\ UNCHANGED dest
          /\ IF Verdict = "ours"
               THEN Steps("finalizer", "drop") /\ UNCHANGED stage
               ELSE /\ stage' = IF stage = "whole" THEN "none" ELSE stage
                    /\ Exits("finalizer", Verdict)
       \/ step = "drop" /\ stage' = "none" /\ Steps("finalizer", "proof") /\ UNCHANGED dest
       \/ /\ step = "proof" /\ UNCHANGED files
          /\ Exits("finalizer", IF dest = "ours" THEN "ok" ELSE "incomplete")
    /\ UNCHANGED <<source, web, control, losses, deaths>>

CreateFinalizer ==
    /\ at = "finalize"
    /\ IF ~Fenced
         THEN Tells("ambiguous", "contain") /\ UNCHANGED <<helper, losses>>
         ELSE \/ /\ helper' = [helper EXCEPT !["finalizer"].is = "created"]
                 /\ Enters("finStart") /\ UNCHANGED losses
              \/ /\ Lossy /\ Enters("finCleanup")
                 /\ helper' \in {helper, [helper EXCEPT !["finalizer"].is = "created"]}
    /\ UNCHANGED <<files, source, web, deaths>>

StartFinalizer ==
    /\ at = "finStart"
    /\ IF ~Fenced
         THEN Enters("finCleanup") /\ UNCHANGED <<helper, losses>>
         ELSE \/ /\ helper' = [helper EXCEPT !["finalizer"] = [@ EXCEPT !.is = "running", !.step = "look"]]
                 /\ Enters("finAttached") /\ UNCHANGED losses
              \/ Lossy /\ Enters("finCleanup") /\ UNCHANGED helper
    /\ UNCHANGED <<files, source, web, deaths>>

\* A lost answer is made up by the exit code of the container, if it has one.
DetachFinalizer ==
    /\ at = "finAttached"
    /\ \/ helper["finalizer"].is = "exited" /\ Enters("finKnown") /\ UNCHANGED losses
       \/ Lossy /\ Enters("finCleanup")
    /\ UNCHANGED <<files, source, helper, web, deaths>>

-----------------------------------------------------------------------------
(* A helper counts as over when its exact container is proven absent. *)

\* It is asked to stop, which its trap may answer, and then killed.
Removed(h) ==
    /\ helper' = [helper EXCEPT ![h] = Gone]
    /\ \/ UNCHANGED files
       \/ h = "primary" /\ helper[h].is = "running" /\ PrimaryCleans
       \/ h = "finalizer" /\ helper[h].is = "running" /\ FinalizerCleans

RemovePrimary ==
    /\ at = "cleanup"
    /\ \/ Removed("primary") /\ Enters("fence") /\ UNCHANGED losses
       \/ /\ Has("primary") /\ Lossy
          /\ Tells("ambiguous", "contain") /\ UNCHANGED <<files, helper>>
    /\ UNCHANGED <<source, web, deaths>>

FenceAfter ==
    /\ at = "fence"
    /\ IF Fenced THEN Enters("finalize") ELSE Tells("ambiguous", "contain")
    /\ UNCHANGED <<files, source, helper, web, losses, deaths>>

\* What the finalizer left behind counts only when it is gone and the web is
\* still the paused one.
Result(code, settled) ==
    CASE ~settled \/ code \in {None, "incomplete"} -> "ambiguous"
      [] code = "ok" -> "committed"
      [] OTHER -> "failed"

RemoveFinalizer ==
    LET code == IF at = "finKnown" THEN helper["finalizer"].code ELSE None
        \* a recovery whose finalizer is not certain keeps the intent
        Settles(settled) ==
            LET r == Result(code, settled) IN
            Tells(r, CASE r = "ambiguous" /\ mode = "recovery" -> "stuck"
                       [] r = "ambiguous" -> "contain"
                       [] mode = "recovery" -> "settled"
                       [] OTHER -> "restore")
    IN
    /\ at \in {"finCleanup", "finKnown"}
    /\ \/ Removed("finalizer") /\ Settles(Fenced) /\ UNCHANGED losses
       \/ Has("finalizer") /\ Lossy /\ Settles(FALSE) /\ UNCHANGED <<files, helper>>
    /\ UNCHANGED <<source, web, deaths>>

-----------------------------------------------------------------------------
(* restoreRoomArtifactWeb: the exact container, or one made for this restore *)

\* What is under the web's name is somebody else's: refused.
Restore ==
    /\ at = "restore"
    /\ \/ /\ Is("orig", {"running"}) /\ Enters("over")
       \/ /\ Is("orig", {"paused"}) /\ Enters("unpause1")
       \/ /\ Is("orig", {"exited"}) /\ Enters("remove")
       \/ /\ web = None /\ Enters("recreate")
       \/ /\ web # None /\ web.id = "other" /\ Enters("contain")
    /\ UNCHANGED <<files, source, helper, web, losses, deaths>>

Unpause ==
    /\ at \in {"unpause1", "unpause2"}
    /\ \/ /\ Is("orig", {"paused"}) /\ web' = [web EXCEPT !.is = "running"]
          /\ Enters("over") /\ UNCHANGED losses
       \/ /\ ~Is("orig", {"paused"}) /\ UNCHANGED <<web, losses>>
          /\ Enters(IF Is("orig", {"running"}) THEN "over" ELSE "remove")
       \/ /\ Lossy /\ UNCHANGED web
          /\ Enters(IF at = "unpause1" THEN "unpause2" ELSE "remove")
    /\ UNCHANGED <<files, source, helper, deaths>>

Removable == web # None /\ web.id = "orig"

Remove ==
    /\ at = "remove"
    /\ \/ /\ Removable /\ web' = None /\ Enters("recreate") /\ UNCHANGED losses
       \/ /\ Removable /\ UNCHANGED web /\ Enters("contain") /\ Lossy
       \/ /\ ~Removable /\ UNCHANGED <<web, losses>>
          /\ Enters(IF web = None THEN "recreate" ELSE "contain")
    /\ UNCHANGED <<files, source, helper, deaths>>

\* The new container carries a token of this restore; one without it is refused.
Recreate ==
    /\ at = "recreate"
    /\ \/ /\ web = None /\ web' = [id |-> "token", is |-> "created"]
          /\ Enters("start1") /\ UNCHANGED losses
       \/ /\ web = None /\ web' \in {None, [id |-> "token", is |-> "created"]}
          /\ Enters("contain") /\ Lossy
       \/ /\ web # None /\ UNCHANGED <<web, losses>> /\ Enters("contain")
    /\ UNCHANGED <<files, source, helper, deaths>>

\* Two attempts, then the token's container is removed again.
StartWeb ==
    /\ at \in {"start1", "start2"}
    /\ \/ /\ Is("token", {"created", "exited"}) /\ web' = [web EXCEPT !.is = "running"]
          /\ Enters("over") /\ UNCHANGED losses
       \/ /\ Is("token", {"created", "exited"}) /\ Lossy
          /\ IF at = "start1" THEN UNCHANGED web /\ Enters("start2")
                              ELSE web' \in {None, web} /\ Enters("contain")
       \/ /\ ~Is("token", {"created", "exited"}) /\ UNCHANGED <<web, losses>>
          /\ Enters(IF Is("token", {"running"}) THEN "over" ELSE "contain")
    /\ UNCHANGED <<files, source, helper, deaths>>

-----------------------------------------------------------------------------
(* Containment, death and the next start *)

\* containArtifactExportRuntime: the intent stays, whatever of this works.
Contain ==
    /\ at = "contain"
    /\ web' = IF web # None /\ web.id # "other" THEN [web EXCEPT !.is = "exited"] ELSE web
    /\ \/ helper' = [h \in Helpers |-> Gone] /\ UNCHANGED losses
       \/ UNCHANGED helper /\ Lossy
    /\ Enters("contained")
    /\ UNCHANGED <<files, source, deaths>>

Die ==
    /\ deaths < MaxDeaths /\ deaths' = deaths + 1
    /\ at \notin {"idle", "over", "settled", "down"}
    /\ at' = "down" /\ mode' = "recovery" /\ outcome' = "none"
    /\ UNCHANGED <<files, source, helper, web, losses>>

MaySettle == \A h \in Helpers : helper'[h] = Gone

\* The jobs are killed and proven absent, and the workloads stopped; without
\* both the intent stays for another start.
Start ==
    /\ at = "down"
    /\ \/ /\ helper' = [h \in Helpers |-> Gone] /\ UNCHANGED losses
       \/ helper' = helper /\ Lossy
    /\ web' = IF web # None /\ web.id # "other" THEN [web EXCEPT !.is = "exited"] ELSE web
    /\ Enters(IF MaySettle /\ (web' = None \/ web'.is = "exited") THEN "finalize" ELSE "stuck")
    /\ UNCHANGED <<files, source, deaths>>

\* The application is closed and started again.
StartAgain ==
    /\ at \in {"stuck", "contained"} /\ deaths < MaxDeaths /\ deaths' = deaths + 1
    /\ at' = "down" /\ mode' = "recovery" /\ outcome' = "none"
    /\ UNCHANGED <<files, source, helper, web, losses>>

-----------------------------------------------------------------------------
(* What happens around it *)

\* The programs of a Room that runs write where the artifact goes.
ProgramWrites ==
    /\ Lossy /\ web # None /\ web.is = "running"
    /\ dest' \in {"none", "foreign"} \ {dest}
    /\ UNCHANGED <<stage, source, helper, web, control, deaths>>

\* Somebody resumes or replaces the container, its program ends, or the file on
\* the Host changes.
Outside ==
    /\ Lossy
    /\ \/ /\ UNCHANGED source
          /\ \/ Is("orig", {"paused"}) /\ web' = [web EXCEPT !.is = "running"]
             \/ web # None /\ web.is = "running" /\ web' = [web EXCEPT !.is = "exited"]
             \/ web' = [id |-> "other", is |-> "running"] /\ ~(web # None /\ web.id = "other")
       \/ source /\ source' = FALSE /\ UNCHANGED web
    /\ UNCHANGED <<files, helper, control, deaths>>

-----------------------------------------------------------------------------
(* The specification *)

Init ==
    /\ stage = "none" /\ dest \in {"none", "foreign"} /\ source = TRUE
    /\ helper = [h \in Helpers |-> Gone]
    /\ web = [id |-> "orig", is |-> "running"]
    /\ at = "idle" /\ mode = "export" /\ outcome = "none"
    /\ losses = 0 /\ deaths = 0

Next == \/ PauseWeb \/ CreatePrimary \/ StartPrimary \/ Detach \/ PrimaryRuns
        \/ CreateFinalizer \/ StartFinalizer \/ DetachFinalizer \/ FinalizerRuns
        \/ RemovePrimary \/ FenceAfter \/ RemoveFinalizer
        \/ Restore \/ Unpause \/ Remove \/ Recreate \/ StartWeb
        \/ Contain \/ Die \/ Start \/ StartAgain \/ ProgramWrites \/ Outside

Spec == Init /\ [][Next]_vars

-----------------------------------------------------------------------------
(* What must hold *)

TypeOK ==
    /\ stage \in {"none", "partial", "whole"} /\ dest \in {"none", "ours", "foreign"}
    /\ source \in BOOLEAN /\ mode \in {"export", "recovery"}
    /\ helper \in [Helpers -> [is : {"none", "created", "running", "exited"},
                               step : {"none", "stage", "write", "link", "look", "drop", "proof"},
                               code : {None, "ok", "failed", "absent", "exists", "incomplete"}]]
    /\ web = None \/ (web.id \in {"orig", "token", "other"} /\ web.is \in {"running", "paused", "exited", "created"})
    /\ outcome \in {"none", "committed", "failed", "ambiguous"}
    /\ losses \in 0 .. MaxLosses /\ deaths \in 0 .. MaxDeaths

\* Whoever is told that the artifact is there finds it there, and whoever is
\* told that it failed finds nothing of it: neither the file nor the stage.
OutcomeIsTrue ==
    mode = "export" /\ outcome' # outcome =>
       /\ outcome' = "committed" => dest' = "ours"
       /\ outcome' = "failed" => dest' # "ours"
       /\ outcome' \in {"committed", "failed"} => stage' = "none"

\* A helper that could still write is there neither when the Room is given back
\* nor when a start forgets the publication, and the two helpers never meet.
NoWriterLeft ==
    /\ at \in {"restore", "over", "settled"} => \A h \in Helpers : ~Has(h)
    /\ ~(helper["primary"].is = "running" /\ helper["finalizer"].is = "running")

\* A publication does not touch a file that was there before it, nor a container
\* that took the web's name.
OthersUntouched ==
    /\ dest = "foreign" /\ dest' # "foreign" => web # None /\ web.is = "running"
    /\ web # None /\ web.id = "other" /\ web' # web => losses' > losses

\* A Room that is given back runs its own container or one made for it.
RestoredIsOwn == at' = "over" /\ at # "over" => web' # None /\ web'.id \in {"orig", "token"}
                                                /\ web'.is = "running"

\* The stage does not outlive a publication that is over.
NoStageLeft == at \in {"over", "settled"} => stage = "none"
=============================================================================
