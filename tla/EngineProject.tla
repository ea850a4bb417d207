----------------------------- MODULE EngineProject ----------------------------
(***************************************************************************)
(* The engine container's project on disk: written by `ergane install`     *)
(* (factory/supervision/container_manifest.py), retargeted and brought up  *)
(* by `ergane engine upgrade` (factory/supervision/engine_upgrade.py), and *)
(* removed by `ergane uninstall`.  What the engine wrote it knows by the   *)
(* digests of its manifest; a file is told by the version it was rendered  *)
(* for, or is the operator's own.  One command runs at a time, and may die *)
(* between any two of its writes.                                          *)
(***************************************************************************)
EXTENDS Naturals, FiniteSets

CONSTANTS
    V,            \* number of engine releases
    MaxJobs       \* bound: commands somebody runs


VARIABLES
    disk,         \* what each of the project's files says
    digests,      \* what the manifest says it says
    running,      \* the release whose container is up, or none
    identity,     \* the release that last recorded itself as it booted
    images,       \* the releases whose image is on this host
    works,        \* an epic is in flight
    job,          \* the command
    mishap        \* history: the operator edited, or a command died over its writes

xevars == <<disk, digests, running, identity, images, works, job, mishap>>

Releases == 1..V
Nothing == 0
Edited == V + 1
Artifacts == {"compose", "env"}
JobOver == {"idle", "done", "refused", "died"}
Job == [kind : {"none", "install", "upgrade", "uninstall"},
        at : {"write", "record", "drain", "retarget", "commit", "stop", "start", "verify", "down", "remove"}
             \cup JobOver,
        target : Releases, handled : SUBSET Artifacts, fresh : SUBSET Artifacts, before : [Artifacts -> Nothing..Edited],
        previous : Nothing..V, force : BOOLEAN,
        theirs : SUBSET Artifacts,   \* history: edited before the command began
        turn : 0..MaxJobs]

EngineTypeOK ==
    /\ disk \in [Artifacts -> Nothing..Edited] /\ digests \in [Artifacts -> Nothing..V]
    /\ running \in Nothing..V /\ identity \in Nothing..V /\ images \subseteq Releases
    /\ works \in BOOLEAN /\ job \in Job /\ mishap \in BOOLEAN

EngineInit ==
    /\ disk = [a \in Artifacts |-> Nothing] /\ digests = [a \in Artifacts |-> Nothing]
    /\ running = Nothing /\ identity = Nothing /\ images = {} /\ works = FALSE /\ mishap = FALSE
    /\ job = [kind |-> "none", at |-> "idle", target |-> 1, handled |-> {}, fresh |-> {},
              before |-> [a \in Artifacts |-> Nothing], previous |-> Nothing, force |-> FALSE,
              theirs |-> {}, turn |-> 0]

Step(place) == job' = [job EXCEPT !.at = place]
At(kind, place) == job.kind = kind /\ job.at = place
floor == <<running, identity, images, works>>

\* Each command is a process of its own; which release it is of is its package's.
BeginJob ==
    /\ job.at \in JobOver /\ job.turn < MaxJobs
    /\ \E kind \in {"install", "upgrade", "uninstall"}, target \in Releases, force \in BOOLEAN :
          /\ force => kind = "upgrade"
          /\ job' = [job EXCEPT !.kind = kind, !.target = target, !.force = force, !.handled = {}, !.fresh = {},
                                !.theirs = {a \in Artifacts : disk[a] = Edited},
                                !.previous = Nothing, !.turn = @ + 1,
                                !.at = CASE kind = "install" -> "write"
                                         [] kind = "upgrade" -> "drain"
                                         [] kind = "uninstall" -> "down"]
    /\ UNCHANGED <<disk, digests, floor, mishap>>

-----------------------------------------------------------------------------
(* ergane install: write_project, then bring_up_and_verify *)

\* Not ours: it is there, and says what the manifest does not.
_not_provably_ours(a) == disk[a] # Nothing /\ disk[a] # digests[a]

WriteFile ==
    /\ At("install", "write")
    /\ \E a \in Artifacts \ job.handled :
          LET ours == ~_not_provably_ours(a)
              over == job.handled \cup {a} = Artifacts
          IN  /\ disk' = [disk EXCEPT ![a] = IF ours THEN job.target ELSE @]
              /\ job' = [job EXCEPT !.handled = @ \cup {a}, !.fresh = IF ours THEN @ \cup {a} ELSE @,
                                    !.at = IF over THEN "record" ELSE @]
    /\ UNCHANGED <<digests, floor, mishap>>

\* What was left alone loses its record.
write_project ==
    /\ At("install", "record")
    /\ digests' = [a \in Artifacts |-> IF a \in job.fresh THEN job.target ELSE Nothing]
    /\ Step("start")
    /\ UNCHANGED <<disk, floor, mishap>>

\* The container that comes up is the one the file on disk selects; it writes
\* down who it is as it boots, if it gets that far.
UpWith(release) ==
    /\ running' = release /\ images' = images \cup {release}
    /\ identity' \in {identity, release}
Selected == IF disk["compose"] \in Releases THEN {disk["compose"]} ELSE Releases

\* A port that is taken and a compose that fails are refused, with nothing
\* stopped; what does not answer or verify is left running.
bring_up_and_verify ==
    /\ At("install", "start")
    /\ \/ disk["compose"] # Nothing /\ (\E release \in Selected : UpWith(release))
          /\ (Step("done") \/ Step("refused"))
       \/ UNCHANGED <<running, images, identity>> /\ Step("refused")
    /\ UNCHANGED <<disk, digests, works, mishap>>

-----------------------------------------------------------------------------
(* ergane engine upgrade *)

\* An epic in flight is refused without --force, as is a Temporal that does
\* not answer; the identity on record is what may have to be gone back to.
upgrade ==
    /\ At("upgrade", "drain")
    /\ job' = [job EXCEPT !.previous = identity,
                          !.at = IF disk["compose"] = Nothing \/ (works /\ ~job.force) THEN "refused"
                                 ELSE "retarget"]
    /\ UNCHANGED <<disk, digests, floor, mishap>>

\* Variant: a file the manifest claims is ours, whatever it says by now.
Owned_claimed(a) == digests[a] # Nothing /\ disk[a] # Nothing

Owned(a) == digests[a] # Nothing /\ disk[a] = digests[a]

\* Variant: a project that could not be retargeted is told of.
retarget_project_told ==
    /\ At("upgrade", "retarget")
    /\ job' = [job EXCEPT !.before = disk,
                          !.handled = {}, !.fresh = {a \in Artifacts : disk[a] # job.target},
                          !.at = IF \E a \in Artifacts : ~Owned(a) THEN "stop" ELSE "commit"]
    /\ UNCHANGED <<disk, digests, floor, mishap>>

\* Every refusal is before anything is staged.
retarget_project ==
    /\ At("upgrade", "retarget")
    /\ job' = [job EXCEPT !.before = disk,
                          !.handled = {}, !.fresh = {a \in Artifacts : disk[a] # job.target},
                          !.at = IF \E a \in Artifacts : ~Owned(a) THEN "refused"
                                 ELSE IF \A a \in Artifacts : disk[a] = job.target THEN "stop"
                                 ELSE "commit"]
    /\ UNCHANGED <<disk, digests, floor, mishap>>

\* Variant: what was renamed before the failure stays renamed.
RolledBack_partly == disk

RolledBack == [a \in Artifacts |-> IF a \in job.handled THEN job.before[a] ELSE disk[a]]

\* The files are renamed in order, the manifest last; a rename that fails puts
\* back what the files said.
_commit_staged ==
    /\ At("upgrade", "commit")
    /\ \/ \E a \in job.fresh \ job.handled :
             /\ a = "env" => "compose" \notin job.fresh \ job.handled
             /\ disk' = [disk EXCEPT ![a] = job.target]
             /\ job' = [job EXCEPT !.handled = @ \cup {a}]
             /\ UNCHANGED digests
       \/ /\ job.handled = job.fresh /\ Step("stop")
          /\ digests' = [a \in Artifacts |-> job.target]
          /\ UNCHANGED disk
       \/ disk' = RolledBack /\ Step("refused") /\ UNCHANGED digests
    /\ UNCHANGED <<floor, mishap>>

StopEngine ==
    /\ At("upgrade", "stop")
    /\ \/ running' = Nothing /\ Step("start")
       \/ UNCHANGED running /\ Step("refused")
    /\ UNCHANGED <<disk, digests, identity, images, works, mishap>>

StartEngine ==
    /\ At("upgrade", "start")
    /\ \/ \E release \in Selected : UpWith(release) /\ Step("verify")
       \/ UNCHANGED <<running, images, identity>> /\ Step("refused")
    /\ UNCHANGED <<disk, digests, works, mishap>>

\* Variant: only what the upgrade selected is worth keeping.
_retention_decision_target(target, previous) == IF previous = Nothing THEN {} ELSE images \ {target}

\* What is older than the previous release, neither it nor the target.
_retention_decision(target, previous) ==
    IF previous = Nothing THEN {}
    ELSE {image \in images \ {target, previous} : image < previous}

\* Images are looked at only once the engine itself has answered.
Verify ==
    /\ At("upgrade", "verify")
    /\ \/ images' = images \ _retention_decision(job.target, job.previous)
       \/ UNCHANGED images
    /\ Step("done")
    /\ UNCHANGED <<disk, digests, running, identity, works, mishap>>

-----------------------------------------------------------------------------
(* ergane uninstall: the container is taken down, if that can be done, and *)
(* the files go that are provably ours *)

TakeDown ==
    /\ At("uninstall", "down")
    /\ IF \A a \in Artifacts : digests[a] = Nothing THEN Step("done") /\ UNCHANGED running
       ELSE Step("remove") /\ running' \in (IF disk["compose"] = Nothing THEN {running} ELSE {running, Nothing})
    /\ UNCHANGED <<disk, digests, identity, images, works, mishap>>

remove_project ==
    /\ At("uninstall", "remove")
    /\ disk' = [a \in Artifacts |-> IF Owned(a) THEN Nothing ELSE disk[a]]
    /\ digests' = [a \in Artifacts |-> Nothing]
    /\ Step("done")
    /\ UNCHANGED <<floor, mishap>>

-----------------------------------------------------------------------------
(* The world *)

\* A command dies; one that was writing its manifest leaves it torn.
JobDies ==
    /\ job.at \notin JobOver /\ Step("died")
    /\ digests' \in (IF job.at = "record" THEN {digests, [a \in Artifacts |-> Nothing]} ELSE {digests})
    /\ mishap' = (mishap \/ job.at \in {"write", "record", "commit"})
    /\ UNCHANGED <<disk, floor>>

OperatorEdits(a) ==
    /\ disk[a] \in Releases /\ disk' = [disk EXCEPT ![a] = Edited] /\ mishap' = TRUE
    /\ UNCHANGED <<digests, floor, job>>

EpicComesAndGoes ==
    /\ running # Nothing /\ works' = ~works
    /\ UNCHANGED <<disk, digests, running, identity, images, job, mishap>>

EngineNext ==
    \/ BeginJob \/ WriteFile \/ write_project \/ bring_up_and_verify
    \/ upgrade \/ retarget_project \/ _commit_staged \/ StopEngine \/ StartEngine \/ Verify
    \/ TakeDown \/ remove_project \/ JobDies \/ EpicComesAndGoes
    \/ \E a \in Artifacts : OperatorEdits(a)

EngineSpec == EngineInit /\ [][EngineNext]_xevars

-----------------------------------------------------------------------------
(* Properties *)

\* "A later invocation never proceeds on a half-retargeted one": the engine an
\* upgrade starts is the one its project says in both its files, whatever died
\* between two of its renames before, save for what the operator wrote since.
StartsWhole ==
    At("upgrade", "start") => \A a \in Artifacts : disk[a] \in {job.target, Edited}

\* "The prior project stays usable": whatever was refused or failed, the files
\* are the ones the manifest claims, so the next upgrade is not refused for them.
ProjectStaysOurs ==
    job.at \in JobOver /\ ~mishap => disk = digests

\* A file the operator had changed before a command began is as they left it.
EditsAreKept == \A a \in job.theirs : disk[a] = Edited

\* The release that was running before the upgrade can be gone back to.
RollbackIsKept ==
    At("upgrade", "done") /\ job.previous # Nothing => job.previous \in images
=============================================================================
