-------------------------------- MODULE Repos -------------------------------
(***************************************************************************)
(* The repositories an engine knows: `ergane init` (factory/cli/init.py),  *)
(* `repo forget` and `repo rebuild` (factory/cli/repo.py) over the         *)
(* registry (factory/registry.py) and the control plane's roadmap          *)
(* schedules (factory/roadmap/schedule.py).                                *)
(*                                                                         *)
(* Each is a process somebody starts and may interrupt; they share the     *)
(* registry, which changes under a lock and by replacement, the schedules, *)
(* which change by a call of their own, the engine's mounts and the files  *)
(* of a repository.  Repository i's directory is named i, as is its slug   *)
(* unless the operator gives another.                                      *)
(***************************************************************************)
EXTENDS Naturals, FiniteSets

CONSTANTS
    R,           \* number of repositories
    MaxCmds      \* bound: commands somebody runs


VARIABLES
    registry,    \* what each slug is registered for, or 0
    legible,     \* the registry can be read
    schedule,    \* the repository a slug's schedule ticks for, or 0
    files,       \* a repository's manifest
    mounts,      \* the repositories the engine mounts
    epic,        \* the repositories an epic runs in
    evidence,    \* those whose runtime root holds something
    cmd,         \* the commands
    excused      \* history: slugs whose schedule one of the known ways has left

xvars == <<registry, legible, schedule, files, mounts, epic, evidence, cmd, excused>>

Repositories == 1..R
Slugs == 1..R
Cmds == 1..MaxCmds
CmdOver == {"done", "refused", "died"}
Command == [verb : {"none", "init", "forget", "rebuild"}, repo : Repositories, slug : Slugs,
            at : {"start", "slug", "scaffold", "register", "project", "engine", "schedule", "wire",
                  "entry", "unschedule", "unregister", "empty"} \cup CmdOver,
            clean : BOOLEAN, kept : BOOLEAN, gone : BOOLEAN, project : SUBSET Repositories]

ReposTypeOK ==
    /\ registry \in [Slugs -> 0..R] /\ legible \in BOOLEAN /\ schedule \in [Slugs -> 0..R]
    /\ files \in [Repositories -> {"gone", "none", "valid", "torn"}]
    /\ {mounts, epic, evidence} \subseteq SUBSET Repositories
    /\ cmd \in [Cmds -> Command] /\ excused \subseteq Slugs

ReposInit ==
    /\ registry = [s \in Slugs |-> 0] /\ legible = TRUE /\ schedule = [s \in Slugs |-> 0]
    /\ files = [i \in Repositories |-> "none"]
    /\ mounts = {} /\ epic = {} /\ evidence = {} /\ excused = {}
    /\ cmd = [c \in Cmds |-> [verb |-> "none", repo |-> 1, slug |-> 1, at |-> "start",
                              clean |-> FALSE, kept |-> FALSE, gone |-> FALSE, project |-> {}]]

Go(c, place) == cmd' = [cmd EXCEPT ![c].at = place]
Doing(c, verb, place) == cmd[c].verb = verb /\ cmd[c].at = place
Registered == {registry[s] : s \in Slugs} \ {0}
engine == <<schedule, mounts, epic, evidence>>

-----------------------------------------------------------------------------
(* The registry's own operations, each under its lock *)

\* Variant: the entry a repository had before stays.
register_twice(slug, i) == [registry EXCEPT ![slug] = i]

\* A repository declared under another slug moves.
register(slug, i) ==
    [s \in Slugs |-> IF s = slug THEN i ELSE IF registry[s] = i THEN 0 ELSE registry[s]]
SlugCollision(slug, i) == registry[slug] \notin {0, i}

forget(slug) == [registry EXCEPT ![slug] = 0]

\* A seed that is known keeps its slug, a new one takes its directory's, and
\* entries of what is gone are pruned.  What could not be read starts blank.
adopted(seeds, was) == {i \in seeds : \A s \in Slugs : was[s] # i}
rebuilt(seeds) ==
    LET was == IF legible THEN registry ELSE [s \in Slugs |-> 0]
    IN  [s \in Slugs |-> IF s \in adopted(seeds, was) THEN s
                         ELSE IF was[s] # 0 /\ files[was[s]] = "gone" THEN 0 ELSE was[s]]
RebuildRefused(seeds) ==
    \/ \E i \in seeds : files[i] \notin {"valid", "torn"}
    \/ ~legible /\ seeds = {}
    \/ legible /\ \E i \in adopted(seeds, registry) : registry[i] # 0

-----------------------------------------------------------------------------
(* ergane init *)

\* The root is confirmed, and a manifest that is there is read: what cannot be
\* read, or written back, is refused and left.
BeginInit(c) ==
    /\ cmd[c].verb = "none" /\ \A d \in Cmds : d < c => cmd[d].verb # "none"
    /\ \E i \in {i \in Repositories : files[i] # "gone"}, kept \in BOOLEAN :
          /\ kept => files[i] = "valid"
          /\ cmd' = [cmd EXCEPT ![c].verb = "init", ![c].repo = i, ![c].kept = kept,
                                ![c].at = IF files[i] = "torn" THEN "refused" ELSE "slug"]
    /\ UNCHANGED <<registry, legible, files, engine, excused>>

\* The slug the repository is known by, its directory's, or one the operator types.
AskForSlug(c) ==
    /\ Doing(c, "init", "slug")
    /\ IF legible THEN \E s \in Slugs : cmd' = [cmd EXCEPT ![c].at = "scaffold", ![c].slug = s]
       ELSE Go(c, "refused")
    /\ UNCHANGED <<registry, legible, files, engine, excused>>

\* Manifest, ignore line, runtime root, specs and constitution; a manifest that
\* is kept is not written.
WriteScaffold(c) ==
    /\ Doing(c, "init", "scaffold") /\ files[cmd[c].repo] # "gone"
    /\ \/ files' = [files EXCEPT ![cmd[c].repo] = IF cmd[c].kept THEN @ ELSE "valid"] /\ Go(c, "register")
       \/ ~cmd[c].kept /\ files' = [files EXCEPT ![cmd[c].repo] = "torn"] /\ Go(c, "died")
    /\ UNCHANGED <<registry, legible, engine, excused>>

Register(c) ==
    /\ Doing(c, "init", "register")
    /\ IF ~legible \/ SlugCollision(cmd[c].slug, cmd[c].repo)
       THEN Go(c, "refused") /\ UNCHANGED <<registry, excused>>
       ELSE /\ registry' = register(cmd[c].slug, cmd[c].repo) /\ Go(c, "project")
            /\ excused' = excused \cup {s \in Slugs \ {cmd[c].slug} : registry[s] = cmd[c].repo}
    /\ UNCHANGED <<legible, files, engine>>

\* The engine's project names every registered repository, as read; it is
\* written and brought up later.  An engine that fails is told of.
ResolveProject(c) ==
    /\ Doing(c, "init", "project")
    /\ \/ legible /\ cmd' = [cmd EXCEPT ![c].at = "engine", ![c].project = Registered]
       \/ Go(c, "schedule")
    /\ UNCHANGED <<registry, legible, files, engine, excused>>

ReconcileEngine(c) ==
    /\ Doing(c, "init", "engine")
    /\ mounts' \in {mounts, cmd[c].project} /\ Go(c, "schedule")
    /\ UNCHANGED <<registry, legible, schedule, files, epic, evidence, excused>>

\* apply_schedule: created where there is none, reconciled where it is this
\* repository's, refused where it is another's; a control plane that does not
\* answer, and a manifest that does not load, are told of.
Schedule(c) ==
    /\ Doing(c, "init", "schedule") /\ Go(c, "wire")
    /\ LET s == cmd[c].slug
           i == cmd[c].repo
       IN  \/ schedule[s] \in {0, i} /\ (cmd[c].kept \/ files[i] = "valid")
              /\ schedule' = [schedule EXCEPT ![s] = i]
              /\ excused' = IF registry[s] # i THEN excused \cup {s} ELSE excused
           \/ UNCHANGED <<schedule, excused>>
    /\ UNCHANGED <<registry, legible, files, mounts, epic, evidence>>

\* The forge may refuse, with everything else done.
Wire(c) ==
    /\ Doing(c, "init", "wire") /\ (Go(c, "done") \/ Go(c, "refused"))
    /\ UNCHANGED <<registry, legible, files, engine, excused>>

-----------------------------------------------------------------------------
(* repo forget, repo rebuild *)

\* The entry is read; to clean is refused while any epic runs, whose ever.
BeginForget(c) ==
    /\ cmd[c].verb = "none" /\ \A d \in Cmds : d < c => cmd[d].verb # "none"
    /\ \E s \in Slugs, clean \in BOOLEAN :
          LET known == legible /\ registry[s] # 0
          IN  cmd' = [cmd EXCEPT ![c].verb = "forget", ![c].slug = s, ![c].clean = clean,
                                 ![c].repo = IF known THEN registry[s] ELSE 1,
                                 ![c].at = IF known /\ (clean => epic = {}) THEN "unschedule"
                                           ELSE "refused"]
    /\ UNCHANGED <<registry, legible, files, engine, excused>>

\* Variant: a control plane that cannot be reached has nothing to delete.
RemoveSchedule_unanswered(c) ==
    /\ Doing(c, "forget", "unschedule") /\ Go(c, "unregister")
    /\ \/ schedule' = [schedule EXCEPT ![cmd[c].slug] = 0]
       \/ UNCHANGED schedule
    /\ UNCHANGED <<registry, legible, files, mounts, epic, evidence, excused>>

\* The schedule goes first; what cannot be reached cannot be forgotten.
RemoveSchedule(c) ==
    /\ Doing(c, "forget", "unschedule")
    /\ \/ schedule' = [schedule EXCEPT ![cmd[c].slug] = 0]
          /\ cmd' = [cmd EXCEPT ![c].at = "unregister", ![c].gone = TRUE]
       \/ UNCHANGED schedule /\ Go(c, "refused")
    /\ UNCHANGED <<registry, legible, files, mounts, epic, evidence, excused>>

\* The entry of that slug goes, whosever it is by now.
Unregister(c) ==
    /\ Doing(c, "forget", "unregister")
    /\ IF ~legible THEN Go(c, "refused") /\ UNCHANGED <<registry, excused>>
       ELSE /\ registry' = forget(cmd[c].slug)
            /\ Go(c, IF cmd[c].clean THEN "empty" ELSE "done")
            /\ excused' = IF schedule[cmd[c].slug] # 0 /\ cmd[c].gone THEN excused \cup {cmd[c].slug} ELSE excused
    /\ UNCHANGED <<legible, files, engine>>

EmptyRuntimeRoot(c) ==
    /\ Doing(c, "forget", "empty") /\ Go(c, "done")
    /\ evidence' = evidence \ {cmd[c].repo}
    /\ UNCHANGED <<registry, legible, schedule, files, mounts, epic, excused>>

Rebuild(c) ==
    /\ cmd[c].verb = "none" /\ \A d \in Cmds : d < c => cmd[d].verb # "none"
    /\ \E seeds \in SUBSET Repositories :
          LET refused == RebuildRefused(seeds)
          IN  /\ cmd' = [cmd EXCEPT ![c].verb = "rebuild", ![c].at = IF refused THEN "refused" ELSE "done"]
              /\ registry' = IF refused THEN registry ELSE rebuilt(seeds)
              /\ legible' = (legible \/ ~refused)
    /\ excused' = excused \cup {s \in Slugs : registry'[s] # registry[s]}
    /\ UNCHANGED <<files, engine>>

-----------------------------------------------------------------------------
(* The world *)

Interrupted(c) ==
    /\ cmd[c].verb # "none" /\ cmd[c].at \notin CmdOver
    /\ Go(c, "died")
    /\ UNCHANGED <<registry, legible, files, engine, excused>>

ScheduleTicks(s) ==
    /\ schedule[s] # 0 /\ files[schedule[s]] = "valid"
    /\ epic' = epic \cup {schedule[s]} /\ evidence' = evidence \cup {schedule[s]}
    /\ UNCHANGED <<registry, legible, schedule, files, mounts, cmd, excused>>

EpicEnds(i) ==
    /\ i \in epic /\ epic' = epic \ {i}
    /\ UNCHANGED <<registry, legible, schedule, files, mounts, evidence, cmd, excused>>

\* A directory is deleted, a torn manifest mended, the registry spoiled.
RepositoryGoes(i) ==
    /\ files[i] # "gone" /\ i \notin epic /\ files' = [files EXCEPT ![i] = "gone"]
    /\ UNCHANGED <<registry, legible, engine, cmd, excused>>
OperatorMends(i) ==
    /\ files[i] = "torn" /\ files' = [files EXCEPT ![i] = "valid"]
    /\ UNCHANGED <<registry, legible, engine, cmd, excused>>
RegistrySpoils ==
    /\ legible /\ legible' = FALSE
    /\ UNCHANGED <<registry, files, engine, cmd, excused>>

InitSteps(c) == BeginInit(c) \/ AskForSlug(c) \/ WriteScaffold(c) \/ Register(c)
                \/ ResolveProject(c) \/ ReconcileEngine(c) \/ Schedule(c) \/ Wire(c)
ForgetSteps(c) == BeginForget(c) \/ RemoveSchedule(c) \/ Unregister(c) \/ EmptyRuntimeRoot(c)

ReposNext ==
    \/ \E c \in Cmds : InitSteps(c) \/ ForgetSteps(c) \/ Rebuild(c) \/ Interrupted(c)
    \/ \E s \in Slugs : ScheduleTicks(s)
    \/ \E i \in Repositories : EpicEnds(i) \/ RepositoryGoes(i) \/ OperatorMends(i)
    \/ RegistrySpoils

ReposSpec == ReposInit /\ [][ReposNext]_xvars

-----------------------------------------------------------------------------
(* Properties *)

\* "the failure this verb exists to prevent is an orphan": whatever answers,
\* refuses or is interrupted, a schedule ticks for what its slug is registered
\* for, except on a slug that was left, pruned, or forgotten under an init.
TicksForItsEntry ==
    \A s \in Slugs : schedule[s] # 0 /\ registry[s] # schedule[s] => s \in excused

\* A repository has one slug, whichever commands run over each other.
OneSlug == \A s, t \in Slugs : registry[s] # 0 /\ registry[s] = registry[t] => s = t

\* "a schedule with no registry entry dispatches work nobody is watching"
ScheduleIsWatched ==
    (\A c \in Cmds : cmd[c].verb # "none" => cmd[c].verb = "init" /\ cmd[c].at = "done")
        => \A s \in Slugs : schedule[s] # 0 => registry[s] # 0

\* "A running epic's runtime root is evidence in use."
EvidenceIsKept == epic \subseteq evidence
=============================================================================
