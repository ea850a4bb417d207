------------------------------- MODULE Teardown -------------------------------
(***************************************************************************)
(* What `ergane uninstall` takes down (factory/cli/uninstall.py): the      *)
(* schedules and registrations, the unit files of factory/supervision/     *)
(* units.py, the packaged skills of factory/cli/skills.py, the state home  *)
(* and the factory's refs; and the installs that put the files there.  A   *)
(* file is told by the release it was rendered for, or is the operator's.  *)
(* Installs and the one uninstall run at a time, repositories and the      *)
(* operator beside them; a process may die between two of its writes.  The *)
(* engine container's project is EngineProject's.                          *)
(***************************************************************************)
EXTENDS Naturals, FiniteSets

CONSTANTS
    Repo,         \* repositories of this host
    V,            \* number of releases
    MaxTasks      \* bound: installs and uninstalls somebody runs


VARIABLES
    text,         \* what each thing's file says
    record,       \* what its manifest says it says
    manifest,     \* the skills' manifest is there
    known,        \* the repositories on the registry
    ticking,      \* each repository's schedule: none, ticking or paused
    refs,         \* the repositories with branches of ours
    epics,        \* an epic is in flight
    task,         \* the process
    past          \* history, for the properties

tvars == <<text, record, manifest, known, ticking, refs, epics, task, past>>

Release == 1..V
Gone == 0
Changed == V + 1
Things == {"unit", "skill"}
Steps == {"pause", "forget", "units", "skills", "state", "refs"}
TaskOver == {"idle", "done", "stopped", "died"}

Task == [kind : {"none", "install", "uninstall"}, at : {"write", "note"} \cup Steps \cup TaskOver,
         thing : Things, release : Release, wrote : BOOLEAN,
         purge : BOOLEAN, scrub : BOOLEAN,
         repositories : SUBSET Repo, subjects : SUBSET Repo, retained : BOOLEAN, turn : 0..MaxTasks]

TeardownTypeOK ==
    /\ text \in [Things -> Gone..Changed] /\ record \in [Things -> Gone..V] /\ manifest \in BOOLEAN
    /\ known \subseteq Repo /\ ticking \in [Repo -> {"none", "ticking", "paused"}]
    /\ refs \subseteq Repo /\ epics \in BOOLEAN /\ task \in Task
    /\ past \in [loose : SUBSET Things, since : SUBSET Repo, edited : SUBSET Things, evidence : SUBSET Things]

TeardownInit ==
    /\ text = [t \in Things |-> Gone] /\ record = [t \in Things |-> Gone] /\ manifest = FALSE
    /\ known = {} /\ ticking = [r \in Repo |-> "none"] /\ refs = {} /\ epics = FALSE
    /\ task = [kind |-> "none", at |-> "idle", thing |-> "unit", release |-> 1, wrote |-> FALSE,
               purge |-> FALSE, scrub |-> FALSE, repositories |-> {}, subjects |-> {},
               retained |-> FALSE, turn |-> 0]
    \* loose: written by an install that died before recording it; since:
    \* repositories touched since the uninstall began; edited: the operator's
    \* as it began; evidence: of those, the ones the manifest still named.
    /\ past = [loose |-> {}, since |-> {}, edited |-> {}, evidence |-> {}]

OnDisk == <<text, record, manifest>>
Floor == <<known, ticking, refs, epics>>
Now(kind, place) == task.kind = kind /\ task.at = place
GoTo(place) == task' = [task EXCEPT !.at = place]

BeginInstall ==
    /\ task.at \in TaskOver /\ task.turn < MaxTasks
    /\ \E t \in Things, v \in Release :
          task' = [task EXCEPT !.kind = "install", !.at = "write", !.thing = t, !.release = v,
                               !.wrote = FALSE, !.turn = @ + 1]
    /\ UNCHANGED <<OnDisk, Floor, past>>

-----------------------------------------------------------------------------
(* Installing the units, or the skills *)

\* units: there, and not what the manifest says of it.
_is_someone_elses(t) == text[t] # Gone /\ text[t] # record[t]

\* skills: whose the file is, and what may be done about it.
_classify_file ==
    CASE text["skill"] = Gone -> "absent"
      [] record["skill"] # Gone /\ text["skill"] = task.release -> "unchanged-owned"
      [] record["skill"] # Gone /\ text["skill"] = record["skill"] -> "safely-upgradeable-owned"
      [] record["skill"] # Gone /\ text["skill"] \notin {task.release, record["skill"]} -> "modified-owned"
      [] record["skill"] = Gone -> "unowned"

install_unit ==
    /\ Now("install", "write") /\ task.thing = "unit"
    /\ text' = IF _is_someone_elses("unit") THEN text ELSE [text EXCEPT !["unit"] = task.release]
    /\ task' = [task EXCEPT !.at = "note", !.wrote = ~_is_someone_elses("unit")]
    /\ UNCHANGED <<record, manifest, Floor, past>>

\* What was not written loses its record.
record_units ==
    /\ Now("install", "note") /\ task.thing = "unit"
    /\ record' = [record EXCEPT !["unit"] = IF task.wrote THEN task.release ELSE Gone]
    /\ GoTo("done")
    /\ UNCHANGED <<text, manifest, Floor, past>>

install_skill ==
    /\ Now("install", "write") /\ task.thing = "skill"
    /\ text' = IF _classify_file \in {"absent", "safely-upgradeable-owned"}
               THEN [text EXCEPT !["skill"] = task.release] ELSE text
    /\ task' = [task EXCEPT !.at = "note",
                            !.wrote = _classify_file \in {"absent", "safely-upgradeable-owned", "unchanged-owned"}]
    /\ UNCHANGED <<record, manifest, Floor, past>>

\* Variant: only what this install wrote is recorded, and what was there is not
\* read back.
record_skills_afresh ==
    /\ Now("install", "note") /\ task.thing = "skill"
    /\ record' = [record EXCEPT !["skill"] = IF task.wrote /\ record["skill"] # task.release
                                             THEN task.release ELSE Gone]
    /\ manifest' = TRUE
    /\ GoTo("done")
    /\ UNCHANGED <<text, Floor, past>>

\* What was not written keeps the record it had.
record_skills ==
    /\ Now("install", "note") /\ task.thing = "skill"
    /\ record' = [record EXCEPT !["skill"] = IF task.wrote THEN task.release ELSE @]
    /\ manifest' = TRUE
    /\ GoTo("done")
    /\ UNCHANGED <<text, Floor, past>>

-----------------------------------------------------------------------------
(* ergane uninstall *)

\* The repositories are read once, before the second step forgets them.
BeginUninstall ==
    /\ task.at \in TaskOver /\ task.turn < MaxTasks
    /\ \E purge, scrub \in BOOLEAN :
          task' = [task EXCEPT !.kind = "uninstall", !.at = "pause", !.purge = purge, !.scrub = scrub,
                               !.repositories = known, !.subjects = known, !.retained = FALSE, !.turn = @ + 1]
    /\ past' = [past EXCEPT !.since = {}, !.edited = {t \in Things : text[t] = Changed},
                            !.evidence = {t \in Things : text[t] = Changed /\ record[t] # Gone}]
    /\ UNCHANGED <<OnDisk, Floor>>

\* A schedule that ticks is paused; what cannot be read, or is a run nobody's
\* schedule owns, stops the teardown.
_perform_pause ==
    /\ Now("uninstall", "pause")
    /\ \/ \E r \in task.subjects :
             /\ ticking' = [ticking EXCEPT ![r] = IF @ = "ticking" THEN "paused" ELSE @]
             /\ task' = [task EXCEPT !.subjects = @ \ {r}]
       \/ UNCHANGED ticking /\ GoTo("stopped")
       \/ task.subjects = {} /\ UNCHANGED ticking
          /\ task' = [task EXCEPT !.at = "forget", !.subjects = known]
    /\ UNCHANGED <<OnDisk, known, refs, epics, past>>

\* Variant: a schedule that could not be deleted does not stop the forgetting.
_perform_forget_anyway ==
    /\ Now("uninstall", "forget")
    /\ \/ \E r \in task.subjects :
             /\ \E left \in BOOLEAN : ticking' = [ticking EXCEPT ![r] = IF left THEN @ ELSE "none"]
             /\ known' = known \ {r} /\ task' = [task EXCEPT !.subjects = @ \ {r}]
       \/ task.subjects = {} /\ GoTo("units") /\ UNCHANGED <<known, ticking>>
    /\ UNCHANGED <<OnDisk, refs, epics, past>>

\* repo forget for each slug: its schedule, then its entry.
_perform_forget ==
    /\ Now("uninstall", "forget")
    /\ \/ \E r \in task.subjects :
             \/ r \in known /\ ticking' = [ticking EXCEPT ![r] = "none"] /\ known' = known \ {r}
                /\ task' = [task EXCEPT !.subjects = @ \ {r}]
             \/ r \in known /\ ticking' = [ticking EXCEPT ![r] = "none"]   \* the entry could not be dropped
                /\ GoTo("stopped") /\ UNCHANGED known
             \/ GoTo("stopped") /\ UNCHANGED <<known, ticking>>
       \/ task.subjects = {} /\ GoTo("units") /\ UNCHANGED <<known, ticking>>
    /\ UNCHANGED <<OnDisk, refs, epics, past>>

\* An epic known to be in flight refuses; a Temporal that does not answer does
\* not.  The files go first, then the manifest, whatever was kept.
uninstall_units ==
    /\ Now("uninstall", "units")
    /\ \/ text["unit"] = Gone /\ GoTo("skills") /\ UNCHANGED <<text, record>>   \* nothing to do
       \/ text["unit"] # Gone /\ epics /\ GoTo("stopped") /\ UNCHANGED <<text, record>>
       \/ /\ text["unit"] # Gone
          /\ text' = IF _is_someone_elses("unit") THEN text ELSE [text EXCEPT !["unit"] = Gone]
          /\ \/ record' = [record EXCEPT !["unit"] = Gone] /\ GoTo("skills")
             \/ UNCHANGED record /\ GoTo("died")
    /\ UNCHANGED <<manifest, Floor, past>>

_classify_teardown_entry ==
    IF text["skill"] = Gone THEN "already-absent"
    ELSE IF text["skill"] = record["skill"] THEN "unchanged-owned" ELSE "modified-owned"

\* Variant: the plan is told of a manifest to keep only if it has work to do.
survey_skills_teardown_late(preserved) == preserved /\ _classify_teardown_entry = "unchanged-owned"

survey_skills_teardown(preserved) == preserved

\* What is still as recorded goes; what is not is kept, and so is its record.
skills_teardown ==
    /\ Now("uninstall", "skills")
    /\ LET owned == record["skill"] # Gone
           unchanged == owned /\ _classify_teardown_entry = "unchanged-owned"
           preserved == owned /\ _classify_teardown_entry = "modified-owned"
       IN  \/ /\ ~unchanged                                     \* nothing to do
              /\ UNCHANGED <<text, record, manifest>>
              /\ task' = [task EXCEPT !.at = "state", !.retained = survey_skills_teardown(preserved)]
           \/ /\ unchanged
              /\ text' = [text EXCEPT !["skill"] = Gone]
              /\ \/ record' = [record EXCEPT !["skill"] = Gone] /\ manifest' = FALSE /\ GoTo("state")
                 \/ UNCHANGED <<record, manifest>> /\ (GoTo("stopped") \/ GoTo("died"))
    /\ UNCHANGED <<Floor, past>>

\* --purge takes the state home, and the skills' manifest with it unless it is
\* retained.
clear_state ==
    /\ Now("uninstall", "state")
    /\ IF task.purge /\ ~task.retained
       THEN manifest' = FALSE /\ record' = [record EXCEPT !["skill"] = Gone]
       ELSE UNCHANGED <<manifest, record>>
    /\ task' = [task EXCEPT !.at = "refs", !.subjects = IF task.scrub THEN task.repositories \cap refs ELSE {}]
    /\ UNCHANGED <<text, Floor, past>>

\* --scrub-refs; a ref git will not delete is told of and left.
_perform_refs ==
    /\ Now("uninstall", "refs")
    /\ \/ \E r \in task.subjects : /\ task' = [task EXCEPT !.subjects = @ \ {r}]
                                   /\ refs' \in {refs, refs \ {r}}
       \/ task.subjects = {} /\ GoTo("done") /\ UNCHANGED refs
    /\ UNCHANGED <<OnDisk, known, ticking, epics, past>>

-----------------------------------------------------------------------------
(* Death, and the rest of the host *)

\* A process may die anywhere; an install that had written has not recorded.
Dies ==
    /\ task.at \notin TaskOver /\ GoTo("died")
    /\ past' = IF Now("install", "note") /\ task.wrote
               THEN [past EXCEPT !.loose = @ \cup {task.thing}] ELSE past
    /\ UNCHANGED <<OnDisk, Floor>>

\* The operator writes over a file, or removes it.
Edit ==
    /\ \E t \in Things : text[t] # Gone /\ text' \in {[text EXCEPT ![t] = Changed], [text EXCEPT ![t] = Gone]}
    /\ UNCHANGED <<record, manifest, Floor, task, past>>

\* ergane init, roadmap resume, a tick, an epic's end.
Register(r) ==
    /\ r \notin known
    /\ known' = known \cup {r} /\ ticking' = [ticking EXCEPT ![r] = "ticking"]
    /\ past' = [past EXCEPT !.since = @ \cup {r}]
    /\ UNCHANGED <<OnDisk, refs, epics, task>>
Resume(r) ==
    /\ ticking[r] = "paused" /\ ticking' = [ticking EXCEPT ![r] = "ticking"]
    /\ UNCHANGED <<OnDisk, known, refs, epics, task, past>>
Dispatch(r) ==
    /\ ticking[r] = "ticking" /\ epics' = TRUE /\ refs' = refs \cup {r}
    /\ UNCHANGED <<OnDisk, known, ticking, task, past>>
EpicOver ==
    /\ epics /\ epics' = FALSE
    /\ UNCHANGED <<OnDisk, known, ticking, refs, task, past>>

TeardownNext ==
    \/ BeginInstall \/ install_unit \/ record_units \/ install_skill \/ record_skills
    \/ BeginUninstall \/ _perform_pause \/ _perform_forget \/ uninstall_units \/ skills_teardown
    \/ clear_state \/ _perform_refs
    \/ Dies \/ Edit \/ EpicOver
    \/ \E r \in Repo : Register(r) \/ Resume(r) \/ Dispatch(r)

TeardownSpec == TeardownInit /\ [][TeardownNext]_tvars

-----------------------------------------------------------------------------
(* Properties *)

\* An uninstall that says it is done leaves no file of ours, unless an install
\* died over it, and no schedule of a repository that was registered when it
\* began, unless somebody registered that one again.
LeavesNothingOfOurs ==
    Now("uninstall", "done") =>
        /\ \A t \in Things \ past.loose : text[t] \notin Release
        /\ \A r \in task.repositories \ past.since : ticking[r] = "none" /\ r \notin known

\* What the operator had edited when it began is still theirs when it ends, with the record that tells of it: --purge too.
EditsAndTheirRecord ==
    Now("uninstall", "done") =>
        /\ \A t \in past.edited : text[t] \in {Changed, Gone}
        /\ "skill" \in past.evidence /\ text["skill"] = Changed => record["skill"] # Gone /\ manifest
=============================================================================
