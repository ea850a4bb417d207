------------------------------ MODULE Onboarding -----------------------------
(***************************************************************************)
(* Making a repository fit to land on, and judging whether it is:          *)
(* `ergane init --wire` (factory/mergequeue/wiring.py) changes the forge   *)
(* one call at a time, onboarding (onboard.py, onboard_target_repo) reads  *)
(* it one call at a time, and people change it meanwhile.                  *)
(***************************************************************************)
EXTENDS Naturals, FiniteSets

CONSTANTS
    Gates,       \* what a manifest may declare
    Checks,      \* what a branch may be made to require: the gates, and others
    Branches,
    MaxChanges   \* bound: what people change of the manifest and of the forge

VARIABLES
    gh,          \* the GitHub CLI here
    repo,        \* the repository on the forge
    manifest,    \* what it declares
    ci,          \* the workflow files of the checkout
    step,        \* where the command is
    said,        \* what it has had to tell the operator so far
    reading,     \* what onboarding has read so far
    profile,     \* what the command concluded
    changes,     \* how often people changed something
    wired,       \* history: the last wiring asked nothing of anyone, and nothing moved since
    steady       \* history: nothing moved since the command began

gvars == <<gh, repo, manifest, ci, step, said, reading, profile, changes, wired, steady>>

NoRuleset == [branch |-> "none", checks |-> {}]
Rulesets == [branch : Branches, checks : SUBSET Checks] \cup {NoRuleset}
Repo == [is_in_organization : BOOLEAN, public : BOOLEAN, default_branch : Branches,
         title : BOOLEAN, auto_merge : BOOLEAN, ruleset : Rulesets,
         others : SUBSET Checks, classic : SUBSET Checks]
Manifest == [valid : BOOLEAN, landing_branch : Branches, gates : SUBSET Gates, boundary_only : SUBSET Gates]
Reading == [default_branch : Branches, public : BOOLEAN, title : BOOLEAN, gated : BOOLEAN, checks : SUBSET Checks]
Steps == {"idle", "auth", "view", "title", "auto_merge", "queue", "describe", "policy", "judge"}
Unread == [default_branch |-> CHOOSE b \in Branches : TRUE, public |-> FALSE, title |-> FALSE,
           gated |-> FALSE, checks |-> {}]

OnboardTypeOK ==
    /\ gh \in {"capable", "unauthenticated", "absent"} /\ repo \in Repo /\ manifest \in Manifest
    /\ ci \in [written : BOOLEAN, covers : SUBSET Gates]
    /\ step \in Steps /\ said \subseteq {"ATTENTION", "refused"} /\ reading \in Reading
    /\ profile \in {"none", "passed", "failed"} /\ changes \in 0..MaxChanges
    /\ wired \in BOOLEAN /\ steady \in BOOLEAN

OnboardInit ==
    /\ gh \in {"capable", "unauthenticated", "absent"}
    /\ repo \in [is_in_organization : BOOLEAN, public : BOOLEAN, default_branch : Branches,
                 title : BOOLEAN, auto_merge : {FALSE}, ruleset : {NoRuleset},
                 others : {{}} \cup {{c} : c \in Checks}, classic : {{}}]
    /\ manifest \in {m \in Manifest : m.valid /\ m.boundary_only \subseteq m.gates}
    /\ ci \in [written : {FALSE}, covers : {{}, manifest.gates}]
    /\ step = "idle" /\ said = {} /\ reading = Unread /\ profile = "none"
    /\ changes = 0 /\ wired = FALSE /\ steady = FALSE

-----------------------------------------------------------------------------
(* People *)

Change ==
    /\ changes < MaxChanges /\ changes' = changes + 1
    /\ \/ /\ \E b \in Branches, cs \in {{}} \cup {{c} : c \in Checks} :
               repo' \in {[repo EXCEPT !.default_branch = b], [repo EXCEPT !.others = cs],
                          [repo EXCEPT !.title = FALSE], [repo EXCEPT !.public = FALSE],
                          [repo EXCEPT !.ruleset = NoRuleset], [repo EXCEPT !.classic = cs]}
          /\ UNCHANGED manifest
       \/ step = "idle" /\ manifest' \in {[manifest EXCEPT !.valid = FALSE],
                       [manifest EXCEPT !.gates = Gates], [manifest EXCEPT !.boundary_only = {}]}
          /\ UNCHANGED repo
    /\ wired' = FALSE /\ steady' = FALSE
    /\ UNCHANGED <<gh, ci, step, said, reading, profile>>

-----------------------------------------------------------------------------
(* `ergane init --wire` *)

ours == <<gh, manifest, profile, changes, steady>>

\* A workflow that is there is left as it is, for the operator to mend; one is
\* written only where no job anywhere goes by a gate's name.
scaffold_gates_workflow ==
    /\ step = "idle" /\ manifest.valid
    /\ \/ /\ ci.written
          /\ said' = (IF manifest.gates \subseteq ci.covers THEN {} ELSE {"ATTENTION"}) /\ UNCHANGED ci
       \/ /\ ~ci.written /\ said' = {}
          /\ ci' = IF manifest.gates # {} /\ manifest.gates \subseteq ci.covers THEN ci
                   ELSE [written |-> TRUE, covers |-> ci.covers \cup manifest.gates]
    /\ step' = "auth" /\ wired' = FALSE /\ steady' = TRUE /\ profile' = "none" /\ reading' = Unread
    /\ UNCHANGED <<gh, repo, manifest, changes>>

Refused == step' = "idle" /\ said' = said \cup {"refused"} /\ UNCHANGED repo
repository_can_host_merge_queue == repo.is_in_organization /\ repo.public
WireStep(now, next) ==
    /\ step = now /\ (step' = next \/ step' = "idle") /\ wired' = FALSE /\ UNCHANGED <<ci, ours>>

_require_gh ==
    /\ WireStep("auth", "view")
    /\ IF gh = "capable" THEN step' = "view" /\ UNCHANGED <<repo, said>> ELSE Refused
    /\ UNCHANGED reading

\* The one look at the repository: what it is, and its default branch.
_require_eligible ==
    /\ WireStep("view", "title")
    /\ \/ /\ repository_can_host_merge_queue /\ step' = "title" /\ UNCHANGED <<repo, said>>
          /\ reading' = [reading EXCEPT !.default_branch = repo.default_branch]
       \/ Refused /\ UNCHANGED reading

_squash_title_step ==
    /\ WireStep("title", "auto_merge")
    /\ \/ step' = "auto_merge" /\ repo' = [repo EXCEPT !.title = TRUE] /\ UNCHANGED said
       \/ Refused
    /\ UNCHANGED reading

_auto_merge_step ==
    /\ WireStep("auto_merge", "queue")
    /\ \/ step' = "queue" /\ repo' = [repo EXCEPT !.auto_merge = TRUE] /\ UNCHANGED said
       \/ Refused
    /\ UNCHANGED reading

_ruleset_payload == [branch |-> manifest.landing_branch, checks |-> manifest.gates]

\* Variant: the branch the manifest names is the branch.
_divergence_step_unread == {}

_divergence_step == IF reading.default_branch = manifest.landing_branch THEN {} ELSE {"ATTENTION"}

\* Created, updated, or found to say so already.
_queue_step ==
    /\ step = "queue" /\ step' = "idle" /\ UNCHANGED <<ci, ours, reading>>
    /\ \/ /\ repo' = [repo EXCEPT !.ruleset = _ruleset_payload]
          /\ said' = said \cup _divergence_step
          /\ wired' = (said' = {} /\ steady)
       \/ Refused /\ wired' = FALSE

-----------------------------------------------------------------------------
(* Onboarding *)

checkout == <<gh, repo, manifest, ci, said, changes, wired>>
Failed == step' = "idle" /\ profile' = "failed" /\ UNCHANGED reading

\* The checks of every rule that binds the branch, and the classic ones where a
\* queue names none.
_queue_from_rules(branch) ==
    (IF repo.ruleset.branch = branch THEN repo.ruleset.checks ELSE {}) \cup repo.others
landing_policy(branch) ==
    LET gated == repo.ruleset.branch = branch
        named == _queue_from_rules(branch)
    IN  [reading EXCEPT !.title = repo.title, !.gated = gated,
                        !.checks = IF ~gated THEN {} ELSE IF named = {} THEN repo.classic ELSE named]

describe_repository ==
    /\ step = "idle" /\ steady' = TRUE
    /\ \/ /\ gh = "capable" /\ step' = "policy" /\ profile' = "none"
          /\ reading' = [Unread EXCEPT !.default_branch = repo.default_branch, !.public = repo.public]
       \/ Failed
    /\ UNCHANGED checkout

ReadPolicy ==
    /\ step = "policy" /\ UNCHANGED <<checkout, steady>>
    /\ \/ step' = "judge" /\ reading' = landing_policy(reading.default_branch) /\ UNCHANGED profile
       \/ Failed

\* What init left behind, as the questions of its report see it.
_runtime_root_findings(f) == ~f.ignored \/ f.legacy
_registry_finding(f) == f.registry # "entry"
_landing_branch_finding(f) == f.landing_branch # "exists"
_standards_finding(f) == f.standards \in {"undeclared", "missing"}
_control_plane_finding(f) == f.control_plane # "reachable"
_roadmap_schedule_finding(f) == f.schedule # "running"
_engine_container_finding(f) == f.engine \in {"unreadable", "unmounted"}
evaluate_init_facts(f) ==
    \/ _runtime_root_findings(f) \/ _registry_finding(f) \/ _landing_branch_finding(f)
    \/ _standards_finding(f) \/ _control_plane_finding(f) \/ _roadmap_schedule_finding(f)
    \/ _engine_container_finding(f)
\* The facts of a sound checkout, with one of them off.
Sound == [ignored |-> TRUE, legacy |-> FALSE, registry |-> "entry", landing_branch |-> "exists",
          standards |-> "current", control_plane |-> "reachable", schedule |-> "running", engine |-> "mounted"]
Found ==
    {Sound} \cup {[Sound EXCEPT !.registry = r] : r \in {"unreadable", "none"}}
    \cup {[Sound EXCEPT !.standards = r] : r \in {"undeclared", "missing", "unrecorded", "older"}}
    \cup {[Sound EXCEPT !.schedule = r] : r \in {"unjudged", "absent", "paused", "drifted"}}
    \cup {[Sound EXCEPT !.engine = r] : r \in {"none", "unreadable", "unmounted"}}
    \cup {[Sound EXCEPT !.ignored = FALSE], [Sound EXCEPT !.control_plane = "silent"]}

\* Variant: a gate the branch does not require is only worth a warning.
_gate_check_finding_warned(gate) == FALSE

_gate_check_finding(gate) == gate \notin reading.checks /\ gate \notin manifest.boundary_only

\* Variant: a check that is no gate is somebody else's affair.
_unknown_check_finding_ignored(check) == FALSE

_unknown_check_finding(check) == check \notin manifest.gates

evaluate_repo(facts) ==
    /\ reading.public /\ reading.gated /\ reading.title /\ manifest.valid
    /\ ~\E g \in manifest.gates : _gate_check_finding(g)
    /\ ~\E c \in reading.checks : _unknown_check_finding(c)
    /\ ~evaluate_init_facts(facts)

onboard_target_repo ==
    /\ step = "judge" /\ step' = "idle" /\ UNCHANGED <<checkout, steady, reading>>
    /\ \E facts \in Found : profile' = IF evaluate_repo(facts) THEN "passed" ELSE "failed"

OnboardNext ==
    \/ Change \/ scaffold_gates_workflow \/ _require_gh \/ _require_eligible
    \/ _squash_title_step \/ _auto_merge_step \/ _queue_step
    \/ describe_repository \/ ReadPolicy \/ onboard_target_repo

OnboardSpec == OnboardInit /\ [][OnboardNext]_gvars

-----------------------------------------------------------------------------
(* Properties *)

Required(branch) ==
    LET named == _queue_from_rules(branch) IN IF named = {} THEN repo.classic ELSE named
Binding == manifest.gates \ manifest.boundary_only

\* A repository that passed, and did not change while it was read, gates the
\* branch proposals land on by what its manifest declares: every gate but those
\* the manifest keeps to the boundary, and no check besides.
PassedIsGated ==
    profile = "passed" /\ steady /\ step = "idle" =>
        /\ repo.public /\ repo.title /\ repo.ruleset.branch = repo.default_branch
        /\ Binding \subseteq Required(repo.default_branch)
        /\ Required(repo.default_branch) \subseteq manifest.gates

\* A wiring that asked nothing of the operator leaves a repository onboarding
\* finds nothing wrong with on the forge, unless somebody else's ruleset or
\* classic protection binds the branch too.
WiredIsReady ==
    wired /\ repo.others = {} /\ (manifest.gates # {} \/ repo.classic = {}) =>
        /\ repo.public /\ repo.title /\ repo.auto_merge
        /\ repo.ruleset.branch = repo.default_branch
        /\ Required(repo.default_branch) = manifest.gates
        /\ manifest.gates \subseteq ci.covers
=============================================================================
