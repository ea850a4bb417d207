----------------------------- MODULE MCOperators ----------------------------
(***************************************************************************)
(* What an operator does and is asked, for TLC: the page, the question and *)
(* the roadmap that wait for one, and the commands one runs.               *)
(*                                                                         *)
(* These share no state, so a behaviour is one component's, and one run    *)
(* checks them all: `part` names the component that moves, and what it     *)
(* keeps is in the cells c1..c12.  The roadmap, the question and the       *)
(* commands over an epic, extended here, rest while another moves.         *)
(***************************************************************************)
EXTENDS Roadmap, Question, EpicCommands

CONSTANT Torn                    \* part of a document
VARIABLES part, c1, c2, c3, c4, c5, c6, c7, c8, c9, c10, c11, c12

cells == <<c1, c2, c3, c4, c5, c6, c7, c8, c9, c10, c11, c12>>
mvars == <<part, rvars, qvars, cvars, cells>>

-----------------------------------------------------------------------------
(* The components, with their bounds *)

\* A chain of three specs behind each other, and two that wait for the first.
MCDeps == {[s \in 1..3 |-> IF s = 3 THEN {1} ELSE {}], [s \in 1..3 |-> IF s = 1 THEN {} ELSE {s - 1}]}
MCStates == {[s \in 1..3 |-> "ready"], [s \in 1..3 |-> IF s = 1 THEN "draft" ELSE "ready"]}

Page == INSTANCE Escalation WITH
    Presses <- {1, 2}, EscalationChoice <- {"RETRY", "KILL", "PAUSE_EPIC"}, Offers <- {{"RETRY", "KILL"}},
    Defaults <- {None, "PAUSE_EPIC"}, Fallback <- "KILL", MaxAttempts <- 2, MaxCrashes <- 1,
    request <- c1, row <- c2, wf <- c3, tries <- c4, replies <- c5, delivered <- c6, buttons <- c7, result <- c8,
    outcome <- c9, press <- c10, unreadable <- c11, crashes <- c12
Targets == INSTANCE Onboarding WITH Gates <- {"g1"}, Checks <- {"g1"}, Branches <- {"main", "trunk"}, MaxChanges <- 1,
    gh <- c1, repo <- c2, manifest <- c3, ci <- c4, step <- c5, said <- c6, reading <- c7, profile <- c8,
    changes <- c9, wired <- c10, steady <- c11
Known == INSTANCE Repos WITH R <- 2, MaxCmds <- 2,
    registry <- c1, legible <- c2, schedule <- c3, files <- c4, mounts <- c5, epic <- c6, evidence <- c7,
    cmd <- c8, excused <- c9
Engine == INSTANCE EngineProject WITH V <- 2, MaxJobs <- 3,
    disk <- c1, digests <- c2, running <- c3, identity <- c4, images <- c5, works <- c6, job <- c7, mishap <- c8
Config == INSTANCE Install WITH Installs <- {"p1", "p2"},
    config <- c1, personas <- c2, holder <- c3, install <- c4
Remains == INSTANCE Teardown WITH Repo <- {"r1"}, V <- 2, MaxTasks <- 2,
    text <- c1, record <- c2, manifest <- c3, known <- c4, ticking <- c5, refs <- c6, epics <- c7, task <- c8,
    past <- c9
Graph == INSTANCE Derivation WITH StoryCount <- 3,
    declared <- c1, graph <- c2, shared <- c3, waived <- c4, baseline <- c5, stage <- c6, fate <- c7

-----------------------------------------------------------------------------

\* Two presses are told apart by what they are, so one order of them is enough;
\* a chain of specs with one slot, two specs behind a third with two.
Rank(p) ==
    (IF p.choice = "RETRY" THEN 4 ELSE IF p.choice = "KILL" THEN 8 ELSE 0)
    + (IF p.channel = "bot" THEN 2 ELSE 0) + (IF p.authorized THEN 1 ELSE 0)

Unused(n) ==
    /\ n <= 1 => c1 = 0 /\ c2 = 0 /\ c3 = 0 /\ c4 = 0
    /\ n <= 5 => c5 = 0 /\ c6 = 0
    /\ n <= 7 => c7 = 0
    /\ n <= 8 => c8 = 0
    /\ n <= 9 => c9 = 0
    /\ n <= 10 => c10 = 0 /\ c11 = 0
    /\ n <= 12 => c12 = 0

RoadRests == cap = 1 /\ ~idles /\ deps[3] = {1} /\ corpus[1] = "ready"
CommandsRest ==
    /\ \A n \in Nodes : site[n] = [tree |-> "none", head |-> "none", key |-> FALSE]
    /\ setting = [declared |-> TRUE, served |-> TRUE, skewed |-> FALSE]
QuestionRests == \A m \in Replies : reply[m].row = "own" /\ reply[m].by = "bridge"

OperatorsInit ==
    /\ part \in {"page", "question", "roadmap", "epics", "targets", "known", "engine", "config", "remains", "graph"}
    /\ RoadmapInit /\ QuestionInit /\ CommandsInit
    /\ part # "roadmap" => RoadRests
    /\ part # "question" => QuestionRests
    /\ part # "epics" => CommandsRest
    /\ \/ part = "page" /\ Page!EscalationInit /\ Rank(c10[1]) <= Rank(c10[2])
       \/ part = "question" /\ Unused(1)
       \/ part = "roadmap" /\ cap = Cardinality({s \in 1..3 : 1 \in deps[s]}) /\ Unused(1)
       \/ part = "epics" /\ Unused(1)
       \/ part = "targets" /\ Targets!OnboardInit /\ Unused(12)
       \/ part = "known" /\ Known!ReposInit /\ Unused(10)
       \/ part = "engine" /\ Engine!EngineInit /\ Unused(9)
       \/ part = "config" /\ Config!InstallInit /\ Unused(5)
       \/ part = "remains" /\ Remains!TeardownInit /\ Unused(10)
       \/ part = "graph" /\ Graph!DerivationInit /\ Unused(8)

Aside == UNCHANGED <<part, rvars, qvars, cvars>>
OperatorsNext ==
    \/ part = "question" /\ QuestionNext /\ UNCHANGED <<part, rvars, cvars, cells>>
    \/ part = "roadmap" /\ RoadmapNext /\ UNCHANGED <<part, qvars, cvars, cells>>
    \/ part = "page" /\ Page!EscalationNext /\ Aside
    \/ part = "epics" /\ CommandsNext /\ UNCHANGED <<part, rvars, qvars, cells>>
    \/ part = "targets" /\ Targets!OnboardNext /\ Aside /\ UNCHANGED c12
    \/ part = "known" /\ Known!ReposNext /\ Aside /\ UNCHANGED <<c10, c11, c12>>
    \/ part = "engine" /\ Engine!EngineNext /\ Aside /\ UNCHANGED <<c9, c10, c11, c12>>
    \/ part = "config" /\ Config!InstallNext /\ Aside /\ UNCHANGED <<c5, c6, c7, c8, c9, c10, c11, c12>>
    \/ part = "remains" /\ Remains!TeardownNext /\ Aside /\ UNCHANGED <<c10, c11, c12>>
    \/ part = "graph" /\ Graph!DerivationNext /\ Aside /\ UNCHANGED <<c8, c9, c10, c11, c12>>

OperatorsSpec == OperatorsInit /\ [][OperatorsNext]_mvars

-----------------------------------------------------------------------------
(* Properties *)

\* The state of each component is what its program can hold.
OperatorTypeOK ==
    /\ part = "question" => QuestionTypeOK
    /\ part = "roadmap" => RoadmapTypeOK
    /\ part = "page" => Page!EscalationTypeOK
    /\ part = "epics" => CommandsTypeOK
    /\ part = "targets" => Targets!OnboardTypeOK
    /\ part = "known" => Known!ReposTypeOK
    /\ part = "engine" => Engine!EngineTypeOK
    /\ part = "config" => Config!InstallTypeOK
    /\ part = "remains" => Remains!TeardownTypeOK
    /\ part = "graph" => Graph!DerivationTypeOK

\* The files, units and images on a host are ours or somebody's, and are treated
\* as that: the engine's project starts as a whole, what an operator edited is
\* kept, an image to go back to stays, and a teardown leaves nothing of ours and
\* the record of what it left (container_project.py, uninstall.py, skills.py).
InstallationIsOwned ==
    /\ part = "engine" => Engine!StartsWhole /\ Engine!ProjectStaysOurs /\ Engine!EditsAreKept /\ Engine!RollbackIsKept
    /\ part = "remains" => Remains!LeavesNothingOfOurs /\ Remains!EditsAndTheirRecord

\* However two commands run over each other or one is interrupted, what they
\* leave can be worked with: one slug for a repository, and a schedule for what
\* is registered (registry.py, cli/init.py, cli/repo.py); a config that loads
\* and a question only about what is on disk (cli/install.py).
CommandsLeaveOneTruth ==
    /\ part = "known" => Known!TicksForItsEntry /\ Known!OneSlug
    /\ part = "config" => Config!ConfigLoads /\ Config!AsksOfWhatIsThere

\* What was checked before a build holds in the build: a target that passed is
\* gated and a wired one ready (onboarding.py, init.py), stories that share a file
\* do not run at once and the graph runs out (derive, contention.py), and no
\* node's first attempt meets what the preflight rules out (preflight.py).
CheckedHolds ==
    /\ part = "targets" => Targets!PassedIsGated /\ Targets!WiredIsReady
    /\ part = "graph" => Graph!SharersDoNotRace /\ Graph!GraphRunsOut
    /\ part = "epics" => FirstAttemptsGoThrough
=============================================================================
