------------------------------ MODULE MCWorkers -----------------------------
(***************************************************************************)
(* What the workers do for a node, and what keeps them running, for TLC:   *)
(* the agent's process, its credential and its words, the worktree, the    *)
(* verdict, the cost, the landing; the worker's builds, its supervisor and *)
(* its probe; the findings, the verification store and the archive.        *)
(*                                                                         *)
(* They share no state, so a behaviour is one component's: `part` names    *)
(* the one that moves.  What it keeps is in the cells c1..c13; the         *)
(* credential's owner, the agent's process, the worktree, the fleet and    *)
(* the verdict, extended here, rest while another moves.                   *)
(***************************************************************************)
EXTENDS Workers, Worktree

VARIABLES part, c1, c2, c3, c4, c5, c6, c7, c8, c9, c10, c11, c12, c13

cells == <<c1, c2, c3, c4, c5, c6, c7, c8, c9, c10, c11, c12, c13>>
fleet == <<dvars, bvars, pvars>>
verdicts == <<gvars, jvars>>
parts == <<part, ovars, svars, wvars, fleet, verdicts, cells>>

-----------------------------------------------------------------------------
(* The components, with their bounds *)

OneGate == INSTANCE Gates WITH GateCount <- 1, MaxWrites <- 2
Sections == {<<1, 1>>, <<1, 2, 2>>, <<1, 1, 2, 2>>}
Prompts == INSTANCE JudgePrompt WITH
    Diffs <- [1..1 -> Sections] \cup [1..2 -> Sections \cup {<<2, 1>>, <<1, 2, 1>>}] \cup [1..3 -> Sections],
    GateBytes <- {0, 3, 15}, Limit <- 12, Threshold <- 16, Floor <- 3, Entry <- 1, Notice <- 1, Marker <- 1,
    diff <- c1, gate_bytes <- c2, at <- c3, left <- c4, grants <- c5, remaining <- c6, shown <- c7, truncated <- c8
Costs == INSTANCE Usage WITH MaxKeys <- 2, MaxCalls <- 2, MaxUsageTries <- 2, MaxSittings <- 1,
    route <- c1, live <- c2, minted <- c3, calls <- c4, logged <- c5, issuing <- c6, lease <- c7, agent <- c8,
    files <- c9, snapshot <- c10, closing <- c11, row <- c12, launch <- c13
Boundary == INSTANCE Detector WITH Paths <- {"p1"}, Attempts <- {"a1", "a2"}, MaxContent <- 2, MaxWrites <- 2,
    MaxCommits <- 1, MaxFaults <- 1,
    tree <- c1, commits <- c2, store <- c3, step <- c4, read <- c5, snapshot <- c6, found <- c7, escaped <- c8,
    touched <- c9, blind <- c10, writes <- c11, faults <- c12
Queue == INSTANCE MergeQueue WITH Works <- {"w1"}, MaxTrunk <- 1, MaxProposals <- 2, max_recovery_cycles <- 1,
    max_free_rebases <- 1,
    trunk <- c1, works <- c2, prs <- c3, head <- c4, tree <- c5, landing <- c6, seen <- c7, at <- c8, asked <- c9,
    rejects <- c10, futile <- c11, flaked <- c12
Findings == INSTANCE Doctor WITH Keys <- {"k1"}, Kin <- {"k1"}, Slugs <- {"s1"}, Commands <- {"c1", "c2"},
    Observations <- {"o1"}, MinMembers <- 1, ColdDays <- 0, MaxSightings <- 3, MaxDay <- 2,
    rows <- c1, trail <- c2, ingested <- c3, specs <- c4, ops <- c5, day <- c6
Store == INSTANCE StoreMigration WITH Openers <- {"p1", "p2"}, Runs <- {"r1"}, Attempts <- {1}, MaxWrites <- 1,
    MaxClock <- 1, MaxDeaths <- 1,
    main <- c1, shadow <- c2, openers <- c3, owed <- c4, clock <- c5, writes <- c6, deaths <- c7, disturbed <- c8
OneOpener == INSTANCE StoreMigration WITH Openers <- {"p1"}, Runs <- {"r1"}, Attempts <- {1, 2}, MaxWrites <- 2,
    MaxClock <- 1, MaxDeaths <- 1,
    main <- c1, shadow <- c2, openers <- c3, owed <- c4, clock <- c5, writes <- c6, deaths <- c7, disturbed <- c8
Archive == INSTANCE Attestation WITH Artifacts <- {"a1"}, Exports <- {"e1", "e2"}, MaxArtifact <- 1, MaxTotal <- 1,
    MaxExports <- 2, MaxPackets <- 2, MaxJudged <- 1,
    judged <- c1, kept <- c2, packets <- c3, exports <- c4, begun <- c5, raced <- c6
OneExport == INSTANCE Attestation WITH Artifacts <- {"a1", "a2"}, Exports <- {"e1"}, MaxArtifact <- 1, MaxTotal <- 1,
    MaxExports <- 1, MaxPackets <- 1, MaxJudged <- 1,
    judged <- c1, kept <- c2, packets <- c3, exports <- c4, begun <- c5, raced <- c6
Words == INSTANCE AttemptEvidence WITH MaxRuns <- 2, MaxLines <- 2, RawLines <- 1,
    setup <- c1, home <- c2, archive <- c3, exec <- c4, emitted <- c5
OneRun == INSTANCE AttemptEvidence WITH MaxRuns <- 1, MaxLines <- 3, RawLines <- 2,
    setup <- c1, home <- c2, archive <- c3, exec <- c4, emitted <- c5
Reported == INSTANCE ObjectionReport WITH MaxEvaluations <- 3, history <- c1

-----------------------------------------------------------------------------

OwnerRests == \A n \in Users : user[n].declares = 1
SessionRests == setup = [quarantines |-> TRUE, dies_with_parent |-> TRUE]
DeployRests == current = 0
SupervisorRests == config = [bridge |-> FALSE, demo |-> FALSE] /\ deaf = {}
ProbeRests == down = {}
GatesRest == boundary = "bwrap"
JudgeRests == ~gates_passed /\ ~scenarios
Unused(n) ==
    /\ n <= 1 => c1 = 0
    /\ n <= 2 => c2 = 0
    /\ n <= 3 => c3 = 0
    /\ n <= 4 => c4 = 0
    /\ n <= 5 => c5 = 0
    /\ n <= 6 => c6 = 0
    /\ n <= 7 => c7 = 0
    /\ n <= 8 => c8 = 0
    /\ n <= 9 => c9 = 0
    /\ n <= 10 => c10 = 0
    /\ n <= 11 => c11 = 0
    /\ n <= 12 => c12 = 0
    /\ n <= 13 => c13 = 0

WorkersInit ==
    /\ part \in {"owner", "session", "worktree", "gates", "one gate", "judge", "prompt", "usage", "detector", "queue", "deploy",
                "supervisor", "probe", "doctor", "store", "one opener", "archive", "one export", "words", "one run", "report"}
    /\ OwnerInit /\ SessionInit /\ WorktreeInit /\ DeployInit /\ SupervisorInit /\ ProbeInit
    /\ GatesInit /\ JudgeInit
    /\ part # "owner" => OwnerRests
    /\ part # "session" => SessionRests
    /\ part # "deploy" => DeployRests
    /\ part # "supervisor" => SupervisorRests
    /\ part # "probe" => ProbeRests
    /\ part \notin {"gates", "one gate"} => GatesRest
    /\ part # "judge" => JudgeRests
    /\ \/ part \in {"owner", "session", "worktree", "deploy", "supervisor", "probe",
                      "gates", "one gate", "judge"} /\ Unused(1)
       \/ part = "prompt" /\ Prompts!JudgePromptInit /\ Unused(9)
       \/ part = "usage" /\ Costs!UsageInit
       \/ part = "detector" /\ Boundary!DetectorInit /\ Unused(13)
       \/ part = "queue" /\ Queue!QueueInit /\ Unused(13)
       \/ part = "doctor" /\ Findings!DoctorInit /\ Unused(7)
       \/ part = "store" /\ Store!MigrationInit /\ Unused(9)
       \/ part = "one opener" /\ OneOpener!MigrationInit /\ Unused(9)
       \/ part = "archive" /\ Archive!AttestInit /\ Unused(7)
       \/ part = "one export" /\ OneExport!AttestInit /\ Unused(7)
       \/ part = "words" /\ Words!EvidenceInit /\ Unused(6)
          /\ c2 = IF c1.route = "gateway" THEN {"auth.json"} ELSE {"config.toml"}
       \/ part = "one run" /\ OneRun!EvidenceInit /\ Unused(6)
          /\ c1 = [cli |-> "codex", route |-> "gateway"] /\ c2 = {"auth.json"}
       \/ part = "report" /\ Reported!ReportInit /\ Unused(2)

Aside == UNCHANGED <<part, ovars, svars, wvars, fleet, verdicts>>
WorkersNext ==
    \/ part = "owner" /\ OwnerNext /\ UNCHANGED <<part, svars, wvars, fleet, verdicts, cells>>
    \/ part = "session" /\ SessionNext /\ UNCHANGED <<part, ovars, wvars, fleet, verdicts, cells>>
    \/ part = "worktree" /\ WorktreeNext /\ UNCHANGED <<part, ovars, svars, fleet, verdicts, cells>>
    \/ part = "deploy" /\ DeployNext /\ UNCHANGED <<part, ovars, svars, wvars, bvars, pvars, verdicts, cells>>
    \/ part = "supervisor" /\ SupervisorNext /\ UNCHANGED <<part, ovars, svars, wvars, dvars, pvars, verdicts, cells>>
    \/ part = "probe" /\ ProbeNext /\ UNCHANGED <<part, ovars, svars, wvars, dvars, bvars, verdicts, cells>>
    \/ part = "gates" /\ GatesNext /\ UNCHANGED <<part, ovars, svars, wvars, fleet, jvars, cells>>
    \/ part = "one gate" /\ OneGate!GatesNext /\ UNCHANGED <<part, ovars, svars, wvars, fleet, jvars, cells>>
    \/ part = "judge" /\ JudgeNext /\ UNCHANGED <<part, ovars, svars, wvars, fleet, gvars, cells>>
    \/ part = "prompt" /\ Prompts!JudgePromptNext /\ Aside /\ UNCHANGED <<c9, c10, c11, c12, c13>>
    \/ part = "usage" /\ Costs!UsageNext /\ Aside
    \/ part = "detector" /\ Boundary!DetectorNext /\ Aside /\ UNCHANGED c13
    \/ part = "queue" /\ Queue!QueueNext /\ Aside /\ UNCHANGED c13
    \/ part = "doctor" /\ Findings!DoctorNext /\ Aside /\ UNCHANGED <<c7, c8, c9, c10, c11, c12, c13>>
    \/ part = "store" /\ Store!MigrationNext /\ Aside /\ UNCHANGED <<c9, c10, c11, c12, c13>>
    \/ part = "one opener" /\ OneOpener!MigrationNext /\ Aside /\ UNCHANGED <<c9, c10, c11, c12, c13>>
    \/ part = "archive" /\ Archive!AttestNext /\ Aside /\ UNCHANGED <<c7, c8, c9, c10, c11, c12, c13>>
    \/ part = "one export" /\ OneExport!AttestNext /\ Aside /\ UNCHANGED <<c7, c8, c9, c10, c11, c12, c13>>
    \/ part = "words" /\ Words!EvidenceNext /\ Aside /\ UNCHANGED <<c6, c7, c8, c9, c10, c11, c12, c13>>
    \/ part = "one run" /\ OneRun!EvidenceNext /\ Aside /\ UNCHANGED <<c6, c7, c8, c9, c10, c11, c12, c13>>
    \/ part = "report" /\ Reported!ReportNext /\ Aside /\ UNCHANGED <<c2, c3, c4, c5, c6, c7, c8, c9, c10, c11, c12, c13>>

WorkersSpec == WorkersInit /\ [][WorkersNext]_parts

-----------------------------------------------------------------------------
(* Properties *)

\* The state of each component is what its program can hold.
WorkerTypeOK ==
    /\ part = "owner" => OwnerTypeOK
    /\ part = "session" => SessionTypeOK
    /\ part = "worktree" => WorktreeTypeOK
    /\ part = "gates" => GatesTypeOK
    /\ part = "one gate" => OneGate!GatesTypeOK
    /\ part = "judge" => JudgeTypeOK
    /\ part = "prompt" => Prompts!JudgePromptTypeOK
    /\ part = "usage" => Costs!UsageTypeOK
    /\ part = "detector" => Boundary!DetectorTypeOK
    /\ part = "queue" => Queue!QueueTypeOK
    /\ part = "deploy" => DeployTypeOK
    /\ part = "supervisor" => SupervisorTypeOK
    /\ part = "probe" => ProbeTypeOK
    /\ part = "doctor" => Findings!DoctorTypeOK
    /\ part = "store" => Store!MigrationTypeOK
    /\ part = "one opener" => OneOpener!MigrationTypeOK
    /\ part = "archive" => Archive!AttestTypeOK
    /\ part = "one export" => OneExport!AttestTypeOK
    /\ part = "words" => Words!EvidenceTypeOK
    /\ part = "one run" => OneRun!EvidenceTypeOK
    /\ part = "report" => Reported!ReportTypeOK

\* What is on record, and what is said of it, is what there was: a key is live
\* while something needs it and "complete" counts every call (usage), a finding
\* that came back is told and a promoted one has its spec (doctor), a migration
\* drops no row and leaves the newest shape (store.py), an archive is what it
\* says (archive.py), an execution's outcome and question are its own agent's,
\* whose home names its own route, and a complete usage is of a whole stream
\* (agent_activities.py, adapter.py, codex_evidence.py), the judge was shown what
\* its budget has room for, no file starved by the others, and an elision is said
\* (judge.py), a rejection's cause is the one there was (merge queue), and what is
\* reported as fixed was judged fixed last (report.py).
RecordIsTrue ==
    /\ part = "usage" => Costs!KeyOutlivesItsUse /\ Costs!CompleteIsAll
    /\ part = "doctor" => Findings!ReturnIsTold /\ Findings!PromotedHasItsSpec
    /\ part = "store" => Store!NoRowIsDropped /\ Store!RunsAreRead /\ Store!ShapeIsFresh
    /\ part = "one opener" => OneOpener!NoRowIsDropped /\ OneOpener!RunsAreRead /\ OneOpener!ShapeIsFresh
    /\ part = "archive" => Archive!CompleteIsTrue /\ Archive!OneRevisionOfAContent
    /\ part = "one export" => OneExport!CompleteIsTrue /\ OneExport!OneRevisionOfAContent
    /\ part = "words" =>
           Words!OutcomeIsOwn /\ Words!QuestionIsLast /\ Words!HomeNamesItsRoute /\ Words!CompleteIsWhole
    /\ part = "one run" => OneRun!OutcomeIsOwn /\ OneRun!QuestionIsLast /\ OneRun!CompleteIsWhole
    /\ part = "prompt" =>
           Prompts!AllowanceIsSpent /\ Prompts!NobodyIsStarved /\ Prompts!LimitHolds /\ Prompts!ElisionIsSaid
    /\ part = "queue" => Queue!CauseIsTrue
    /\ part = "report" => Reported!FixedIsFixed

\* No step makes less of what there is: dirt becomes a commit and origin's branch
\* only moves forward (worktree.py), a cost once measured is not forgotten
\* (ledger.py), and an agent's write outside its worktree is filed and no commit
\* of the operator's is (detector.py).
NothingIsOverwritten ==
    [][/\ part = "worktree" => CommitsDirt /\ MovesOriginForward
       /\ part = "usage" => Costs!KeepsFigures
       /\ part = "detector" => \A a \in {"a1", "a2"} :
              Boundary!Compared(a) => Boundary!FilesEscape(a) /\ Boundary!ChargesOwn(a)]_parts
=============================================================================
