# Ergane, specified

Ergane is an agentic software factory: it turns a specification into a graph of
stories, runs a coding agent on each story in a worktree of its own, verifies
what the agent wrote, and lands it through a merge queue. The control logic is
Python in Temporal workflows (`src/factory/`). These modules specify that
logic in TLA+, check it with TLC on small instances, and prove its main results
with TLAPS for every instance.

Line numbers below are those of the modelled commit. `PROJECT.json` maps every
definition of the models to the lines it translates.

1. [The system](#1-the-system)
2. [What is modelled](#2-what-is-modelled)
3. [The models and the code](#3-the-models-and-the-code)
4. [What the runs check](#4-what-the-runs-check)
5. [What is proved](#5-what-is-proved)
6. [What the models found](#6-what-the-models-found)
7. [What is not modelled, and the plan](#7-what-is-not-modelled-and-the-plan)

## 1. The system

One *epic* is one Temporal workflow: a graph of nodes, a scheduler coroutine, a
task per running node, and a background poll per landing. A *roadmap* workflow
starts epics; an *escalation* or *question* workflow is the child that waits for
a human. Everything that touches the world is an activity, retried by Temporal
and run at least once.

```
 roadmap ──starts──▶ epic ──task──▶ node attempt loop ──PASS──▶ landing ──▶ poll
    ▲                 │ ▲              │   │   │                   │          │
    └──child result───┘ │              │   │   └─▶ gates, judge    └─recovery◀┘
                     signals           │   └─▶ agent adapter (key, owner, worktree)
                   pause/kill/...      └─▶ page / question child ◀── bot press, store, timer
```

| component | state it keeps | operations | what is hard | what makes it correct |
|---|---|---|---|---|
| verification ladder, `verify/ladder.py` | none (pure) | `next_action`, `offered_choices`, the spent counters | the order of five bounds over mixed histories; what a grant changes | it only chooses a rung with room; a page never offers a button that kills; an ending answer is final |
| node attempt loop, `workgraph/workflow.py` `_run_node` | `_NodeRecord`, open key, judge key, owner, pages | one coroutine: prepare, admit, issue, run, verify, decide, page, park, tear down, close out | every await may raise or be overtaken by a kill; two kinds of page; a question that parks the epic | brackets closed once on every path; parks released; budgets kept; a kill always ends it |
| epic scheduler, landings, recovery, `workgraph/workflow.py` `run` | node table, landing snapshots, `_paused`, `_kill_requested` | dispatch, reap, lock-out, drain, pause, kill; push, enqueue, poll, recover, re-enqueue | tasks, polls and signals interleave at awaits; landings outlive tasks | gates respected; slots kept; every landing watched; the epic ends and reports what happened |
| graph vocabulary, `workgraph/models.py`, `mergequeue/models.py`, `verify/models.py` | frozen records | construction, serialisation | two state machines (node, landing) that must agree | terminal states stay terminal |
| escalation and question workflows, `escalation/`, with `activities/notify_activities.py` and the bridge of `notify/service.py` | a row of the store, replies in memory, presses in flight | raise, send, wait, settle, expire; press, signal, record | a press, the timer, the store's row and a redelivery race for one page | exactly one answer, and the one recorded is the one acted on |
| verification store, `verify/store.py` | SQLite rows of attempts, escalations, questions | guarded `UPDATE`s, upserts; migration in place | at-least-once writers; several openers of different releases | the first settlement wins; no row is lost to a migration |
| Codex credential owner, `workgraph/codex_credential.py` | lease and manifest files under a lock | admit, release, retain | lost answers: an admitted lease nobody knows of, never reclaimed; two worker processes | one holder per credential; not lent on while an agent has it |
| agent adapter, `workgraph/adapter.py`, `activities/agent_activities.py` | process groups, pid file, archive, event stream | launch, watch, ferry, cancel, reap, classify | a worker dies, its agent lives on; an execution repeats in the same home | one live agent per worktree; an outcome is its own execution's |
| boundary detector, `workgraph/detector.py` | a snapshot per attempt outside the runtime root | capture, compare, file | the operator and other attempts work in what it compares | an escape is filed, an operator's work is not |
| worktrees, `workgraph/worktree.py`, `activities/merge_activities.py` | directories, branches, records, remote refs | prepare, salvage, sync, push, archive, remove, reset | retries on half-done git state | no work out of reach, no foreign commit in a diff, one proposal |
| gates and judge, `verify/gates.py`, `judge.py`, `diffbounds.py`, `artifact_capture.py` | slots, snapshots, captures | run, compare, re-ask, budget a diff, compose | a thread outlives its activity; an unavailable judge; a diff past its budget | a PASS has passed every gate on the tree as it is; a cut is said |
| merge queue and forge, `mergequeue/` | pull requests, queue entries (external), a snapshot | open, enqueue, poll, `classify`, recover | a snapshot read after the state it describes | a rejection's cause is what happened |
| target onboarding, `mergequeue/onboard.py`, `wiring.py`, `cli/init.py` | the forge's rules, the checkout's workflows | read, judge, wire | settings that change between two reads | what passed is gated, what is wired is ready |
| roadmap, `roadmap/` | dispatched, landed, parked, promoted sets | dispatch, reconcile, rescan, continue-as-new | what is carried over a continue-as-new; a pause between two turns | epics only on landed ground; a chain starts a spec once |
| derivation, `workgraph/derive.py`, `delta.py`, `landed.py`, `contention.py` | none (pure) | layering, contention edges, delta | an inferred edge against declared ones; a second derivation | the graph runs out; sharers of a file do not race |
| commands over an epic, `cli/nouns/build.py`, `workgraph/preflight.py` | none of their own | start, ship, reset, answer, signal | what was read is stale when acted on | a reset takes no working tree; a first attempt is not refused |
| usage ledger and keys, `usage/` | SQLite rows, keys at the proxy, measurement files | issue, snapshot, poll, upsert, revoke | a teardown that runs twice; a log that lags | no cost forgotten, "complete" counts all, a key as long as it is needed |
| notification service, `notify/` | update offset, open messages | send, poll, press bridge | redelivered updates after a restart | a press reaches its page at most once |
| deployment, `supervision/deploy.py` | checkouts, units, Temporal's versions | deploy, sweep | three systems, each may refuse; a count that lags | work in flight keeps its worker |
| engine container and its project, `supervision/container_*.py`, `engine_upgrade.py`, `demo_driver.py` | child processes; files, digests, images | boot, supervise, stop; install, upgrade, roll back, remove | deaths in any order; death between two writes; edits | a fault stops the engine; what starts is whole, what was edited is kept |
| probe, `supervision/probe.py`, `alert.py` | last verdict on disk | assess, alert, heartbeat, record | death between saying and writing | what was recorded was said |
| doctor, `doctor/`, `cli/doctor.py` | findings, events, specs | report, resolve, promote, triage, ingest | two commands at once; the same finding seen again | one that came back is told; a promoted one has its spec |
| attestation archive, `attestation/` | packets of evidence | export, verify, report objections | evidence written while it is exported; damage | complete means complete; one revision of a content |
| installation and teardown, `cli/install.py`, `uninstall.py`, `skills.py`, `supervision/units.py` | config, units, skills and their manifests | interview; write, own, take away | two at once; death half way; files edited since | a config that loads; nothing of ours left, nothing of theirs taken |
| registry, `registry.py`, `cli/repo.py`, `cli/init.py` | registry file, schedules, mounts | init, forget, rebuild | three systems without a transaction | one slug per repository, a schedule only for what is registered |
| control plane, configuration, prompts, command shell | files | resolve, parse, render | none of it concurrent | — |

The hard behaviours are listed one by one, each at its line, under `hazards` in
`PROJECT.json`, with the properties that would catch them going wrong or the
reason none does.

## 2. What is modelled

| module | models |
|---|---|
| `Ladder` | `verify/ladder.py`: the retry policy, as operators |
| `NodeAttempts` (extends `Ladder`) | `_run_node` and what it calls, for one node: 28 actions |
| `EpicWorkflow` | `run`, its node tasks, landings, recoveries, polls, signals: 50 actions |
| `AttemptLoop` | abstract: what a node's attempt loop shows the epic around it; implemented by both above |
| `VerificationStore` | the guarded `UPDATE`s of `verify/store.py` that several processes race for |
| `OneAnswer` | abstract: what a page promises |
| `Escalation` (extends `VerificationStore`) | one page: workflow, activities, bridge, presses; implements `OneAnswer` |
| `Question` (extends `VerificationStore`) | one question: ferry, workflow, bridge, replies |
| `AgentSession` | the agent's process: launch, pid file, watch, kill, reap, across executions and worker deaths |
| `AttemptEvidence` | the agent's words: home, archive, event stream, termination, question, usage |
| `CredentialOwner` | the host's Codex lease and the nodes that bracket it |
| `Workers` (extends `CredentialOwner`, `AgentSession`, `Gates`, `Judge`, `Deploy`, `Supervisor`, `Probe`) | what worker processes owe a node: an agent alone with its lease and worktree, a verdict that says what was run, a worker under the work |
| `Worktree` | one node's tree, branch, records and proposal, git step by git step |
| `Gates`, `Judge`, `JudgePrompt` | a verification: gates in their thread; the judge's loop and row; how much of a diff it is shown |
| `Usage` | one attempt's key and what it cost |
| `Detector` | what an agent changed outside its worktree |
| `MergeQueue` | one landing against the forge: classification, cause, recovery, comparison of trees |
| `Onboarding` | judging and wiring a target repository |
| `Roadmap` | one roadmap over chains of runs |
| `Derivation` | from declared edges to the graph, its inferred edges, its remainder, and its run |
| `EpicCommands` | the operator's commands over an epic, and the preflight |
| `Deploy`, `Supervisor`, `Probe` | worker versions; the engine container; the stack's probe |
| `Doctor` | the findings ledger and the commands over it |
| `StoreMigration` | the migration of the evidence store under its openers |
| `Attestation`, `ObjectionReport` | audit packets; what became of an objection |
| `Install`, `Teardown`, `EngineProject`, `Repos` | the interview; units, skills and the uninstall; the engine's project; the registry |
| `NodeAttempts_proofs` (with the budgets'), `EpicWorkflow_proofs`, `Workers_proofs`, `Worktree_proofs`, `Escalation_proofs` (with the question's), `Roadmap_proofs`, `EpicCommands_proofs` | the theorems |
| `MCNodeAttempts`, `MCEpicWorkflow`, `MCOperators`, `MCWorkers`, `MCWaits` | constants and compositions for TLC |

`EpicWorkflow` does not extend `NodeAttempts`: it keeps a coarse attempt loop of
its own (a page is one await, a verification is one await), because the product
of three nodes in full detail is out of reach of model checking. The two meet in
`AttemptLoop`, which has the waits an epic can tell apart and what each may decide:
`NodeAttempts` implements it for one node (`AttemptLoopHolds`), `EpicWorkflow` for each
of its nodes (`AttemptLoopsHold`); both are checked and proved. So what the epic assumes
of a node's loop is something its detail can be held to. The components around them are refinements of what
these two take as one nondeterministic outcome: `Escalation` of `OpenPage`,
`Question` of the park, `AgentSession` and `AttemptEvidence` of `AgentEnds`, `Gates`
and `Judge` of the verification, `CredentialOwner` of `AdmitOwner` and
`ReleaseOwner`, `Worktree` of `Prepare`, `Salvage` and `Sweep`, `MergeQueue` of
`PollDecides` and `Compare`.

`RECURSIVE` operators appear nowhere; counts are cardinalities of sets of
positions and sums are folds, so that every module can be proved about.

## 3. The models and the code

### Concurrency in the epic

A Temporal workflow is single-threaded: coroutines interleave at `await`s and
nowhere else. One action is therefore one stretch of one coroutine from an await
to the next, and a program counter names the await a coroutine is suspended on.
Both models let any ready coroutine run next. Temporal resumes coroutines in the
order their events arrive; every such order is one of the model's, so what holds
in the model holds of it.

The scheduler has synchronous stretches that must not be interrupted (`Dispatch`
through its greedy pass; a drain with nothing to wait for). `Suspended` guards
every other coroutine's action with the scheduler being at an await.

### `Ladder`

An attempt record keeps what the ladder reads: the persona, whether the composed
verdict is a PASS, whether the judge asked for a rewrite, and whether the attempt
ended before the agent produced a token. An escalation is the resolution of an
answered page. `next_action` is the code's, condition by condition, in its order.

### `NodeAttempts`

| variable | code |
|---|---|
| `pc` | the await `_run_node` is suspended on |
| `state`, `verified`, `history`, `escalations`, `offered`, `attempt`, `launch_failures` | the fields of `_NodeRecord` |
| `persona`, `action`, `ended`, `verdict`, `parked`, `launch_page`, `hand_back` | locals of `_run_node`: `rung`, the ladder's decision, the attempt's termination, the composed result, the parked close-out, which page is open, which verification this is |
| `raising` | an exception is unwinding |
| `key`, `judge_key`, `owner` | an attempt key and a judge key open at the proxy, the Codex owner's lease as this node sees it: free, held, kept by its adapter, elsewhere |
| `external` | buffered `complete_externally` signals |
| `paused`, `kill_requested` | the epic's flags, as far as this node moves them |
| `worktree` | the worktree is on disk |
| `config`, `bound`, `asked`, `expiries` | the configuration drawn for the run, the environment's bounds, and the model's own counts of questions and expired ones |

Actions and code, by the lines of `workgraph/workflow.py`: `Prepare` (1836–1886),
`AdmitOwner` (`_acquire_codex_owner`, 2562–2603), `IssueKey` (2004–2042), `AgentEnds`
and `CancelAgent` (`_attempt`, 2654–2751), `ReleaseOwner` (2069–2101) with its
launch failures (2396–2446), the question park `ScanMarker`, `AskOperator`,
`CloseForPark`, `Unpark` (2107–2245), `RunGates`, `RunJudge`, `CloseJudge`
(`_verify` and `_judge`, 2845–3082), `RecordVerification` (2291–2346, with the
hand-back of 3128–3190), `OpenPage` (`_page_the_operator`, 3316–3365), `Resolve`
(2347–2385), `Teardown` (the `finally`, 2485–2506, and the top of the loop),
`Salvage` and `Sweep` (`_close_out`, 3408–3451), `Reap` (1772–1785).
`RaiseOutside`, `RaiseInside` and `RaiseParked` are an activity that fails for
good: outside the bracket it kills the coroutine, inside it unwinds through the
`finally`, and in a park the `except` un-pauses the epic first.

An admission that finds the owner `busy` sleeps and asks again, with no window, and
nothing reclaims a lease file its holder left behind (`codex_credential.py:227`).
`AdmitOwner` is therefore only enabled while the lease is free, or once a kill gives the
wait up; `LeaseTaken` and `LeaseReturned` are the host's other nodes. A lease that its
adapter kept (`owner_retained`) stays in the way of this node's next attempt too.

The page's child workflow is one nondeterministic outcome: any press that the
grants allow (also one the page did not offer: a stale message can name it), or
the silence default of the window.

### `EpicWorkflow`

| variable | code |
|---|---|
| `sched` | the scheduler's await in `run` |
| `epic_state`, `paused`, `kill_requested` | `_epic_state`, `_paused`, `_kill_requested` |
| `drainable` | the tasks the current drain still awaits |
| `rec[n]` | `_NodeRecord` and `_LandingRecord` of a node: its states, counters and ending answer; `task` and `carry` are its coroutine's await and the local it carries there; `poll` is the background poll; `key`, `worktree` are what it has open |
| `lease` | the holder the Codex owner's `active-lease.json` names: nobody, a node of this epic, or somebody else (another epic's node, an adapter that kept it, or nobody at all: a stale file) |
| `plan` | the `EpicRequest`: edges of both kinds, caps, recovery dials; and the bounds on the world |

`Dispatch` is the whole greedy pass over `_ready_set` in its order (recoveries
first, then declaration order), under both caps, including the decision to idle
or complete. `reap_finished`, with its lock-out, is part of the action that reaps
(`WakeBusy`, `drain_in_flight`). `LockedOut` is the least fixed point the code
reaches by its loop, defined as the intersection of the closed sets. A recovery
is `run_recovery` through `Compare`; a landing's page is one variable `carry`
that remembers what it offers. `PollSeesKill`, `PollDecides`, `PollRejects`,
`PollEnds`, `PollStops` are `_ride_queue` and `_stop_landing`; what the forge
answers is a choice. An owned node's `IssueKey` and
`RecoveryIssueKey` wait for the lease (`AdmitOwner`), which nodes of the epic take from one
another and `LeaseTaken` from all of them. The attempt loop between `prep` and `teardown` is that of
`NodeAttempts` with the ladder's decision nondeterministic: it may retry up to
`plan.attempts` attempts. The kill is looked for when the agent ends (`AgentEnds`) and not
again before the question parks the node (`AgentAsks`), as in 2095–2179.

### `Roadmap`

A run and its chain of continuations, the corpus on disk, and Temporal's epics.
`road` is the run of `_run_inner` at one of its awaits, `carry` what it was handed by the
run before (`RoadmapCarryOver`), `corpus`, `main` and `drift` what the clone says, `epics`
what Temporal knows. `chain.tried` is history: what became of each spec since the schedule
started this chain, over all its turns. `Fresh` is a new instance, `Boot` its first task,
which takes the carry-over over; signals are handled before it, too.

### `AttemptLoop`

Five variables: where the loop waits, what it carries into a teardown or a sweep, the
reported state, the attempt's key and the worktree. `NodeAttempts` maps its 21 awaits to these
waits: admission and standards are part of `issue`, an agent's questions part of `agent`,
gates, judge and recording part of `verify`, and salvage part of `sweep`. In `EpicWorkflow`
the mapping is nearly the identity (`detect` is still the agent's wait); a node that passed is out of the loop, whatever its
landing does (`passed`), and one a killed epic returned over is `over`. Two things of
the epic that a node alone never meets are steps of the loop all the same, since they write
its state: `LockOut`, which may find a node that is dispatched but not yet running, and
`kill_remaining`, with the waits (`Abandoned`) it may return over.

### The page and the question

`Escalation` has three processes. The workflow's await `wf` is `send`, `wait`,
`settle` or `expire`; each of its activities runs at least once, up to
`_RETRIES`, and may write the store before its answer is lost. A press reads the
row, signals the workflow and then writes the row with the guarded `UPDATE`;
the bridge may restart between any two of these and Telegram delivers again.
`Decision` is what the page is settled by. The refinement `Page` maps the store's row and the
outcome to `OneAnswer`'s; `unreadable` remembers that an activity could not read
the store, the one case in which the promise excuses an outcome without a
decision. `Question` is the same race with free text: the ferry writes a row
while the attempt runs, the workflow takes over with one of its own, and a reply
goes to the row's `workflow_id`.

### The agent and what it is given

`AgentSession` numbers executions of one activity; execution e launches process
group e. `launch` and `record` are not awaits in the code, but a worker may die
between them, so they are two steps. `AttemptEvidence` keeps the stream as a
sequence of line kinds and reads it three ways, as the code does, with the
archive left by an earlier execution. `CredentialOwner` brackets the same
attempt: `user[n].at` is what a node waits for, `active` is
`active-lease.json`, `drawn` numbers leases as `uuid4` draws them. `Worktree`
writes each operation as the sequence of the states its git commands leave, and
lets it break off at any of them.

### The verdict, the cost, the landing

`Gates` has an execution of `run_gates`, its thread (which goes on when the
execution is given up) and the gate processes as three things; the worktree is
the log of who wrote in it. `Judge` tells a reply's findings apart by whether a
gate's PASS contradicts them. `JudgePrompt` measures a diff in bytes and takes
`_allocate`'s loop one file at a time. `Usage` separates what the proxy served from what
its log shows already, and runs issuing, teardown and revocation effect by
effect. `Detector` snapshots and compares one read of git at a time. `MergeQueue` knows
the forge by the snapshot it took last.

### The host and the operator

`EpicCommands`, `Onboarding`, `Repos`, `Install`, `Teardown`,
`EngineProject`, `Doctor`, `Deploy` are processes somebody starts: each step is
one read or one write of a file, a database or another system, and a process may
be interrupted before any of them. Where the code takes a lock (`Install`,
`Deploy`, the registry), so does the model. `Supervisor` and `Probe` are
processes with deaths at every step; a signal is a step of its own.
`StoreMigration` takes the DDL statement by statement, since sqlite3 commits each
on its own. `Derivation` computes the graph by operators and then runs it, so
that what the edges are for can be said.

### Composition for TLC

Components that share no state need no product. `MCOperators` and `MCWorkers`
draw a component, the `part`, and let it alone move. The state space is the sum of
the components', and one run answers one question for all of them: what the operator
is told and does (`Operators`), what the workers do (`Workers`). `MCWaits` does so
for liveness, and for what a page promises.

The components with theorems are extended: `MCOperators` extends `Roadmap`,
`Question` and `EpicCommands`, `MCWorkers` extends `Workers` (seven components) and
`Worktree`, so that `AnswerOnRecord`, `StartsOnLandedGround`,
`TriesOnce`, `SparesTheWorking`, `AgentFenced`, `WorkIsKept`, `WorkHasItsWorker` and `VerdictIsEarned`
are one definition each, checked by a run and proved in general. The others are instances whose variables are cells `c1`, `c2`, ... that each
reads under its own names. A composite property is the conjunction of the components' own,
which are named and explained in their modules; section 4 lists them with a slip that
breaks each.

### Abstractions

Left out on purpose: prompts, transcripts, diffs, message text, correlation ids,
timestamps and usage figures; heartbeats; the reads that only feed a status
query; Temporal's own retries below an activity's final outcome. The registry
snapshot is a constant. In `NodeAttempts` the epic's kill and pause arrive from
nowhere; in `EpicWorkflow` they are actions. The node's PAUSE_EPIC, which the
epic's scheduler then acts on, is in both.

## 4. What the runs check

| run | instance | distinct states | asks |
|---|---|---|---|
| `NodeAttempts` | two configurations, two worlds, the debugger on a subscription | 4.41 M | type, budgets, what pages offer, brackets, parks, passes, ending answers; it implements `AttemptLoop` |
| `NodeLiveness` | the least ladder with a debugger rung and a subscription | 0.57 M | a kill ends the node; it always ends, if the owner is lent |
| `EpicLandings` | two nodes, three plans | 0.21 M | type, landings watched, recovery budgets, what an ended epic reports; its nodes implement `AttemptLoop` |
| `EpicGraphs` | three nodes: fork, chain, halting | 0.23 M | gates, slots, quiet completion, lock-outs; a kill ends the epic; it always ends, if the owner is lent |
| `Operators` | ten components, `MCOperators` | 2.35 M | what is on record, dispatched, installed, registered and checked is sound |
| `Workers` | 17 components, four with two bounds, `MCWorkers` | 1.60 M | an agent is fenced, work kept, a verdict earned, a record true, workers there |
| `Waits` | page, question, session, `MCWaits` | 0.45 M | each wait ends, the page implements `OneAnswer`, and what an operator was told stands |
| `NodeBudget`, `NodePausePress`, `EpicCompleted`, `EpicStaleRetry`, `MergeFutile` | as above, and one landing | — | each shows one claim of the documentation violated (section 6) |

`CHECK_DEADLOCK FALSE` everywhere: a node that ended, an epic that returned, a
command that is done take no further step. That nothing else stops is what the
liveness properties say.

**Properties of a node.** `RunsOnBudget`: when an agent runs, its rung has room,
but for one slot per expired question. `AttemptTotalBounded`: the attempts that
ran stay inside the dials, the answers, the expired questions and one hand-back.
The run checks both as `StaysOnBudget`.
`PageOffersWork`: a ladder page offers a RETRY that the ladder will honour.
`KeysBracketed`: no key outlives its bracket, whichever path leaves it.
`OwnerNotHeldWaiting`: the host-wide owner is not held across a verification, a page
or a park. The run checks both as `BracketsClose`.
`ParkReleased`: a node that is over holds no question's pause.
`PassIsLast`: a pass is the last attempt's and never over an ending answer.
`EndingAnswerIsFinal` and `KillStops` say what their names say. `NodeEnds`: a node leaves
its loop, if windows run out and the owner it asks for is lent to it at last.
`AttemptLoopHolds`: a key only opens over a worktree and closes on every path, only a
verification passes a node, a page can end it but not pass it, and what it reports in the
end is how the attempt ended. `AttemptLoopsHold` is the same of each node of an epic.

**Properties of an epic.** `BuiltOnItsEdges`: whatever became of the graph since
dispatch, a node with a worktree has its dependencies verified or merged.
`KeysWithinCap`: open keys stay under both caps and inside their brackets, unless a
teardown may fail for good (`KeysClose`): its key then stays open behind a task that
is over, for the proxy's own expiry to close.
`EnqueuedIsWatched`: an enqueued landing has a poll, and never a poll and a
task. `RecoveryBounded`: cycles and free rebases keep their budgets, but for
stale presses. `EndedAccounts`: node states and landing states agree at the end.
`KilledStaysDown`: a killed node is never dispatched again, unless an activity
failed for good. `CompletedIsQuiet`: a completed epic left no task, poll, key,
open landing or dispatchable node (the key again under `KeysClose`). `LockOutBehindDead`: only a death locks
dependents out, never a park. `KillEnds`: a kill ends the epic from any state, also with
nodes waiting for an owner nobody gives back. `EpicEnds`: it ends without one, under the
premises of *Fairness*.

**Properties of the operators' side** (`Operators`, `Waits`) and **of the
workers' side** (`Workers`). Each conjunct of a composite was seen to fail under
the slip beside it, a definition of the same module (see *Slips*):

| composite | conjunct | fails under |
|---|---|---|
| `OneAnswerHolds` | a page is decided once, by an offered choice or its window, and reports it | `transition_unguarded` |
| `ToldIsObeyed` | who is told "recorded" is obeyed | `settle_unanswered_by_timer` |
| `AnswerOnRecord` | the answer the next attempt carries is the row's | `settle_question_unadopted` |
| `StartsOnLandedGround` | a roadmap starts a spec on landed ground | `blockers_lax` |
| `TriesOnce` | over all its turns a chain starts a spec once, and a parked one only when the operator unparked it | `Fresh_unparked` |
| `InstallationIsOwned` | `StartsWhole` | `RolledBack_partly` |
| | `EditsAreKept`, `ProjectStaysOurs` | `Owned_claimed` |
| | `RollbackIsKept` | `_retention_decision_target` |
| | `LeavesNothingOfOurs` | `_perform_forget_anyway` |
| | `EditsAndTheirRecord` | `record_skills_afresh` |
| `CommandsLeaveOneTruth` | `OneSlug` | `register_twice` |
| | `TicksForItsEntry` | `RemoveSchedule_unanswered` |
| | `ConfigLoads` | `Accepted_alone` |
| | `AsksOfWhatIsThere` | `TakeLock_after` |
| `CheckedHolds` | `PassedIsGated` | `_gate_check_finding_warned` |
| | `WiredIsReady` | `_divergence_step_unread` |
| | `SharersDoNotRace` | `_merge_ordered_anyhow` |
| | `GraphRunsOut` | `Infer_blindly` |
| | `FirstAttemptsGoThrough` | `alias_findings_served` |
| `SparesTheWorking` | a reset takes no worktree from under an agent at work | `reset_refusal_unless_waited_for` |
| `AgentFenced` | `LeaseExclusive` | `Admit_unchecked` |
| | `NotLentWhileUsed` | `AttemptEnds_unretained` |
| | `NoLiveAgentBehindAResult`, `LaunchAlone` | `Reclaim_unproved`, `Reap_unproved` |
| `WorkIsKept` | `WorkStaysReachable` | `ArchiveStages_unsaved` |
| | `CutFromItsPin` | `StrayBranch_kept` |
| | `OneProposal` | `open_landing_pr_blind` |
| `VerdictIsEarned` | `BlameIsOwn` | `GateEnds_unreaped` |
| | `PassIsClean` | `change_before` |
| | `ArtifactOnDisk` | `CompareTree_trusting` |
| | `PassIsEarned` | `judge_accepts_contradicted` |
| `RecordIsTrue` | `CompleteIsAll` | `Consistent_stable` |
| | `KeyOutlivesItsUse` | `TeardownDies_revoked` |
| | `ReturnIsTold` | `PromoteSelects_early` |
| | `PromotedHasItsSpec` | `_resolve_promoted_findings_unread` |
| | `NoRowIsDropped` | `_copy_newest` |
| | `RunsAreRead` | `Before_own_clock` |
| | `ShapeIsFresh` | `Additions_rebuild_last` |
| | `CompleteIsTrue` | `_source_status_undigested` |
| | `OneRevisionOfAContent` | `_revision_always_new` |
| | `CompleteIsWhole` | `_record_terminal_again` |
| | `FixedIsFixed` | `_resolution_ever` |
| | `AllowanceIsSpent` | `Share_of_all` |
| | `NobodyIsStarved` | `NextFile_largest` |
| | `LimitHolds` | `Available_unmarked` |
| | `ElisionIsSaid` | `Truncated_by_record` |
| | `CauseIsTrue` | `rejection_cause_by_outcome` |
| | `OutcomeIsOwn` | `_classify_auth_failure_by_marker` |
| | `QuestionIsLast` | `_open_invocation_appending` |
| | `HomeNamesItsRoute` | `_seed_codex_home_over` |
| `WorkHasItsWorker` | `CurrentIsOnTheFloor` | `_start_anyway` |
| | `WorkKeepsItsWorker` | `reapable_idle` |
| | `UnitHasItsTree` | `StopUnit_anyway` |
| | `DispatchedOnce` | `run_dispatch_phase_unmarked` |
| | `FaultsStopTheEngine` | `Observe_driver` |
| | `RecordedIsSaid` | `ProbeDies_written` |
| `NothingIsOverwritten` | `CommitsDirt` | `ArchiveStages_unsaved` |
| | `MovesOriginForward` | `ClearStages_unheld` |
| | `KeepsFigures` | `upsert_record_plainly` |
| | `FilesEscape` | `charged_uncarried` |
| | `ChargesOwn` | `charged_headless` |
| `WaitsEnd` | `PageEnds`, `QuestionEnds` | `Wake_answered` (the question) |
| | `AttemptComesToAnEnd` | `Deadline_unkilled` |

### Bounds, and why they are enough

* Ladder: `max_attempts` 1, one cycle of each rung, `max_judge_retries` 0 make
  each bound bind on its own and in every order within histories of a handful of
  attempts; the second configuration has two pre-agent failures and no rung, so
  that the pre-agent bound and the attempt bound escalate in turn. Two launch
  failures reach the launch page.
* One granted RETRY shows what a grant changes. One question or one hand-back
  (not both: two worlds) reaches every branch that reads them. The theorems of
  section 5 do not depend on these bounds.
* Epics: two nodes suffice for any race over one landing, and a merge edge
  between them shows what the second may assume. Three nodes give a fork under a
  cap and a subscription cap, a transitive lock-out, and two candidates for one
  slot. One recovery cycle and one free rebase each are spent, refused and
  granted again. One stale press and one pause are enough to separate the
  claims that hold with them from those that do not. The halting plan of `EpicGraphs` has
  three free nodes for two slots and two of them on the owner, so that they wait for one
  another's lease and for one held elsewhere, and so do those of `Crashes`; in the chain
  only the last node asks for the owner, in the fork none.
* `plan.faults` names the awaits whose activity may fail for good; the plan
  `Crashes` has one in each phase of a node's life.
* Pages and questions: two presses (two replies) race with each other and with
  the window; two attempts of an activity give one lost answer and one
  exhaustion; one restart of the bridge redelivers once. The theorems about pages do
  not depend on these bounds.
* Processes: two of a kind race (commands, openers, exports, installs, attempts,
  nodes on one credential); a third adds no new pair. One death or fault at a
  time, and the runs that need two executions in a row have two.
* Components with a large product are checked twice with different bounds: two gates
  without and one gate with more room; two openers and one opener with a longer
  history; two exports and one with two artifacts; two runs of an agent and one
  with a longer stream and a limit of two lines.
* `JudgePrompt`: limits of a dozen bytes, lines of one or two, diffs of one to three
  files, so that every branch of the loops is taken: fits, is cut, has no room for
  its name, is refused; gate results that take nothing, some, or all of the limit.
* `Derivation` draws every graph over three stories, every shared file and every
  baseline.

### Fairness

`NodeAttempts.FairSpec` is weak fairness of the coroutine: every activity has a
start-to-close timeout and a bounded retry policy, so it ends or raises, and the
workflow then runs on. `EpicWorkflow.FairSpec` adds the polls: the poll beats on
a timer and gives a stalled landing up. No operator action is fair. Timers of
pages and questions are not fair either: `KillStops` and `KillEnds` hold without
them, and `NodeEnds` and `EpicEnds` state them as premises (`WF_vars(Timers)`,
`WF_vars(Window(n))`), together with the one thing only a human does, resuming an
epic that was paused.

The Codex owner is a premise of its own, `OwnerIsLent`: the lease file is free again and
again (`[]<>`), and a node that keeps asking is admitted at one of those times (strong
fairness of its admission). The code guarantees neither. Where the premise fails, because
an adapter kept its lease, an admission's answer was lost, a node raised between admission
and bracket, or others are always quicker, the node waits in `_acquire_codex_owner` until
it is killed, and its epic with it. Without the premise TLC finds both `NodeEnds` and
`EpicEnds` violated. `KillStops` and `KillEnds` do without it, since the wait looks for a kill
each time round; `AdmitOwner_deaf` is the slip that does not.

`MCWaits.WaitsSpec` is weak fairness of what Temporal runs: the workflow's own
steps (with its durable timer) and the steps of an execution that was scheduled.
Presses, replies, kills, the agent's exit, the bridge and the worker are not fair:
nobody owes them. A page and a question therefore end by their window, and an
execution by its deadline or with its worker.

### Slips

Definitions whose comment begins `Variant:` are not the code's: each is a slip
the code could have made, kept beside the definition it stands in for.
`PROJECT.json` names, for each property of a run, one slip that breaks it; the
table above names the others.

## 5. What is proved

The node's theorems hold for every registry of personas, every set of ladder
configurations with the ranges the manifest enforces, and every bound on the
environment; the epic's for any number of nodes, any graph, caps and dials, and any set of
activities that may fail; the owner's for any number of nodes, manifests, leases and
retries; the session's for any number of executions, beats and worker deaths; the
worktree's for any number of commits and any tolerance; the page's and the question's
for any presses, replies, choices, offers, defaults and retries; the roadmap's for any
corpus, capacity and number of chains; the verdict's for any number of executions, gates,
writes, deaths, asks and tries; the fleet's for any number of builds, rounds, workflows,
boots and units; the operator's commands' for any graph and number of commands. They rest on named assumptions on the
constants, which TLC evaluates: `PersonaAssumption` (`Ladder`), `NodeAssumption`
(`NodeAttempts`), `EpicAssumption`, `CredentialOwnerAssumption`, `AgentSessionAssumption`,
`WorktreeAssumption`, `EscalationAssumption`, `NoOutcomeAssumption` ("no outcome" is none),
`QuestionAssumption`, `RoadmapAssumption`, `GatesAssumption`, `JudgeAssumption`,
`DeployAssumption`, `SupervisorAssumption` and `ProbeAssumption`.

**`NodeAttempts_proofs`.** `TypeOK` is not inductive alone: `expiries` stays
within `asked` only because a parked question has not expired yet
(`QuestionOpen`). The inductive invariant `NodeInv` conjoins

* `KeysInv`, `RaisingInv`, `OwnerInv`: at which awaits a key, the judge's key and
  the owner are open. An exception may unwind only at the awaits of an open
  bracket, which is what closes them on every path;
* `AnsweredInv`: after an ending answer the decision is KILLED and the coroutine
  is closing. This is what makes answers final, and with `ParkInv` what ties a
  pause to the node that asked for it;
* `PassInv`: the decision PASSED is only ever taken on a passing last record, and
  nothing joins the history after it.

From it: `TypeCorrect`, `KeysStayBracketed`, `ParksAreReleased`,
`PassesAreLast`, `OwnerIsGivenBack`, `BracketsAlwaysClose`, and
`EndingAnswersAreFinal` for steps.

**`NodeAttempts_proofs`, the loop.** `NodeImplementsAttemptLoop` is the refinement
`Spec => AttemptLoopHolds`, one lemma per action (it maps to the step of the loop with its
name, or stutters). The mapping needs more than `NodeInv`, and `LoopInv` adds it: past
`prep` there is a worktree, an agent at work is reported RUNNING, and only a node that passed
is reported PASSED. The delicate part is the page: the operator's answer goes
through the same `next_action` as a verification, which passes a node whose last record is a
pass, whatever the answer says. That a page never ends in a pass rests on the ladder opening
one only over a failed last record (`RecordPages`), and on nothing joining the history while
the page is open.

**`NodeAttempts_proofs`, the budgets.** The three roles of the ladder (the node's own, the
promotion, the debugger) are told apart by persona name alone, so the budget
theorems assume that the names differ (`DistinctRoles`); an epic whose node
declares the promotion persona or the debugger really can exceed them. The
argument is an account. `Overrun(h, e)` is how far the three counts of a history
run past their dials, and `OverrunBy(h, e, p)` the same with one more attempt of
`p` charged in advance. The ladder chooses a rung with room, so charging the
attempt it chooses overruns nothing (`DecisionOverrun`); recording an attempt
spends at most what was charged (`AppendOverrun`); a grant only makes room
(`GrantOverrun`); and an expired question is the one place where an attempt is
charged without asking the ladder, for one slot (`ExpiryBudget`, with
`OverrunByOne`). So the overrun never exceeds the expired questions
(`BudgetInv`), plus one for a recorded hand-back (`HandBackInv` says there is
only one). `AttemptsRunOnBudget` and `AttemptsAreBounded` follow (together: `AttemptsStayOnBudget`), and
`PagesOfferWork`: with no expiry there is no overrun, so one grant always makes
room, also under the judge's veto and the pre-agent bound.

**`Workers_proofs`, the lease.** That two nodes never hold the owner is not
inductive: nothing in it keeps a node's release from removing another's lease. `LeaseInv` adds to the type

* `LeasesAreDrawn`: every lease in use or remembered was drawn, and no two nodes
  drew the same, so that a release cannot take another's away;
* `HolderHasIt`: between its admission and its release a node has a lease, and it is
  the one on disk;
* `AgentHasIt`: an agent somebody still answers for stands behind the lease on disk,
  also after its bracket is over (a retained one).

From it: `OwnerTypeCorrect`, `LeaseIsExclusive`, `CredentialNotLentWhileUsed`; the
last two are the owner's half of `AgentFenced`.

**`Workers_proofs`, the process.** The other half, and the whole. That no agent lives behind its
result, and that none is launched beside another, is not inductive: the second depends on a
process group the code knows only by a file. `SessionInv` adds to the type

* `GroupIsLaunched`: a living group was launched, and its execution has not proved it
  dead yet;
* `OneAfterAnother`: Temporal starts an execution only when those before are over or
  given up, so one at a time is between its reap and its pid file;
* `HandleIsHeld`: until a group is lost sight of (`handle_lost`, the launch whose worker
  dies before it wrote the file), the file names every living group, or the execution
  that launched it is about to write it; who is about to launch has seen the others dead.

`AgentAlwaysFenced` joins `LeaseInv` and `SessionInv`: neither component reads what the
other keeps, so their conjunction is an invariant of both running at once
(`FenceSpec`), in any interleaving.

**`Workers_proofs`, the verdict.** A gate is blamed for what it wrote by comparing two snapshots of the
tree, and nothing in the comparison says whose the writes between them are. `GatesInv` adds
to the type

* `RunInv`: the gates to come have no process and have written nothing (`Fresh`), what the
  gate under way wrote came after the snapshot it is compared with, and the digest carried
  from one gate to the next is of bytes on disk. This alone gives `PassIsClean` (whatever the
  gate wrote is in the comparison) and `ArtifactOnDisk`, in the sandbox and on the host;
* `OneInv`: Temporal starts an execution when those before it are over or given up. One that
  was given up may still be in its thread, so two can write to one tree;
* `SandboxInv`: in the sandbox a process lives while its gate runs (`--die-with-parent`);
* `BlameInv`: in the sandbox, and while no execution was given up, nobody writes between two
  gates, and under a gate only it. It is what `BlameIsOwn` needs, and why that is claimed of
  the sandbox only.

`JudgeInv` says of a row on its way to the record that the judge was asked wherever it had
to be, as long as there were asks, and that a reply that objects is the last word unless an
outage is; `PassIsEarned` follows. `VerdictIsAlwaysEarned` joins the two: `Judge` takes any
results the gates can return.

**`Workers_proofs`, the fleet.** A deploy and a sweep are rounds of many commands, any of which may
be the last; they exclude each other by a lock of the file system, and the server's count of
open workflows is read some steps before it is relied on. `DeployInv` adds to the type

* `FloorInv`: one round at a time is past the lock;
* `DrainedInv`: a version the server calls drained has nothing open and is not the current
  one, which stays so, since work starts on the current version only;
* `DeployingInv`: a deploy's build has its tree before its unit and its unit before it is
  made current, however late the round goes on;
* `SweepingInv`: what a sweep may still rely on of its targets at each of its steps: none is
  the current version, nothing is open on one beyond what was counted, and a checkout is only
  removed once no unit runs from it.

`CurrentIsOnTheFloor`, `WorkKeepsItsWorker` and `UnitHasItsTree` are inductive with these.
The supervisor's `ShippedInv` (the epic is shipped once, behind its sentinel) and `ToldInv`
(a child is told to go behind a signal or the first death, and nobody before) give
`DispatchedOnce` and `FaultsStopTheEngine`; the probe's `SaidInv` (a verdict goes to disk once
it was said, where it is news) gives `RecordedIsSaid`. `WorkAlwaysHasItsWorker` joins them.

**`EpicWorkflow_proofs`.** None of the epic's properties is inductive; one invariant,
`EpicInv`, carries them all. Of each node (`LocalOK`):

* `LandingOK`: which landing a task may have in its hands at each of its awaits. Two
  coroutines, the task and the poll, and the scheduler's kill write it; this says who
  owns it when, and `EnqueuedIsWatched` needs it for "never a poll and a task";
* `CarryOK`, `BudgetOK`: what a task carries into its next await, and that an offer or a
  free rebase it carries is still within the budget;
* `WaitingOK`: what a node parked on the operator can still do: answer inside its first
  run, or end on a swept worktree;
* `UnfaultedOK`: with no activity failing for good, nothing raises and no node is killed
  over a landing that could be recovered (for `KilledStaysDown`).

Of the epic: `BuiltInv` (a node being prepared or with a worktree has its edges),
`SlotsInv` (what is in flight is within both caps, from which the keys are), `SettledOK`
(who answers for an enqueued or a dead landing), `KillInv` with `Lingering`, and
`ShellInv` (what an ended epic reports). `KillInv` is the delicate one: a kill does not wait
for nodes parked on an operator, so `Lingering` says of every task it does not wait for that no
step of it can reach a verdict or the queue any more. It is why the report of a killed
epic can be trusted while such tasks are still there.

A step of a node is checked against `StepOK`, which says of the new record alone what
the rest of `EpicInv` needs (`NodeStep`); there is one lemma per action, and the greedy
`Dispatch` and the reaping with its lock-out, which change many nodes at once, have
their own (`DispatchedIs`, `ReapedIs`). `LockedOut` is the least closed set, hence a
fixed point (`LockOutIsLeast`): each node in it has a dead edge, whose other end is dead
or locked out with it, and either way reported KILLED (`LockOutAlwaysBehindDead`). Proving `KeysWithinCap` showed that it was
stated too strongly: a teardown that fails for good leaves its key open, which the plans of
the runs never drew. It and its part of `CompletedIsQuiet` now say so (`KeysClose`).

`EpicImplementsAttemptLoops` is the other half of the refinement, `Spec => AttemptLoopsHold`.
`LoopsInv` adds that a node that has not passed has proposed nothing, works in a worktree and
is in its loop or out of every task. The steps of one node map as `NodeAttempts`' do; those that
change many (`Dispatch`, the reaping, `kill_remaining`) map for each node to `Reap`, to `LockOut`,
to `kill_remaining` or to a stutter. That a killed epic abandons no verification, page or
pass is what `Lingering` says, and what makes `Abandoned` as small as it is.

**`Worktree_proofs`.** An operation on the clone is a sequence of states, one after each git
command, any of which may be the last. So the proof is about states: `Sound` (ancestry is
what git makes of it, `Ancestry`; refs name commits, `RefsAreCommits`; a tree was cut
from its pin, `TreeIsCut`), and `Keeps`, a relation of two states: the second is sound, and
its refs hold all that the first's held and all that was committed since. `Keeps` is
reflexive and transitive (`KeepsItself`, `KeepsOn`), so an operation is proved stage by stage
(`Rebuilds`, `AllKeep`, `StagesJoin`), whichever is the last. The theorems are
`WorkAlwaysKept`, and for steps `OriginAlwaysMovesForward`, by which the branch on origin
moves on to what reaches it, or goes when origin keeps all it held, and
`DirtAlwaysCommitted`: what the agent left uncommitted leaves the tree as a commit, or by
`remove` (`Saves`, a second relation of stages, which joins because `Keeps` lets no
commit go).

**`Roadmap_proofs`.** Between the reading that finds a spec ready and its dispatch the
operator edits the corpus, other specs start, and epics end, so `StartsOnLandedGround`
is not inductive. `GroundInv` adds that what is listed for dispatch stands on landed
ground and has not concluded (`ListedIsReady`), and that what the run or Temporal holds
for landed is on the landing branch (`LandedIsOnMain`); what makes both stable is that
what has landed only grows (`GroundGrows`). `AlwaysConcludedOnce` is an action property: no
spec that concluded in a chain is started in it again. `AlwaysTriesOnce` is the stronger one:
a chain starts each spec once over all its turns, and one it parked only when it was
unparked. It needs `TriedInv`, where the run remembers what became of a spec: a started
one among its children or in its record of what landed, which every turn hands on at once; a
parked one in the parks or, from a turn until the new run's first task, in the carry-over.

**`EpicCommands_proofs`.** A command reads an epic, is thought over, and acts; the epic, its
operator and other commands go on in between, and `stale` marks a command that something
overtook. What it may still rely on otherwise is `CommandOK`: a reset, that no agent works in
the trees it takes; a start past its preflight, that no node meets another clone's worktree or a
branch it cannot push over, and past the aliases, that no key of theirs is live.
`NodeOK` carries the start's reading on into the epic it begins, to the end of each node's
first attempt. With them, `AlwaysSparesTheWorking` and `FirstAttemptsAlwaysGoThrough` hold for any
graph and any number of commands at once. Both claim nothing of a command that was
overtaken, and the code has no check that would let them.

**`Escalation_proofs`.** `PageInv` adds to the type

* `AwaitInv`: what the workflow knows at its await: the row exists before anybody
  waits, and only the expiry writes EXPIRED;
* `ResultInv`: an activity's answer not yet read is still what the row says, unless
  the store could not be read: this is what makes a lost answer harmless;
* `OutcomeInv`: a report was made once, from the row;
* `PressInv`: presses in flight and delivered were offered, and one that was told
  "recorded" decided the row.

`EscalationTypeCorrect` and `ToldIsAlwaysObeyed` follow. `PageKeepsItsPromise` is
the refinement, `EscalationSpec => OneAnswerHolds`: of all steps, the guarded
updates of bridge, command line and `settle` map to `OneAnswer`'s decision, the
workflow's closing to its report, and the rest to stutters. It is why `NodeAttempts`
may take a page for one nondeterministic outcome.

The question's rows are settled by the same guarded `UPDATE`, and its argument is the
page's, with `AskInv` for what the workflow knows and `ExpiryIsLast` for who writes
EXPIRED: `AnswerAlwaysOnRecord`, and `SettledRowAlwaysStays` for steps.

**Only model-checked.** Liveness under fairness (`KillStops`, `NodeEnds`,
`KillEnds`, `EpicEnds`, `WaitsEnd`) is out of the prover's reach, as is `ENABLED`;
induction over data and `RECURSIVE` operators are too, and the modules avoid them.
Of safety, the composites whose components have no proofs yet:
`InstallationIsOwned`, `CommandsLeaveOneTruth`, `CheckedHolds` (of which
`FirstAttemptsGoThrough` is proved),
`RecordIsTrue`, `NothingIsOverwritten` (of
which the worktree's two parts are proved), and the type invariants `OperatorTypeOK`
and `WorkerTypeOK`, which only join those of the components.

## 6. What the models found

| run | claim | what the code does |
|---|---|---|
| `NodeBudget` | "Re-enter the ladder as a FAIL" (`workflow.py:2205`) | an expired question appends a FAIL and starts the next attempt without asking the ladder, so an attempt runs on a spent budget (2211–2245) |
| `NodePausePress` | PAUSE_EPIC parks the epic resumably (`verify/models.py:151`) | on the launch-failure page it kills the node and pauses nothing (2434–2442) |
| `EpicCompleted` | "Drive every node of the graph to a terminal state" (`workflow.py:1025`; `workgraph/models.py:160`) | COMPLETED is reported over a node parked by PAUSE_EPIC, or one left PENDING behind a landing that its poll ended (1224–1268) |
| `EpicStaleRetry` | RETRY counts only while a cycle remains (`workflow.py:4168`), unoffered answers are refused (3371) | the landing page compares with RETRY before anything asks whether it was offered (4143, 4200): a cycle past the budget |
| `MergeFutile` | "the tree the queue already rejected vs. the tree we are about to push. Identical trees require a human's flake judgment." (`workflow.py:4422`) | `compare_trees` is handed the commit the worktree was cut from (4433): the rejected tree is enqueued again unasked |

**Stated, violated, and claimed by no run.** These definitions stand in their modules'
properties. Each quotes the code or says what a reader would expect, and TLC
finds it violated. What they show is less plain than the findings above, or reached
only through a crash.

| module | definition | what happens |
|---|---|---|
| `Question` | `RecordedReplyCarried` | "the next attempt will carry it" (`notify/service.py:183`): a reply recorded as another one wakes the workflow; the workflow carries the first it heard, which the command line may have sent (`question.py:156`) |
| `AgentSession` | `KillLandsWithinABeat` | a cancellation that lands in a ferry or the beat before it is swallowed (`adapter.py:1658`, 1723, 1740) |
| `AgentSession` | `KilledIsDead` | cancelled in the finalization, the attempt ends KILLED before the group is proved dead (1246) |
| `AttemptEvidence` | `NoOutcomeIsInherited` | an execution that ends before it has an agent is classified by the archive of the one before |
| `Worktree` | `ResetLeavesNothing` | a reset broken off after the archive leaves the branch, and the second call takes the archive for done (`worktree.py:1788`) |
| `Worktree` | `RecordedPinIsCurrent` | with the directory gone, a recorded pin passes one of its two checks (476) |
| `Judge` | `ObjectionStands` | a reply with a standing objection beside a contradicted one is asked for again; if the judge is then unavailable, the node passes |
| `JudgePrompt` | `RecordTellsOfTheCut` | gate results take of the diff's limit (`judge.py:372`), not of the record's (`diffbounds.py:166`): cut without the record saying so |
| `Roadmap` | `PauseIsKept` | a pause sent to a run's successor before its first task is overwritten by the carry-over |
| `Derivation` | `RemainderDoesNotRace` | a remainder graph is compiled without the inferred edges of the whole |
| `Derivation` | `RenumberingIsRefused` | a landed story whose content is another's now is taken for not landed, and built again |
| `EpicCommands` | `SparesThePreparing` | a dispatched node without a key reads PENDING, and a reset takes its tree |
| `Repos` | `ScheduleIsWatched` | `init` of a repository under another slug moves the entry and leaves the first slug's schedule |
| `Repos` | `EvidenceIsKept` | a `forget --clean` that found nothing running takes the runtime root of an epic that started since |
| `Install` | `AnswersAreAccepted` | an answer file that passed its validation runs into an assertion of the interview, which asks fewer questions once `direct` is answered |
| `Supervisor` | `StragglersAreKilled` | the timeout of the grace period cancels the waits for the children, so none counts as running any more and none is killed (`container_supervisor.py:525`) |
| `Doctor` | `TrailTellsTheStatus` | of two commands that close one finding, both write the event |
| `StoreMigration` | `StoreStaysOpenable` | an opener that dies before the rename leaves a table no later connect gets past |
| `Attestation` | `PredecessorIsTheLast` | the predecessor is the greatest digest, not the last packet |

Further observations, which no document contradicts clearly enough to be a claim
the runs could refute, or which later modules will reach:

* One RETRY after a judge-cap page lifts the judge's veto from every attempt
  still unspent (`ladder.py:209–238`: "each buys exactly one attempt").
* `_paused` is one boolean for the operator's pause and every question's park;
  the first answer resumes them all (2238).
* `admit_codex_owner` precedes the bracket, so a raise in `resolve_standards` or
  `issue_attempt_key` leaves the owner held (1927). Its lease is not idempotent
  under a lost answer (`codex_credential.py:174–240`), and nothing reclaims it: every later
  admission on the host is busy for ever (`OwnerIsLent` excludes it).
* `enqueue_landing` raising after the landing is recorded leaves it PR_OPEN with
  no poll: the epic never ends (3691). `EpicEnds` is stated for plans without
  such faults.
* A recovery that raises ends its node KILLED and leaves the landing REJECTED:
  the scheduler dispatches it again (1592, 1774). A ref conflict's PAUSE_EPIC on
  a re-enqueue leaves the same rejection, on a swept worktree (3616).
* A kill that finds a question closing its key, or the key being re-issued after
  its answer, drains past it (1732) and may return with the key open.
* `_reenqueue` says that it re-enqueues the same pull request (4411); if that one was
  closed, another is opened and enqueued, and `landing.pr_number`, which the poll
  reads, stays the old one.
* A launch that failed is recorded by the journal only when the teardown runs
  (`usage_activities.py:184`; `workflow.py:2794`).
* `ergane uninstall` takes the engine container down while an epic runs
  (`uninstall.py:441`).
* Two processes that number a new specification at once may draw one number
  (`spec.py:255`, 362).
* A reset from another clone does not see the worktree of the first
  (`worktree.py:1766`).
* Refused enqueues, stopped polls and kills leave worktrees on disk (3699, 3855).
* A verified-gated dependent that is still PENDING is locked out when its
  dependency's landing dies (1629).
* A kill between a poll's worktree removal and its MERGED write reports a merged
  pull request as KILLED (3849).
* A teardown that raises skips the close-out, and so the salvage.
* While landings are open and no task runs, a node that a merge unlocked waits
  for all of them (1197).
* `architecture.md:190` says a PAUSE_EPIC parks the node `FAILED`; the code parks
  it `WAITING_OPERATOR`, as 079 decided.

## 7. What is not modelled, and the plan

Not modelled, for good, since nothing in it runs concurrently, fails half way or
keeps state between calls: configuration and persona parsing (`config.py`),
manifests and criteria (`factory_yaml.py`, `criteria.py`), the control plane's
conformance probes, prompts and specification anchors, message text, redaction,
rendering, the command shell and the worker's registration of activities. What they
return is a constant or a choice of the modules that call them.

Left out of a modelled component, by component: several clones of one repository
(`Worktree`); a target's own writes outside a gate (`Gates`); sandbox arguments
(`AgentSession`); enrolment and device checks, which only refuse
(`CredentialOwner`); reports and queries over the ledger (`Usage`); the probes that raise
findings (`Doctor`); the rendering of compose files and units (`EngineProject`,
`Teardown`). `Detector` assumes that the operator does not commit a path an agent
escaped to: who did is then undecidable, and the code charges the agent.

Hazards seen and not listed, because no document says which way they should go:
what one RETRY lifts (`ladder.py:232`), the two pauses in one flag
(`workflow.py:2244`), the pending dependent of a dead landing (1629), the drain past
a waiting node (1727), the poll cancelled over its MERGED write (3849), the park that
leaves a rejection (3616). Section 6 describes each.

Theorems that remain, in order: `OneSlug` of `Repos`
and `ConfigLoads` of `Install`. Components that are
proved together share a module because they rest on one another, or because a run joins them.
