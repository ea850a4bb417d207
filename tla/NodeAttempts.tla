---------------------------- MODULE NodeAttempts ----------------------------
(***************************************************************************)
(* EpicWorkflow._run_node (factory/workgraph/workflow.py): one node from   *)
(* dispatch to its last attempt, with the brackets it opens around each    *)
(* attempt (attempt key, judge key, Codex credential owner), the operator  *)
(* pages, the question park, and the close-out.  The landing phase that    *)
(* follows a PASS is EpicWorkflow's.                                       *)
(*                                                                         *)
(* One action is one step of the coroutine, from an await to the next.     *)
(* `pc` names the await the coroutine is suspended on:                     *)
(*   prep        snapshot_criteria, prepare_worktree                       *)
(*   admit       admit_codex_owner, or the sleep between two admissions    *)
(*   standards   resolve_standards            issue    issue_attempt_key   *)
(*   run         the agent activity           release  release_codex_owner *)
(*   marker      detect_operator_question     ask      salvage, start child*)
(*   parkclose   teardown before the park     parked   the question's wait *)
(*   gates       run_gates, check_output      judge    run_judge           *)
(*   judgeclose  teardown of the judge key    record   record_verification *)
(*   page        an EscalationWorkflow child  teardown the `finally` of an *)
(*   salvage, sweep   _close_out                       attempt             *)
(*   landing     handed to _land              raised   the coroutine died  *)
(*   ended       the coroutine returned, or was reaped                     *)
(* Every activity may also fail for good: then it raises into the          *)
(* coroutine.                                                              *)
(***************************************************************************)
EXTENDS Ladder

CONSTANTS
    Configs,         \* the ladder configurations an epic may be pinned to
    NodePersona,     \* the persona the node declares
    Snapshot,        \* the personas the epic's registry snapshot resolved
    Owned,           \* the subscription ones, when a Codex owner is declared
    Bounds           \* bounds on the environment, below: one is drawn per run

ASSUME NodeAssumption ==
    /\ Configs \subseteq VerificationConfig /\ Configs # {}
    /\ NodePersona \in Snapshot /\ Snapshot \subseteq Persona
    /\ Owned \subseteq Snapshot
    /\ Bounds # {}
    /\ Bounds \subseteq [grants     : Nat,     \* RETRY presses the operator makes
                         questions  : Nat,     \* attempts that end in a question
                         hand_backs : Nat]     \* completions buffered at a time

VARIABLES
    config,            \* request.config
    bound,             \* the environment's bounds in this run
    pc,
    state,             \* record.state
    verified,          \* record.verified
    persona,           \* who the current attempt runs as
    history,           \* record.history
    escalations,       \* record.escalations
    offered,           \* record.offered_choices
    launch_page,       \* the open page is the launch-failure one
    attempt,           \* record.attempt
    launch_failures,   \* record.launch_failures
    action,            \* the ladder's last decision, "none" before the first
    ended,             \* how the agent activity ended: termination
    verdict,           \* the result under composition: verdict, judge RETRY
    hand_back,         \* the verification under way is of an external completion
    parked,            \* a PAUSE_EPIC press ended the node
    raising,           \* an exception is unwinding through the `finally`
    key, judge_key,    \* an attempt key, a judge key is open at the proxy
    owner,             \* active-lease.json of the Codex owner: no file, this
                       \* attempt's, an earlier attempt's, somebody else's
    external,          \* buffered external completions
    paused,            \* self._paused, as far as this node moves it
    kill_requested,    \* self._kill_requested
    worktree,          \* the worktree is on disk
    asked, expiries    \* how many questions were asked, and burned a slot

ladder  == <<config, bound, persona, history, escalations, attempt, launch_failures>>
pages   == <<offered, launch_page, asked, expiries, external>>
bracket == <<key, judge_key, owner>>
epic    == <<paused, kill_requested>>
node    == <<state, verified, worktree>>
flow    == <<pc, action, ended, verdict, hand_back, parked, raising>>
vars    == <<ladder, pages, bracket, epic, node, flow>>

PCs == {"prep", "admit", "standards", "issue", "run", "release", "marker", "ask",
        "parkclose", "parked", "gates", "judge", "judgeclose", "record",
        "page", "teardown", "salvage", "sweep", "landing", "raised", "ended"}

Endings == {"none", "agent", "pre_agent", "launch_failed", "cancelled"}
Verdict == [pass : BOOLEAN, rewrite : BOOLEAN]
NoVerdict == [pass |-> FALSE, rewrite |-> FALSE]

TypeOK ==
    /\ config \in Configs /\ bound \in Bounds /\ pc \in PCs
    /\ state \in {"PENDING", "RUNNING", "VERIFYING", "WAITING_OPERATOR", "PASSED", "KILLED"}
    /\ persona \in Persona /\ history \in Seq(AttemptRecord)
    /\ escalations \in Seq(Resolution) /\ offered \subseteq Choice
    /\ attempt \in Nat /\ launch_failures \in Nat
    /\ action \in Action \cup {"none"} /\ ended \in Endings /\ verdict \in Verdict
    /\ verified \in BOOLEAN /\ launch_page \in BOOLEAN /\ hand_back \in BOOLEAN
    /\ parked \in BOOLEAN /\ raising \in BOOLEAN /\ key \in BOOLEAN /\ judge_key \in BOOLEAN
    /\ paused \in BOOLEAN /\ kill_requested \in BOOLEAN /\ worktree \in BOOLEAN
    /\ owner \in {"none", "held", "retained", "elsewhere"}
    /\ external \in 0..bound.hand_backs /\ asked \in 0..bound.questions /\ expiries \in 0..asked

Init ==
    /\ config \in Configs /\ bound \in Bounds /\ pc = "prep" /\ state = "PENDING" /\ verified = FALSE
    /\ persona = NodePersona /\ history = << >> /\ escalations = << >>
    /\ offered = {} /\ launch_page = FALSE /\ attempt = 0 /\ launch_failures = 0
    /\ action = "none" /\ ended = "none" /\ parked = FALSE /\ raising = FALSE
    /\ key = FALSE /\ judge_key = FALSE /\ owner = "none" /\ external = 0
    /\ paused = FALSE /\ kill_requested = FALSE /\ worktree = FALSE
    /\ asked = 0 /\ expiries = 0 /\ hand_back = FALSE
    /\ verdict = NoVerdict

-----------------------------------------------------------------------------
(* The coroutine's synchronous stretches.                                   *)

RungSelection(a) == IF a = "DEBUGGER" THEN Debugger
                    ELSE IF a = "PROMOTE" THEN config.promotion_persona
                    ELSE NodePersona

\* Past admission: the rung's routing is read before the attempt is numbered.
Launch(p) ==
    IF p \in Snapshot
    THEN attempt' = attempt + 1 /\ pc' = "standards"
    ELSE attempt' = attempt /\ pc' = "raised"

\* The code after the attempt loop.
Leave(a, pk) ==
    /\ external' = 0
    /\ IF a = "PASSED"
       THEN verified' = TRUE /\ state' = "PASSED" /\ pc' = "salvage"
       ELSE /\ UNCHANGED <<verified, state>>
            /\ pc' = IF ~pk /\ state = "WAITING_OPERATOR" THEN "ended" ELSE "salvage"

\* The top of the attempt loop.
Enter(p, buffered) ==
    /\ persona' = p
    /\ IF kill_requested
       THEN action' = "KILLED" /\ attempt' = attempt /\ Leave("KILLED", FALSE)
       ELSE /\ UNCHANGED <<action, state, verified>> /\ external' = buffered
            /\ IF p \in Owned THEN pc' = "admit" /\ attempt' = attempt ELSE Launch(p)

\* A ladder decision other than ESCALATE: the rung is picked before the
\* `finally` closes the attempt that led to it.
Chosen(a) ==
    /\ action' = a /\ pc' = "teardown"
    /\ IF a \in TERMINAL_ACTIONS
       THEN UNCHANGED <<persona, external>>
       ELSE persona' = RungSelection(a) /\ external' = 0

\* _page_the_operator, up to its wait.
OpenPage(choices, launch) ==
    IF kill_requested \/ \E i \in DOMAIN escalations : ends_the_node(escalations[i])
    THEN /\ action' = "KILLED" /\ pc' = "teardown" /\ UNCHANGED <<offered, launch_page>>
    ELSE /\ pc' = "page" /\ offered' = choices /\ launch_page' = launch
         /\ UNCHANGED action

-----------------------------------------------------------------------------
(* Before the agent runs.                                                   *)

Prepare ==
    /\ pc = "prep"
    /\ worktree' = TRUE
    /\ Enter(NodePersona, 0)
    /\ UNCHANGED <<config, bound, history, escalations, launch_failures, offered, launch_page,
                   asked, expiries, bracket, epic, ended, verdict, hand_back, parked,
                   raising>>

\* A lease file on disk, whoever left it there, makes the owner busy: the node
\* sleeps and asks again, with no window.  Only a kill gives up the wait; the
\* attempt is then routed unowned.
AdmitOwner ==
    /\ pc = "admit"
    /\ \/ kill_requested /\ owner' = owner
       \/ owner = "none" /\ owner' = "held"
    /\ Launch(persona)
    /\ UNCHANGED <<config, bound, persona, history, escalations, launch_failures, pages, key,
                   judge_key, epic, node, action, ended, verdict, hand_back, parked,
                   raising>>

\* The other nodes of the host take the owner and give it back.  When they have
\* it only matters while this node asks.
LeaseTaken ==
    /\ pc = "admit" /\ owner = "none"
    /\ owner' = "elsewhere"
    /\ UNCHANGED <<ladder, pages, key, judge_key, epic, node, flow>>

LeaseReturned ==
    /\ owner = "elsewhere"
    /\ owner' = "none"
    /\ UNCHANGED <<ladder, pages, key, judge_key, epic, node, flow>>

ResolveStandards ==
    /\ pc = "standards"
    /\ pc' = "issue"
    /\ UNCHANGED <<ladder, pages, bracket, epic, node, action, ended, verdict, hand_back,
                   parked, raising>>

IssueKey ==
    /\ pc = "issue"
    /\ pc' = "run" /\ key' = TRUE /\ state' = "RUNNING" /\ ended' = "none"
    /\ UNCHANGED <<ladder, pages, judge_key, owner, epic, verified, worktree, action,
                   verdict, hand_back, parked, raising>>

-----------------------------------------------------------------------------
(* The agent, and the signal it may leave.                                  *)

\* The activity's own ending; the adapter may keep the owner for a session
\* it could not reap, and then nothing takes the lease file away again.
AgentEnds ==
    /\ pc = "run"
    /\ pc' = "release"
    /\ \/ /\ ended' \in {"agent", "pre_agent"}
          /\ owner' \in IF owner = "held" THEN {"held", "retained"} ELSE {owner}
       \/ ended' = "launch_failed" /\ UNCHANGED owner
    /\ UNCHANGED <<ladder, pages, key, judge_key, epic, node, action, verdict, hand_back,
                   parked, raising>>

\* A kill cancels the activity and reads the proxy once; the read may raise.
CancelAgent ==
    /\ pc = "run" /\ kill_requested
    /\ pc' = "release" /\ ended' = "cancelled" /\ raising' \in BOOLEAN
    /\ UNCHANGED <<ladder, pages, bracket, epic, node, action, verdict, hand_back, parked>>

\* The bracket gives back its own lease, unless the adapter retained it.
\* Variant: the bracket is left to the next attempt.
release_codex_owner_never == owner
release_codex_owner       == IF owner = "held" THEN "none" ELSE owner

\* The adapter never started: a free relaunch, then a page with no RETRY on it.
LaunchFailed ==
    /\ launch_failures' = launch_failures + 1
    /\ IF launch_failures + 1 >= config.max_launch_retries
       THEN OpenPage(offered_choices(FALSE), TRUE)
       ELSE action' = "RETRY" /\ pc' = "teardown" /\ UNCHANGED <<offered, launch_page>>

ReleaseOwner ==
    /\ pc = "release"
    /\ owner' = release_codex_owner
    /\ \/ raising /\ pc' = "teardown" /\ UNCHANGED <<action, launch_failures, offered, launch_page>>
       \/ ~raising /\ ended = "launch_failed" /\ LaunchFailed
       \/ /\ ~raising /\ ended # "launch_failed"
          /\ IF kill_requested
             THEN action' = "KILLED" /\ pc' = "teardown"
             ELSE pc' = "marker" /\ UNCHANGED action
          /\ UNCHANGED <<launch_failures, offered, launch_page>>
    /\ UNCHANGED <<config, bound, persona, history, escalations, attempt, asked, expiries,
                   external, key, judge_key, epic, node, ended, verdict, hand_back,
                   parked, raising>>

ScanMarker ==
    /\ pc = "marker"
    /\ \/ asked < bound.questions /\ pc' = "ask" /\ asked' = asked + 1 /\ UNCHANGED state
       \/ pc' = "gates" /\ state' = "VERIFYING" /\ UNCHANGED asked
    /\ UNCHANGED <<ladder, offered, launch_page, expiries, external, bracket, epic,
                   verified, worktree, action, ended, verdict, hand_back, parked, raising>>

-----------------------------------------------------------------------------
(* The question park.                                                       *)

AskOperator ==
    /\ pc = "ask"
    /\ pc' = "parkclose" /\ state' = "WAITING_OPERATOR" /\ paused' = TRUE
    /\ UNCHANGED <<ladder, pages, bracket, kill_requested, verified, worktree, action,
                   ended, verdict, hand_back, parked, raising>>

\* Variant: the node parks on an open key.
CloseForPark_keyed ==
    /\ pc = "parkclose"
    /\ pc' = "parked" /\ key' = key
    /\ UNCHANGED <<ladder, pages, judge_key, owner, epic, node, action, ended, verdict,
                   hand_back, parked, raising>>

CloseForPark ==
    /\ pc = "parkclose"
    /\ pc' = "parked" /\ key' = FALSE
    /\ UNCHANGED <<ladder, pages, judge_key, owner, epic, node, action, ended, verdict,
                   hand_back, parked, raising>>

\* An answer carries into the next prompt and costs nothing; an expired window
\* appends a FAIL.  Neither consults next_action.
Unpark(expired) ==
    /\ pc = "parked"
    /\ paused' = FALSE
    /\ IF expired
       THEN /\ history' = Append(history, [persona |-> persona, pass |-> FALSE,
                                           rewrite |-> FALSE, pre |-> FALSE])
            /\ expiries' = expiries + 1
       ELSE UNCHANGED <<history, expiries>>
    /\ Enter(persona, external) /\ ended' = "none"
    /\ UNCHANGED <<config, bound, escalations, launch_failures, offered, launch_page, asked,
                   bracket, kill_requested, worktree, verdict, hand_back, parked,
                   raising>>

KillParked ==
    /\ pc = "parked" /\ kill_requested
    /\ action' = "KILLED" /\ Leave("KILLED", FALSE)
    /\ UNCHANGED <<ladder, offered, launch_page, asked, expiries, bracket, epic, worktree,
                   ended, verdict, hand_back, parked, raising>>

-----------------------------------------------------------------------------
(* Verification, of an attempt or of a hand-back.                           *)

RunGates ==
    /\ pc = "gates"
    /\ \/ pc' = "judge" /\ judge_key' = TRUE /\ UNCHANGED verdict
       \/ \E pass \in BOOLEAN :              \* judge_required said no
             /\ verdict' = [pass |-> pass, rewrite |-> FALSE]
             /\ pc' = "record" /\ UNCHANGED judge_key
    /\ UNCHANGED <<ladder, pages, key, owner, epic, node, action, ended, hand_back,
                   parked, raising>>

\* UNAVAILABLE composes to a PASS; RETRY and FAIL to a FAIL.  Any other error
\* raises through the `finally` that revokes the judge's key.
RunJudge ==
    /\ pc = "judge"
    /\ pc' = "judgeclose"
    /\ \/ verdict' \in {v \in Verdict : ~(v.pass /\ v.rewrite)} /\ UNCHANGED raising
       \/ raising' = TRUE /\ UNCHANGED verdict
    /\ UNCHANGED <<ladder, pages, bracket, epic, node, action, ended, hand_back, parked>>

CloseJudge ==
    /\ pc = "judgeclose"
    /\ judge_key' = FALSE
    /\ pc' = IF raising THEN "teardown" ELSE "record"
    /\ UNCHANGED <<ladder, pages, key, owner, epic, node, action, ended, verdict,
                   hand_back, parked, raising>>

Recorded == Append(history,
    [persona |-> IF hand_back THEN NodePersona ELSE persona,
     pass |-> verdict.pass, rewrite |-> verdict.rewrite,
     pre |-> ~hand_back /\ ended = "pre_agent"])

\* A hand-back decides by its own verdict.
\* Variant: by having been offered.
external_action_trusting(v) == "PASSED"
external_action(v)          == IF v.pass THEN "PASSED" ELSE "KILLED"

\* The row is written, the record joins the history and the ladder decides.
\* An exhausted ladder takes a buffered hand-back before it pages anyone.
RecordVerification ==
    /\ pc = "record"
    /\ history' = Recorded
    /\ LET a == next_action(Recorded, config, escalations) IN
       \/ /\ hand_back
          /\ action' = external_action(verdict) /\ pc' = "teardown"
          /\ UNCHANGED <<persona, external, offered, launch_page, attempt, hand_back>>
       \/ /\ ~hand_back /\ a # "ESCALATE" /\ Chosen(a)
          /\ UNCHANGED <<offered, launch_page, attempt, hand_back>>
       \/ /\ ~hand_back /\ a = "ESCALATE" /\ external > 0
          /\ external' = external - 1 /\ attempt' = attempt + 1
          /\ hand_back' = TRUE /\ pc' = "gates"
          /\ UNCHANGED <<persona, action, offered, launch_page>>
       \/ /\ ~hand_back /\ a = "ESCALATE" /\ external = 0
          /\ OpenPage(offered_choices(grant_produces_work(Recorded, config, escalations)),
                      FALSE)
          /\ UNCHANGED <<persona, external, attempt, hand_back>>
    /\ UNCHANGED <<config, bound, escalations, launch_failures, asked, expiries, bracket, epic,
                   node, ended, verdict, parked, raising>>

-----------------------------------------------------------------------------
(* The page.                                                                *)

Resolve(resolution) ==
    /\ pc = "page"
    /\ IF is_unoffered(resolution, offered)
       THEN /\ action' = "KILLED" /\ pc' = "teardown"
            /\ UNCHANGED <<escalations, persona, external, parked, epic>>
       ELSE /\ escalations' = Append(escalations, resolution)
            /\ kill_requested' = (kill_requested \/ resolution = "KILL_EPIC")
            /\ IF launch_page
               THEN /\ action' = "KILLED" /\ pc' = "teardown"
                    /\ UNCHANGED <<persona, external, parked, paused>>
               ELSE /\ parked' = (resolution = "PAUSE_EPIC")
                    /\ paused' = (paused \/ resolution = "PAUSE_EPIC")
                    /\ Chosen(LET a == next_action(history, config, escalations')
                              IN  IF a = "ESCALATE" THEN "KILLED" ELSE a)
    /\ UNCHANGED <<config, bound, history, attempt, launch_failures, offered, launch_page, asked,
                   expiries, bracket, node, ended, verdict, hand_back, raising>>

Grants == Cardinality({i \in DOMAIN escalations : escalations[i] = "RETRY"})

\* A press, or the store's row of one: a stale message may name any choice.
Press == \E choice \in Choice :
            (choice = "RETRY" => Grants < bound.grants) /\ Resolve(choice)

\* An hour of silence, or a page nobody received: a page about an agent that
\* never starts parks by default, any other is EXPIRED.
Silence == IF ~launch_page /\ pre_agent_bound_spent(history, config, Len(escalations))
           THEN "PAUSE_EPIC" ELSE "EXPIRED"

\* Variant: only the launch-failure page has a window.
PageExpires_at_launch == launch_page /\ Resolve(Silence)
PageExpires           == Resolve(Silence)

\* Variant: only the launch-failure page watches for the stop.
KillPage_at_launch ==
    /\ pc = "page" /\ kill_requested /\ launch_page
    /\ action' = "KILLED" /\ pc' = "teardown"
    /\ UNCHANGED <<ladder, pages, bracket, epic, node, ended, verdict, hand_back, parked,
                   raising>>

KillPage ==
    /\ pc = "page" /\ kill_requested
    /\ action' = "KILLED" /\ pc' = "teardown"
    /\ UNCHANGED <<ladder, pages, bracket, epic, node, ended, verdict, hand_back, parked,
                   raising>>

-----------------------------------------------------------------------------
(* Leaving an attempt, and the node.                                        *)

\* The attempt's locals are dead once its bracket closes.
Teardown ==
    /\ pc = "teardown"
    /\ key' = FALSE
    /\ ended' = "none" /\ verdict' = NoVerdict /\ offered' = {} /\ launch_page' = FALSE
    /\ IF raising
       THEN pc' = "raised" /\ UNCHANGED <<state, verified, external, action, attempt, persona>>
       ELSE IF action \in TERMINAL_ACTIONS
       THEN Leave(action, parked) /\ UNCHANGED <<action, attempt, persona>>
       ELSE Enter(persona, external)
    /\ UNCHANGED <<config, bound, history, escalations, launch_failures, asked, expiries,
                   judge_key, owner, epic, worktree, hand_back, parked, raising>>

Salvage ==
    /\ pc = "salvage"
    /\ pc' = IF state = "PASSED" THEN "landing" ELSE "sweep"
    /\ UNCHANGED <<ladder, pages, bracket, epic, node, action, ended, verdict, hand_back,
                   parked, raising>>

\* Variant: a park is spelled FAILED.
Sweep_failed ==
    /\ pc = "sweep"
    /\ pc' = "ended" /\ worktree' = FALSE
    /\ state' = IF parked THEN "FAILED" ELSE "KILLED"
    /\ UNCHANGED <<ladder, pages, bracket, epic, verified, action, ended, verdict,
                   hand_back, parked, raising>>

Sweep ==
    /\ pc = "sweep"
    /\ pc' = "ended" /\ worktree' = FALSE
    /\ state' = IF parked THEN "WAITING_OPERATOR" ELSE "KILLED"
    /\ UNCHANGED <<ladder, pages, bracket, epic, verified, action, ended, verdict,
                   hand_back, parked, raising>>

\* _reap_finished ends a node whose task raised.
Reap ==
    /\ pc = "raised"
    /\ pc' = "ended" /\ state' = "KILLED"
    /\ UNCHANGED <<ladder, pages, bracket, epic, verified, worktree, action, ended,
                   verdict, hand_back, parked, raising>>

-----------------------------------------------------------------------------
(* An activity that fails for good.                                         *)

RaiseOutside ==
    /\ pc \in {"prep", "admit", "standards", "issue", "teardown", "salvage", "sweep"}
    /\ pc' = "raised" /\ raising' = TRUE
    /\ UNCHANGED <<ladder, pages, bracket, epic, node, action, ended, verdict, hand_back,
                   parked>>

RaiseInside ==
    /\ pc \in {"release", "marker", "ask", "gates", "judgeclose", "record", "page"}
    /\ raising' = TRUE /\ pc' = "teardown"
    /\ UNCHANGED <<ladder, pages, bracket, epic, node, action, ended, verdict, hand_back,
                   parked>>

\* The `except` releases the park before the raise leaves the coroutine.
\* Variant: it does not.
RaiseParked_paused ==
    /\ pc \in {"parkclose", "parked"}
    /\ paused' = paused
    /\ raising' = TRUE /\ pc' = IF pc = "parkclose" THEN "teardown" ELSE "raised"
    /\ UNCHANGED <<ladder, pages, bracket, kill_requested, node, action, ended, verdict,
                   hand_back, parked>>

RaiseParked ==
    /\ pc \in {"parkclose", "parked"}
    /\ paused' = FALSE
    /\ raising' = TRUE /\ pc' = IF pc = "parkclose" THEN "teardown" ELSE "raised"
    /\ UNCHANGED <<ladder, pages, bracket, kill_requested, node, action, ended, verdict,
                   hand_back, parked>>

-----------------------------------------------------------------------------
(* The epic's signals.                                                      *)

kill_epic ==
    /\ pc \notin {"ended", "landing"}          \* this node no longer reads it
    /\ ~kill_requested /\ kill_requested' = TRUE
    /\ UNCHANGED <<ladder, pages, bracket, paused, node, flow>>

complete_externally ==
    /\ pc \notin {"ended", "landing"} /\ external < bound.hand_backs
    /\ external' = external + 1
    /\ UNCHANGED <<ladder, offered, launch_page, asked, expiries, bracket, epic, node, flow>>

Coroutine ==
    \/ Prepare \/ AdmitOwner \/ ResolveStandards \/ IssueKey
    \/ AgentEnds \/ CancelAgent \/ ReleaseOwner \/ ScanMarker
    \/ AskOperator \/ CloseForPark \/ KillParked
    \/ RunGates \/ RunJudge \/ CloseJudge \/ RecordVerification
    \/ KillPage \/ Teardown \/ Salvage \/ Sweep \/ Reap

Timers   == PageExpires \/ Unpark(TRUE)
Operator == Press \/ Unpark(FALSE) \/ kill_epic \/ complete_externally
Faults   == RaiseOutside \/ RaiseInside \/ RaiseParked
Others   == LeaseTaken \/ LeaseReturned

Next == Coroutine \/ Timers \/ Operator \/ Faults \/ Others

Spec == Init /\ [][Next]_vars

\* An activity ends one way or the other (each has a start-to-close timeout),
\* so the coroutine is never left suspended; nobody has to answer a page, and
\* nobody has to give the owner back: an admission that is busy is no step.
FairSpec == Spec /\ WF_vars(Coroutine)

-----------------------------------------------------------------------------
(* What the epic sees of the loop: AttemptLoop.  A node that passed is out  *)
(* of it.                                                                   *)

LoopAt ==
    CASE verified                                         -> "passed"
      [] ~verified /\ pc = "prep"                         -> "start"
      [] ~verified /\ pc \in {"admit", "standards", "issue"}   -> "issue"
      [] ~verified /\ (\/ pc \in {"run", "marker", "ask"}
                       \/ pc = "release" /\ ended # "launch_failed") -> "agent"
      [] ~verified /\ (\/ pc \in {"gates", "judge", "judgeclose", "record"}
                       \/ pc = "release" /\ ended = "launch_failed") -> "verify"
      [] ~verified /\ pc \in {"salvage", "sweep"}          -> "sweep"
      [] ~verified /\ pc = "ended"                        -> "over"
      [] ~verified /\ pc \in {"parkclose", "parked", "page", "teardown", "raised"} -> pc

Ending == IF parked THEN "parked" ELSE "killed"

LoopCarry ==
    IF verified \/ pc \notin {"teardown", "salvage", "sweep"} THEN "none"
    ELSE IF pc # "teardown" \/ (~raising /\ action = "KILLED") THEN Ending
    ELSE IF raising THEN "raise"
    ELSE IF action = "PASSED" THEN "passed" ELSE "retry"

LoopState == IF verified THEN "PASSED" ELSE IF state = "VERIFYING" THEN "RUNNING" ELSE state

Loop == INSTANCE AttemptLoop WITH
            at <- LoopAt, carry <- LoopCarry, state <- LoopState,
            key <- key /\ ~verified, worktree <- worktree \/ verified

-----------------------------------------------------------------------------
(* Properties.                                                              *)

\* An attempt only runs on budget: an ordinary attempt inside max_attempts plus
\* one per grant, a debugger or promoted attempt inside its own cycles.  A
\* question whose window expired burns a slot without asking the ladder, so
\* each expiry may overrun the budget by one (RunsOnLadderBudget is the claim
\* without that allowance).
OnBudget(slack) ==
    pc = "run" =>
        CASE persona = Debugger ->
                debugger_cycles_spent(history) < config.debugger_cycles + slack
          [] persona # Debugger /\ persona = config.promotion_persona ->
                promotion_cycles_spent(history, config) < config.promotion_cycles + slack
          [] OTHER ->
                attempts_spent(history, config)
                    < config.max_attempts + Len(escalations) + slack

RunsOnBudget == OnBudget(expiries)

\* The claim of workflow.py's park ("an expiry re-enters the ladder as a
\* FAIL"): an expired question spends a slot the ladder then answers for.
RunsOnLadderBudget == OnBudget(0)

\* The attempts that really ran stay inside the sum of the ladder's dials, the
\* operator's answers, the questions that burned a slot and the one hand-back a
\* node can take.
AttemptTotalBounded ==
    Cardinality({i \in DOMAIN history : ~history[i].pre})
        <= config.max_attempts + config.debugger_cycles + config.promotion_cycles
           + Len(escalations) + expiries + (IF hand_back THEN 1 ELSE 0)

\* A node's attempts stay on budget, each as it starts and all of them together.
StaysOnBudget == RunsOnBudget /\ AttemptTotalBounded

\* A page raised by an exhausted ladder always offers a RETRY that would put
\* the node back to work, as long as no expired question overran the budget.
PageOffersWork ==
    (pc = "page" /\ ~launch_page /\ expiries = 0) => "RETRY" \in offered

\* A key is open only inside its own bracket: none while the node is between
\* attempts, parked on a question, or closing out, unless the teardown itself
\* failed; a judge key only inside the attempt's.
KeysBracketed ==
    /\ pc \in {"prep", "admit", "standards", "issue", "parked", "salvage", "sweep",
               "landing"} => ~key /\ ~judge_key
    /\ judge_key /\ ~raising => key
    /\ pc \in {"teardown", "page", "record"} => key

\* A node that is over holds no park: only its PAUSE_EPIC press, or a kill that
\* found it parked, leaves the epic paused behind it.
ParkReleased ==
    (pc \in {"ended", "raised", "landing"} /\ paused) => (parked \/ kill_requested)

\* A node passes on its last attempt alone, and never over an operator's
\* ending answer.
PassIsLast ==
    verified => /\ history # << >> /\ Last(history).pass
                /\ \A i \in DOMAIN escalations : escalations[i] = "RETRY"

\* Once an operator gave an ending answer, no further attempt is numbered and
\* no second page is raised.
EndingAnswerIsFinal ==
    [][(\E i \in DOMAIN escalations : escalations[i] # "RETRY")
            => attempt' = attempt /\ pc' # "page"]_vars

\* Every press does to the epic what its button says: after PAUSE_EPIC the
\* node is parked and not killed, and the epic is paused.
PausePressParks ==
    (pc = "ended" /\ ~raising /\ \E i \in DOMAIN escalations : escalations[i] = "PAUSE_EPIC")
        => state = "WAITING_OPERATOR"

\* The host-wide Codex owner is never held across a verification, a page or a
\* park: the attempt gives it back as soon as the agent is done.
OwnerNotHeldWaiting ==
    (pc \in {"marker", "ask", "parked", "gates", "judge", "record", "page", "salvage",
             "sweep", "landing"} /\ ~raising) => owner # "held"

\* Whatever ladder, pages, gates and agents decide, the epic sees the attempt
\* loop: a worktree before the first key, a key only from its issue to its
\* closing, a pass only out of a verification and never off a page, and a node
\* that ends as its last attempt, its page or its stop said it does.
AttemptLoopHolds == Loop!LoopSpec

\* What an attempt opens it closes, and in time: its keys, and the owner it took
\* for its agent.
BracketsClose == KeysBracketed /\ OwnerNotHeldWaiting

\* A kill ends the node whatever it was waiting for, a busy owner included, with
\* no operator, no timer and no returned lease needed.
KillStops == kill_requested ~> pc \in {"ended", "landing"}

\* Nothing in the code ends an admission that finds a lease on disk: the lease
\* has to come free over and over, and one of the asks to find it so.
OwnerIsLent ==
    /\ []<>(owner \notin {"elsewhere", "retained"})
    /\ SF_vars(AdmitOwner)

\* With the windows' timers running, every node leaves the attempt loop, as long
\* as the Codex owner it waits for is lent to it at last.  A stale lease voids
\* the premise: such a node waits until it is killed.
NodeEnds == (WF_vars(Timers) /\ OwnerIsLent) => <>(pc \in {"ended", "landing"})
=============================================================================
