---------------------------- MODULE EpicWorkflow ----------------------------
(***************************************************************************)
(* EpicWorkflow (factory/workgraph/workflow.py): the scheduler of one      *)
(* epic, the node tasks it fans out, the landing polls that outlive them,  *)
(* the recovery of a rejected landing, and the operator's pause and kill.  *)
(*                                                                         *)
(* Everything runs in one Temporal workflow: coroutines that interleave at *)
(* their awaits and nowhere else.  `sched` is the scheduler's await and    *)
(* `rec[n].task` the one of node n's task:                                 *)
(*   prep, issue, agent, detect, verify, teardown, sweep   the attempt     *)
(*                loop: issue begins with the admission to the Codex       *)
(*                owner, detect looks for a question (NodeAttempts has the *)
(*                detail)                                                  *)
(*   parkclose, parked    the question park     page   the ladder's page   *)
(*   finish       salvage of a PASS             push   open_landing_pr     *)
(*   refpage      the ref conflict's page       enqueue  enqueue_landing   *)
(*   sync, rissue, ragent, rverify, rteardown, compare   a recovery cycle  *)
(*   lpage        the landing's page            park, unland  its endings  *)
(*   done, raised   finished, not reaped yet    none   no task             *)
(* A node is in flight while its task is not "none".                       *)
(*                                                                         *)
(* A definition whose comment begins "Variant:" is a slip the code could   *)
(* have made, kept beside the definition it stands in for.                 *)
(***************************************************************************)
EXTENDS Integers, FiniteSets

CONSTANTS
    N,        \* how many nodes the graph has; 1..N is the declaration order
    Plans     \* the epics to run: a graph, its dials, and bounds on its world

Nodes == 1..N

Tasks == {"none", "prep", "issue", "agent", "detect", "verify", "parkclose", "parked", "page",
          "teardown", "sweep", "finish", "push", "refpage", "enqueue", "sync", "rissue",
          "ragent", "rverify", "rteardown", "compare", "lpage", "park", "unland",
          "done", "raised"}

Plan ==
    [depends_on           : [Nodes -> SUBSET Nodes],
     depends_on_merged    : [Nodes -> SUBSET Nodes],
     max_concurrent_nodes : Nat \ {0},
     subscription         : SUBSET Nodes,          \* subscription-routed
     max_subscription     : Nat \ {0},
     codex_owner          : BOOLEAN,               \* those share a declared owner
     max_recovery_cycles  : Nat,
     max_free_rebases     : Nat,
     halt_after_pass      : BOOLEAN,
     \* bounds on the world
     faults    : SUBSET Tasks,  \* the awaits whose activity may fail for good
     conflicts : BOOLEAN,       \* origin may refuse a push over a stale ref
     attempts  : Nat \ {0},     \* attempts of a node before its page
     questions : Nat,           \* questions a node asks
     pauses    : Nat,           \* pause_epic signals
     stale     : Nat]           \* RETRY presses on a page that did not offer it

ASSUME EpicAssumption ==
    /\ N \in Nat \ {0}
    /\ Plans # {} /\ Plans \subseteq Plan

VARIABLES
    plan,            \* the request
    sched,           \* the scheduler's await
    epic_state,
    paused,          \* self._paused
    kill_requested,  \* self._kill_requested
    drainable,       \* the tasks a drain still waits for
    pauses, stale,   \* what the world has spent of its bounds
    lease,           \* who the Codex owner's active-lease.json admits
    rec              \* self._nodes, with each node's task, key, poll, worktree

shell == <<plan, sched, epic_state, drainable>>
flags == <<paused, kill_requested>>
world == <<pauses, stale, lease>>
vars  == <<shell, flags, world, rec>>

NodeState == {"PENDING", "RUNNING", "WAITING_OPERATOR", "PASSED", "PR_OPEN", "ENQUEUED",
              "MERGED", "KILLED"}
LandingState == {"NONE", "PR_OPEN", "ENQUEUED", "REJECTED", "MERGED", "KILLED"}

\* The owner is free, lent to a node of this epic, or busy: lent on the host, kept
\* by an adapter for its session, or left behind.
Nobody    == 0
Elsewhere == N + 1

\* What a task carries into its next step.
Carry == {"none", "retry", "passed", "killed", "parked", "raise",   \* how an attempt ends
          "free", "charged",                                        \* the recovery's price
          "offer", "no_offer", "flake",                             \* RETRY on a page
          "ref", "landing"}                                         \* which page parks

NodeRecord ==
    [state : NodeState, verified : BOOLEAN, landing : LandingState, base_moved : BOOLEAN,
     recovery_cycles : Nat, free_rebases : Nat, ending_answer : BOOLEAN,
     task : Tasks, carry : Carry, key : BOOLEAN, worktree : BOOLEAN,
     poll : {"none", "waiting", "merging", "closing"}, attempts : Nat, asked : Nat]

TypeOK ==
    /\ plan \in Plans
    /\ sched \in {"loop", "busy", "idle", "pause_drain", "paused", "kill_drain",
                  "kill_landings", "ended"}
    /\ epic_state \in {"RUNNING", "PAUSED", "COMPLETED", "KILLED"}
    /\ paused \in BOOLEAN /\ kill_requested \in BOOLEAN
    /\ drainable \subseteq Nodes
    /\ pauses \in 0..plan.pauses /\ stale \in 0..plan.stale
    /\ lease \in {Nobody, Elsewhere} \cup Nodes
    /\ rec \in [Nodes -> NodeRecord]

NewNode == [state |-> "PENDING", verified |-> FALSE, landing |-> "NONE", base_moved |-> FALSE,
            recovery_cycles |-> 0, free_rebases |-> 0, ending_answer |-> FALSE,
            task |-> "none", carry |-> "none", key |-> FALSE, worktree |-> FALSE,
            poll |-> "none", attempts |-> 0, asked |-> 0]

Init ==
    /\ plan \in Plans
    /\ sched = "loop" /\ epic_state = "RUNNING"
    /\ paused = FALSE /\ kill_requested = FALSE
    /\ drainable = {} /\ pauses = 0 /\ stale = 0
    /\ lease = Nobody
    /\ rec = [n \in Nodes |-> NewNode]

-----------------------------------------------------------------------------
(* Reading the graph.                                                       *)

TERMINAL_STATES  == {"MERGED", "KILLED"}
LANDING_TERMINAL == {"MERGED", "KILLED"}

in_flight == {n \in Nodes : rec[n].task # "none"}
Finished  == {n \in Nodes : rec[n].task \in {"done", "raised"}}

\* Variant: a merge-gated edge opens on verification.
edges_satisfied_verified(n) ==
    \A d \in plan.depends_on[n] \cup plan.depends_on_merged[n] : rec[d].verified

edges_satisfied(n) ==
    /\ \A d \in plan.depends_on[n] : rec[d].verified
    /\ \A d \in plan.depends_on_merged[n] : rec[d].state = "MERGED"

Recoverable == {n \in Nodes : rec[n].landing = "REJECTED"}
ready_set  == Recoverable \cup {n \in Nodes : rec[n].state = "PENDING" /\ edges_satisfied(n)}

\* Variant: handing a landing to the queue is the end of it.
all_landings_terminal_enqueued ==
    \A n \in Nodes : rec[n].landing \in LANDING_TERMINAL \cup {"NONE", "ENQUEUED"}

all_landings_terminal ==
    \A n \in Nodes : rec[n].landing \in LANDING_TERMINAL \cup {"NONE"}

\* In a table r of nodes, with the nodes of `locked` taken for KILLED.
\* Variant: a park is read as a death.
dead_edge_parked(r, locked, n) ==
    \/ \E d \in plan.depends_on[n] : r[d].state = "KILLED" \/ d \in locked
    \/ \E d \in plan.depends_on_merged[n] :
          r[d].state = "KILLED" \/ r[d].landing = "KILLED" \/ d \in locked

dead_edge(r, locked, n) ==
    \/ \E d \in plan.depends_on[n] : r[d].state = "KILLED" \/ d \in locked
    \/ \E d \in plan.depends_on_merged[n] :
          /\ r[d].state # "WAITING_OPERATOR"
          /\ r[d].state = "KILLED" \/ r[d].landing = "KILLED" \/ d \in locked

\* The transitive lock-out: the least set of PENDING nodes that holds every
\* PENDING node with a dead edge.
LockedOut(r) ==
    LET pending   == {n \in Nodes : r[n].state = "PENDING"}
        Closed(S) == \A n \in pending : dead_edge(r, S, n) => n \in S
    IN  {n \in pending : \A S \in SUBSET pending : Closed(S) => n \in S}

-----------------------------------------------------------------------------
(* The scheduler.                                                           *)

\* reap_finished over a set of finished tasks: a raise ends its node KILLED,
\* and an ending that is neither PASSED nor MERGED locks its dependents out.
reap_finished(S) ==
    LET r == [n \in Nodes |->
                IF n \in S
                THEN [rec[n] EXCEPT !.state = IF rec[n].task = "raised" THEN "KILLED" ELSE @,
                                    !.task = "none", !.carry = "none"]
                ELSE rec[n]]
        locked == IF \E n \in S : r[n].state \notin {"PASSED", "MERGED"}
                  THEN LockedOut(r) ELSE {}
    IN  rec' = [n \in Nodes |-> IF n \in locked THEN [r[n] EXCEPT !.state = "KILLED"] ELSE r[n]]

\* A drain waits for the in-flight nodes, but not for one parked on an operator.
Drainable == {n \in in_flight : rec[n].state # "WAITING_OPERATOR" \/ n \in Finished}

Rank(n) == IF n \in Recoverable THEN n ELSE N + n

\* Variant: the cap is off by one.
Room_and_one(flying, n) ==
    /\ Cardinality(flying) <= plan.max_concurrent_nodes
    /\ n \in plan.subscription =>
          Cardinality(flying \cap plan.subscription) < plan.max_subscription

Room(flying, n) ==
    /\ Cardinality(flying) < plan.max_concurrent_nodes
    /\ n \in plan.subscription =>
          Cardinality(flying \cap plan.subscription) < plan.max_subscription

\* The greedy pass over the ready set: a node starts iff there is room beside
\* the tasks in flight and the ones started ahead of it.
Started(S) ==
    LET candidates == ready_set \ in_flight
        Ahead(n)   == in_flight \cup {m \in S : Rank(m) < Rank(n)}
    IN  /\ S \subseteq candidates
        /\ \A n \in candidates : n \in S <=> Room(Ahead(n), n)

\* page_the_operator raises nothing on a stop or after an ending answer: the
\* landing's page then reads as a KILL.
LandingPage(r, offer) ==
    IF kill_requested \/ r.ending_answer
    THEN [r EXCEPT !.task = "unland", !.ending_answer = TRUE, !.carry = "none"]
    ELSE [r EXCEPT !.task = "lpage", !.carry = offer]

CyclesLeft(r) == r.recovery_cycles < plan.max_recovery_cycles
Offer(r)      == IF CyclesLeft(r) THEN "offer" ELSE "no_offer"

\* run_recovery, up to its sync: a moved base is rebased for free, anything
\* else is charged a cycle, and an exhausted budget pages.
run_recovery(r, granted) ==
    IF ~granted /\ r.base_moved /\ r.free_rebases < plan.max_free_rebases
    THEN [r EXCEPT !.task = "sync", !.carry = "free"]
    ELSE IF ~granted /\ ~CyclesLeft(r)
    THEN LandingPage(r, Offer(r))
    ELSE [r EXCEPT !.task = "sync", !.carry = "charged", !.recovery_cycles = @ + 1]

Dispatch ==
    /\ sched = "loop" /\ ~kill_requested /\ ~paused
    /\ \E S \in SUBSET (ready_set \ in_flight) :
          /\ Started(S)
          /\ rec' = [n \in Nodes |->
                       IF n \notin S THEN rec[n]
                       ELSE IF n \in Recoverable THEN run_recovery(rec[n], FALSE)
                       ELSE [rec[n] EXCEPT !.task = "prep"]]
          /\ IF in_flight \cup S # {} THEN sched' = "busy" /\ UNCHANGED epic_state
             ELSE IF all_landings_terminal THEN sched' = "ended" /\ epic_state' = "COMPLETED"
             ELSE sched' = "idle" /\ UNCHANGED epic_state
    /\ UNCHANGED <<plan, drainable, flags, world>>

WakeBusy ==
    /\ sched = "busy"
    /\ Finished # {} \/ kill_requested \/ paused
    /\ sched' = "loop" /\ reap_finished(Finished)
    /\ UNCHANGED <<plan, epic_state, drainable, flags, world>>

\* Variant: a rejection does not wake the idle scheduler.
WakeIdle_unrecovered ==
    /\ sched = "idle"
    /\ all_landings_terminal \/ kill_requested
    /\ sched' = "loop"
    /\ UNCHANGED <<plan, epic_state, drainable, flags, world, rec>>

WakeIdle ==
    /\ sched = "idle"
    /\ all_landings_terminal \/ Recoverable # {} \/ kill_requested
    /\ sched' = "loop"
    /\ UNCHANGED <<plan, epic_state, drainable, flags, world, rec>>

BeginDrain ==
    /\ sched = "loop" /\ (kill_requested \/ paused)
    /\ sched' = IF kill_requested THEN "kill_drain" ELSE "pause_drain"
    /\ drainable' = Drainable
    /\ UNCHANGED <<plan, epic_state, flags, world, rec>>

drain_in_flight ==
    /\ sched \in {"pause_drain", "kill_drain"}
    /\ drainable \cap Finished # {}
    /\ drainable' = drainable \ Finished
    /\ reap_finished(drainable \cap Finished)
    /\ UNCHANGED <<plan, sched, epic_state, flags, world>>

ParkScheduler ==
    /\ sched = "pause_drain" /\ drainable = {}
    /\ sched' = "paused" /\ epic_state' = "PAUSED"
    /\ UNCHANGED <<plan, drainable, flags, world, rec>>

WakePaused ==
    /\ sched = "paused" /\ (~paused \/ kill_requested)
    /\ sched' = "loop"
    /\ epic_state' = IF kill_requested THEN epic_state ELSE "RUNNING"
    /\ UNCHANGED <<plan, drainable, flags, world, rec>>

\* The kill's landing half cancels every poll first, whatever it was awaiting.
CancelPolls ==
    /\ sched = "kill_drain" /\ drainable = {}
    /\ sched' = "kill_landings"
    /\ rec' = [n \in Nodes |-> [rec[n] EXCEPT !.poll = "none"]]
    /\ UNCHANGED <<plan, epic_state, drainable, flags, world>>

kill_landings(n) ==
    /\ sched = "kill_landings" /\ rec[n].landing \notin LANDING_TERMINAL \cup {"NONE"}
    /\ rec' = [rec EXCEPT ![n].landing = "KILLED"]
    /\ UNCHANGED <<shell, flags, world>>

\* Variant: the kill writes over a merge.
kill_remaining_all ==
    /\ sched = "kill_landings" /\ all_landings_terminal
    /\ sched' = "ended" /\ epic_state' = "KILLED"
    /\ rec' = [n \in Nodes |-> [rec[n] EXCEPT !.state = "KILLED"]]
    /\ UNCHANGED <<plan, drainable, flags, world>>

kill_remaining ==
    /\ sched = "kill_landings" /\ all_landings_terminal
    /\ sched' = "ended" /\ epic_state' = "KILLED"
    /\ rec' = [n \in Nodes |-> [rec[n] EXCEPT
                 !.state = IF @ \in TERMINAL_STATES THEN @ ELSE "KILLED"]]
    /\ UNCHANGED <<plan, drainable, flags, world>>

Scheduler ==
    \/ Dispatch \/ WakeBusy \/ WakeIdle \/ BeginDrain \/ drain_in_flight
    \/ ParkScheduler \/ WakePaused \/ CancelPolls
    \/ \E n \in Nodes : kill_landings(n)
    \/ kill_remaining

\* Between two awaits the scheduler has the workflow to itself; once it has
\* returned, nothing runs.
Suspended ==
    /\ sched \notin {"loop", "ended"}
    /\ sched \in {"pause_drain", "kill_drain"} => drainable # {}
    /\ sched = "kill_landings" => ~all_landings_terminal

-----------------------------------------------------------------------------
(* A node's task: the attempt loop.                                         *)

At(n, task) == Suspended /\ rec[n].task = task
Go(n, r)    == rec' = [rec EXCEPT ![n] = r]

\* Whom the Codex owner admits one at a time.
Owned == IF plan.codex_owner THEN plan.subscription ELSE {}

\* Variant: a killed node is swept though it is still parked.
Killed_swept(r) == [r EXCEPT !.task = "sweep", !.carry = "killed"]

\* A node that leaves its loop killed is swept, unless it is still parked on a
\* question: then its task just returns.
Killed(r) == IF r.state = "WAITING_OPERATOR"
             THEN [r EXCEPT !.task = "done", !.carry = "none"]
             ELSE [r EXCEPT !.task = "sweep", !.carry = "killed"]

\* The top of the attempt loop.
NextAttempt(r) == IF kill_requested THEN Killed(r)
                  ELSE [r EXCEPT !.task = "issue", !.carry = "none"]

Prepare(n) ==
    /\ At(n, "prep")
    /\ Go(n, NextAttempt([rec[n] EXCEPT !.worktree = TRUE]))
    /\ UNCHANGED <<shell, flags, world>>

\* Variant: a kill is not looked for between two admissions.
AdmitOwner_deaf(n) ==
    IF n \in Owned THEN lease = Nobody /\ lease' = n ELSE UNCHANGED lease

\* An owned node waits, without a window, until the lease file is gone; only a
\* kill takes it further without the owner.
AdmitOwner(n) ==
    \/ (n \notin Owned \/ kill_requested) /\ UNCHANGED lease
    \/ n \in Owned /\ lease = Nobody /\ lease' = n

\* The owner is released before anything is read of the ending, unless the
\* adapter kept it.
ReleaseOwner(n) == lease' \in IF lease = n THEN {Nobody, Elsewhere} ELSE {lease}

IssueKey(n) ==
    /\ At(n, "issue") /\ AdmitOwner(n)
    /\ Go(n, [rec[n] EXCEPT !.task = "agent", !.state = "RUNNING", !.key = TRUE,
                            !.attempts = @ + 1])
    /\ UNCHANGED <<shell, flags, pauses, stale>>

\* A kill cancels the agent, or discards what it did.
AgentEnds(n) ==
    /\ At(n, "agent") /\ ReleaseOwner(n)
    /\ Go(n, IF kill_requested
             THEN [rec[n] EXCEPT !.task = "teardown", !.carry = "killed"]
             ELSE [rec[n] EXCEPT !.task = "detect"])
    /\ UNCHANGED <<shell, flags, pauses, stale>>

NothingAsked(n) ==
    /\ At(n, "detect")
    /\ Go(n, [rec[n] EXCEPT !.task = "verify"])
    /\ UNCHANGED <<shell, flags, world>>

\* The kill is not looked for again: a question parks the node all the same.
AgentAsks(n) ==
    /\ At(n, "detect") /\ rec[n].asked < plan.questions
    /\ Go(n, [rec[n] EXCEPT !.task = "parkclose", !.state = "WAITING_OPERATOR",
                            !.asked = @ + 1])
    /\ paused' = TRUE
    /\ UNCHANGED <<shell, kill_requested, world>>

CloseForPark(n) ==
    /\ At(n, "parkclose")
    /\ Go(n, [rec[n] EXCEPT !.task = "parked", !.key = FALSE])
    /\ UNCHANGED <<shell, flags, world>>

\* Answered or expired, the node un-parks the epic and loops.
Unpark(n) ==
    /\ At(n, "parked")
    /\ Go(n, NextAttempt(rec[n]))
    /\ paused' = FALSE
    /\ UNCHANGED <<shell, kill_requested, world>>

KillParked(n) ==
    /\ At(n, "parked")
    /\ Go(n, Killed(rec[n]))
    /\ UNCHANGED <<shell, flags, world>>

\* The ladder's decisions: passed, another attempt, or a page; a launch failure
\* decides without a verification, and comes to the same.
Decide(n, how) ==
    /\ At(n, "verify")
    /\ how = "retry" => rec[n].attempts < plan.attempts
    /\ Go(n, [rec[n] EXCEPT !.task = "teardown", !.carry = how])
    /\ UNCHANGED <<shell, flags, world>>

Escalate(n) ==
    /\ At(n, "verify")
    /\ Go(n, IF kill_requested
             THEN [rec[n] EXCEPT !.task = "teardown", !.carry = "killed"]
             ELSE [rec[n] EXCEPT !.task = "page"])
    /\ UNCHANGED <<shell, flags, world>>

Press(n, choice) ==
    /\ At(n, "page")
    /\ choice = "RETRY" => rec[n].attempts < plan.attempts
    /\ kill_requested' = (kill_requested \/ choice = "KILL_EPIC")
    /\ paused' = (paused \/ choice = "PAUSE_EPIC")
    /\ Go(n, [rec[n] EXCEPT !.task = "teardown",
                            !.carry = CASE choice = "RETRY"      -> "retry"
                                        [] choice = "PAUSE_EPIC" -> "parked"
                                        [] OTHER                 -> "killed"])
    /\ UNCHANGED <<shell, world>>

\* The stop, an hour of silence, a page nobody received, or a RETRY that was
\* not offered.
PageLapses(n) ==
    /\ At(n, "page")
    /\ Go(n, [rec[n] EXCEPT !.task = "teardown", !.carry = "killed"])
    /\ UNCHANGED <<shell, flags, world>>

Teardown(n) ==
    /\ At(n, "teardown")
    /\ LET r == [rec[n] EXCEPT !.key = FALSE] IN
       Go(n, CASE r.carry = "retry"  -> NextAttempt(r)
               [] r.carry = "killed" -> Killed(r)
               [] r.carry = "parked" -> [r EXCEPT !.task = "sweep"]
               [] r.carry = "raise"  -> [r EXCEPT !.task = "raised", !.carry = "none"]
               [] r.carry = "passed" -> [r EXCEPT !.task = "finish", !.carry = "none",
                                                 !.verified = TRUE, !.state = "PASSED"])
    /\ UNCHANGED <<shell, flags, world>>

\* Variant: a park is spelled FAILED.
Sweep_failed(n) ==
    /\ At(n, "sweep")
    /\ Go(n, [rec[n] EXCEPT !.task = "done", !.carry = "none", !.worktree = FALSE,
                            !.state = IF rec[n].carry = "parked" THEN "FAILED"
                                      ELSE "KILLED"])
    /\ UNCHANGED <<shell, flags, world>>

Sweep(n) ==
    /\ At(n, "sweep")
    /\ Go(n, [rec[n] EXCEPT !.task = "done", !.carry = "none", !.worktree = FALSE,
                            !.state = IF rec[n].carry = "parked" THEN "WAITING_OPERATOR"
                                      ELSE "KILLED"])
    /\ UNCHANGED <<shell, flags, world>>

Finish(n) ==
    /\ At(n, "finish")
    /\ Go(n, IF plan.halt_after_pass
             THEN [rec[n] EXCEPT !.task = "done", !.worktree = FALSE]
             ELSE [rec[n] EXCEPT !.task = "push", !.carry = "offer"])
    /\ UNCHANGED <<shell, flags, world>>

-----------------------------------------------------------------------------
(* The landing: push, open, enqueue; a ref conflict pages and grants once.  *)

OpenPr(n) ==
    /\ At(n, "push")
    /\ Go(n, IF rec[n].landing = "NONE"
             THEN [rec[n] EXCEPT !.task = "enqueue", !.carry = "none",
                                !.landing = "PR_OPEN", !.state = "PR_OPEN"]
             ELSE [rec[n] EXCEPT !.task = "enqueue", !.carry = "none"])
    /\ UNCHANGED <<shell, flags, world>>

RefConflict(n) ==
    /\ At(n, "push") /\ plan.conflicts
    /\ Go(n, IF kill_requested \/ rec[n].ending_answer
             THEN [rec[n] EXCEPT !.task = "unland", !.carry = "none", !.ending_answer = TRUE]
             ELSE [rec[n] EXCEPT !.task = "refpage"])
    /\ UNCHANGED <<shell, flags, world>>

\* The first page of a push offers RETRY, the next one does not.
PressRef(n, choice) ==
    /\ At(n, "refpage")
    /\ choice = "RETRY" => rec[n].carry = "offer"
    /\ kill_requested' = (kill_requested \/ choice = "KILL_EPIC")
    /\ paused' = (paused \/ choice = "PAUSE_EPIC")
    /\ epic_state' = IF choice = "PAUSE_EPIC" THEN "PAUSED" ELSE epic_state
    /\ Go(n, CASE choice = "RETRY"      -> [rec[n] EXCEPT !.task = "push", !.carry = "no_offer"]
               [] choice = "PAUSE_EPIC" -> [rec[n] EXCEPT !.task = "park", !.carry = "ref",
                                                         !.ending_answer = TRUE]
               [] OTHER                 -> [rec[n] EXCEPT !.task = "unland", !.carry = "none",
                                                         !.ending_answer = TRUE])
    /\ UNCHANGED <<plan, sched, drainable, world>>

\* The stop or the silence, on a ref conflict's or a landing's page.
LandingPageLapses(n) ==
    /\ At(n, "refpage") \/ At(n, "lpage")
    /\ Go(n, [rec[n] EXCEPT !.task = "unland", !.carry = "none", !.ending_answer = TRUE])
    /\ UNCHANGED <<shell, flags, world>>

Enqueue(n) ==
    /\ At(n, "enqueue")
    /\ Go(n, [rec[n] EXCEPT !.task = "done", !.landing = "ENQUEUED", !.state = "ENQUEUED",
                            !.poll = "waiting"])
    /\ UNCHANGED <<shell, flags, world>>

\* Refused outright: the first landing ends there, a re-enqueue pages.
EnqueueRefused(n) ==
    /\ At(n, "enqueue")
    /\ Go(n, IF rec[n].landing = "PR_OPEN"
             THEN [rec[n] EXCEPT !.task = "done", !.landing = "KILLED", !.state = "KILLED"]
             ELSE LandingPage(rec[n], Offer(rec[n])))
    /\ UNCHANGED <<shell, flags, world>>

\* _close_out with the parked state: the ref conflict's park leaves the landing
\* as it was, the landing page's ends it.
Park(n) ==
    /\ At(n, "park")
    /\ Go(n, [rec[n] EXCEPT !.task = "done", !.carry = "none", !.worktree = FALSE,
                            !.state = "WAITING_OPERATOR",
                            !.landing = IF rec[n].carry = "ref" THEN @ ELSE "KILLED"])
    /\ UNCHANGED <<shell, flags, world>>

\* Variant: the rejection is left standing.
Unland_rejected(n) ==
    /\ At(n, "unland")
    /\ Go(n, [rec[n] EXCEPT !.task = "done", !.worktree = FALSE, !.state = "KILLED"])
    /\ UNCHANGED <<shell, flags, world>>

Unland(n) ==
    /\ At(n, "unland")
    /\ Go(n, [rec[n] EXCEPT !.task = "done", !.worktree = FALSE, !.state = "KILLED",
                            !.landing = IF @ = "NONE" THEN @ ELSE "KILLED"])
    /\ UNCHANGED <<shell, flags, world>>

-----------------------------------------------------------------------------
(* A recovery cycle.                                                        *)

SyncRefused(n) ==
    /\ At(n, "sync")
    /\ Go(n, LandingPage(rec[n], Offer(rec[n])))
    /\ UNCHANGED <<shell, flags, world>>

\* Variant: a conflicted free rebase is charged whatever is left.
Sync_uncapped(n, clean) ==
    /\ At(n, "sync") /\ rec[n].worktree
    /\ Go(n, IF rec[n].carry = "charged" THEN [rec[n] EXCEPT !.task = "rissue"]
             ELSE IF clean
             THEN [rec[n] EXCEPT !.task = "compare", !.free_rebases = @ + 1]
             ELSE [rec[n] EXCEPT !.task = "rissue", !.carry = "charged",
                                !.recovery_cycles = @ + 1])
    /\ UNCHANGED <<shell, flags, world>>

\* A clean sync of a moved base goes straight back to the queue; one that
\* conflicts turns into a charged cycle, if there is one left.  A swept worktree
\* can only refuse.
Sync(n, clean) ==
    /\ At(n, "sync") /\ rec[n].worktree
    /\ Go(n, IF rec[n].carry = "charged" THEN [rec[n] EXCEPT !.task = "rissue"]
             ELSE IF clean
             THEN [rec[n] EXCEPT !.task = "compare", !.free_rebases = @ + 1]
             ELSE IF CyclesLeft(rec[n])
             THEN [rec[n] EXCEPT !.task = "rissue", !.carry = "charged",
                                !.recovery_cycles = @ + 1]
             ELSE LandingPage(rec[n], Offer(rec[n])))
    /\ UNCHANGED <<shell, flags, world>>

RecoveryIssueKey(n) ==
    /\ At(n, "rissue") /\ AdmitOwner(n)
    /\ Go(n, [rec[n] EXCEPT !.task = "ragent", !.state = "RUNNING", !.key = TRUE])
    /\ UNCHANGED <<shell, flags, pauses, stale>>

RecoveryAgentEnds(n) ==
    /\ At(n, "ragent") /\ ReleaseOwner(n)
    /\ Go(n, IF kill_requested
             THEN [rec[n] EXCEPT !.task = "rteardown", !.carry = "killed"]
             ELSE [rec[n] EXCEPT !.task = "rverify"])
    /\ UNCHANGED <<shell, flags, pauses, stale>>

RecoveryDecides(n, how) ==
    /\ At(n, "rverify")
    /\ Go(n, [rec[n] EXCEPT !.task = "rteardown", !.carry = how])
    /\ UNCHANGED <<shell, flags, world>>

RecoveryTeardown(n) ==
    /\ At(n, "rteardown")
    /\ LET r == [rec[n] EXCEPT !.key = FALSE] IN
       Go(n, CASE r.carry = "passed" -> [r EXCEPT !.task = "compare", !.carry = "none"]
               [] r.carry = "raise"  -> [r EXCEPT !.task = "raised", !.carry = "none"]
               [] OTHER              -> LandingPage(r, Offer(r)))
    /\ UNCHANGED <<shell, flags, world>>

\* Re-offering the tree the queue refused takes a human's word that it flaked.
Compare(n, identical) ==
    /\ At(n, "compare")
    /\ Go(n, IF identical THEN LandingPage(rec[n], "flake")
             ELSE [rec[n] EXCEPT !.task = "push", !.carry = "offer"])
    /\ UNCHANGED <<shell, flags, world>>

\* A RETRY is read before anything checks that it was offered; the three ending
\* choices are always offered.
RetryLanding(n) ==
    /\ At(n, "lpage")
    /\ Go(n, IF rec[n].carry = "flake"
             THEN [rec[n] EXCEPT !.task = "push", !.carry = "offer"]
             ELSE run_recovery(rec[n], TRUE))
    /\ IF rec[n].carry = "no_offer"
       THEN stale < plan.stale /\ stale' = stale + 1
       ELSE UNCHANGED stale
    /\ UNCHANGED <<shell, flags, pauses, lease>>

EndLanding(n, choice) ==
    /\ At(n, "lpage")
    /\ kill_requested' = (kill_requested \/ choice = "KILL_EPIC")
    /\ paused' = (paused \/ choice = "PAUSE_EPIC")
    /\ epic_state' = IF choice = "PAUSE_EPIC" THEN "PAUSED" ELSE epic_state
    /\ Go(n, IF choice = "PAUSE_EPIC"
             THEN [rec[n] EXCEPT !.task = "park", !.carry = "landing", !.ending_answer = TRUE]
             ELSE [rec[n] EXCEPT !.task = "unland", !.carry = "none", !.ending_answer = TRUE])
    /\ UNCHANGED <<plan, sched, drainable, world>>

-----------------------------------------------------------------------------
(* The background poll of an enqueued landing.                              *)

Polling(n, step) == Suspended /\ rec[n].poll = step

PollSeesKill(n) ==
    /\ Polling(n, "waiting") /\ kill_requested
    /\ Go(n, [rec[n] EXCEPT !.poll = "none"])
    /\ UNCHANGED <<shell, flags, world>>

\* A merge, or a dequeue or stall nothing recovers: the worktree goes first.
PollDecides(n, step) ==
    /\ Polling(n, "waiting")
    /\ Go(n, [rec[n] EXCEPT !.poll = step])
    /\ UNCHANGED <<shell, flags, world>>

PollRejects(n, base_moved) ==
    /\ Polling(n, "waiting")
    /\ Go(n, [rec[n] EXCEPT !.poll = "none", !.landing = "REJECTED",
                            !.base_moved = base_moved])
    /\ UNCHANGED <<shell, flags, world>>

PollEnds(n) ==
    /\ rec[n].poll \in {"merging", "closing"} /\ Suspended
    /\ LET end == IF rec[n].poll = "merging" THEN "MERGED" ELSE "KILLED" IN
       Go(n, [rec[n] EXCEPT !.poll = "none", !.worktree = FALSE,
                            !.landing = end, !.state = end])
    /\ UNCHANGED <<shell, flags, world>>

\* _stop_landing: a poll that raised says so on the node.
\* Variant: the poll dies in silence.
PollStops_silent(n) ==
    /\ rec[n].poll # "none" /\ Suspended /\ plan.faults # {}
    /\ Go(n, [rec[n] EXCEPT !.poll = "none"])
    /\ UNCHANGED <<shell, flags, world>>

PollStops(n) ==
    /\ rec[n].poll # "none" /\ Suspended /\ plan.faults # {}
    /\ Go(n, [rec[n] EXCEPT !.poll = "none", !.landing = "KILLED", !.state = "KILLED"])
    /\ UNCHANGED <<shell, flags, world>>

-----------------------------------------------------------------------------
(* An activity that fails for good raises into the task; an open bracket is  *)
(* closed on the way out, and a question's park is released.  A lease taken  *)
(* for a key that is then not issued stays where it is.                      *)

TaskRaises(n) ==
    /\ Suspended /\ rec[n].task \in plan.faults \ {"none", "done", "raised"}
    /\ LET t == rec[n].task IN
       /\ Go(n, CASE t \in {"agent", "detect", "verify", "page", "parkclose"} ->
                        [rec[n] EXCEPT !.task = "teardown", !.carry = "raise"]
                  [] t \in {"ragent", "rverify"} ->
                        [rec[n] EXCEPT !.task = "rteardown", !.carry = "raise"]
                  [] OTHER -> [rec[n] EXCEPT !.task = "raised", !.carry = "none"])
       /\ paused' = IF t \in {"parkclose", "parked"} THEN FALSE ELSE paused
       /\ CASE t \in {"agent", "ragent"} -> ReleaseOwner(n)
            [] t \in {"issue", "rissue"} /\ n \in Owned /\ lease = Nobody ->
                   lease' \in {Nobody, Elsewhere}
            [] OTHER -> UNCHANGED lease
    /\ UNCHANGED <<shell, kill_requested, pauses, stale>>

-----------------------------------------------------------------------------
(* The operator's signals.                                                  *)

pause_epic ==
    /\ Suspended /\ ~paused /\ pauses < plan.pauses
    /\ paused' = TRUE /\ pauses' = pauses + 1
    /\ UNCHANGED <<shell, kill_requested, stale, lease, rec>>

resume_epic ==
    /\ Suspended /\ paused
    /\ paused' = FALSE
    /\ UNCHANGED <<shell, kill_requested, world, rec>>

kill_epic ==
    /\ Suspended /\ ~kill_requested
    /\ kill_requested' = TRUE
    /\ UNCHANGED <<shell, paused, world, rec>>

-----------------------------------------------------------------------------
(* The Codex owner's other users on the host: what they do matters while a   *)
(* node of this epic asks for it.                                            *)

LeaseTaken ==
    /\ Suspended /\ lease = Nobody
    /\ \E n \in Owned : rec[n].task \in {"issue", "rissue"}
    /\ lease' = Elsewhere
    /\ UNCHANGED <<shell, flags, pauses, stale, rec>>

LeaseReturned ==
    /\ Suspended /\ lease = Elsewhere
    /\ lease' = Nobody
    /\ UNCHANGED <<shell, flags, pauses, stale, rec>>

-----------------------------------------------------------------------------
(* What runs of itself, what a timer ends, what the queue and the operator  *)
(* decide.                                                                  *)

\* A kill ends every wait for an operator.
Stop(n) == kill_requested /\ (KillParked(n) \/ PageLapses(n) \/ LandingPageLapses(n))

Task(n) ==
    \/ Prepare(n) \/ IssueKey(n) \/ AgentEnds(n) \/ NothingAsked(n) \/ AgentAsks(n)
    \/ \E how \in {"retry", "passed", "killed"} : Decide(n, how)
    \/ Escalate(n)
    \/ CloseForPark(n) \/ Stop(n) \/ Teardown(n) \/ Sweep(n) \/ Finish(n)
    \/ OpenPr(n) \/ RefConflict(n) \/ Enqueue(n) \/ EnqueueRefused(n)
    \/ Park(n) \/ Unland(n)
    \/ SyncRefused(n) \/ \E clean \in BOOLEAN : Sync(n, clean)
    \/ RecoveryIssueKey(n) \/ RecoveryAgentEnds(n)
    \/ \E how \in {"passed", "killed"} : RecoveryDecides(n, how)
    \/ RecoveryTeardown(n) \/ \E identical \in BOOLEAN : Compare(n, identical)

\* Silence kills, but on the ladder's page about an agent that never starts it
\* parks; a RETRY that a ref conflict's page did not offer is asked again, and
\* the third time taken for silence.
Window(n) == Unpark(n) \/ PageLapses(n) \/ Press(n, "PAUSE_EPIC") \/ LandingPageLapses(n)

Answer(n) ==
    \/ \E choice \in {"RETRY", "KILL", "PAUSE_EPIC", "KILL_EPIC"} :
          Press(n, choice) \/ PressRef(n, choice)
    \/ RetryLanding(n)
    \/ \E choice \in {"KILL", "PAUSE_EPIC", "KILL_EPIC"} : EndLanding(n, choice)

Poll(n) ==
    \/ PollSeesKill(n) \/ PollEnds(n)
    \/ \E step \in {"merging", "closing"} : PollDecides(n, step)
    \/ \E moved \in BOOLEAN : PollRejects(n, moved)

Fault(n) == TaskRaises(n) \/ PollStops(n)

Next ==
    \/ Scheduler
    \/ \E n \in Nodes : Task(n) \/ Window(n) \/ Answer(n) \/ Poll(n) \/ Fault(n)
    \/ pause_epic \/ resume_epic \/ kill_epic
    \/ LeaseTaken \/ LeaseReturned

Spec == Init /\ [][Next]_vars

\* Activities end or time out, the poll beats and a stalled landing is given
\* up: the workflow itself never stands still, but for an admission that finds the
\* owner busy.  Nobody has to answer, resume, kill or give the owner back; a window
\* that runs out and an owner that comes free are premises where a property needs
\* them.
FairSpec ==
    /\ Spec
    /\ WF_vars(Scheduler)
    /\ \A n \in Nodes : WF_vars(Task(n)) /\ WF_vars(Poll(n))

-----------------------------------------------------------------------------
(* What a node shows of its attempt loop: AttemptLoop, until it passed, was *)
(* reaped or locked out, or the killed epic returned.                       *)

LeftOver(n) == \/ epic_state = "KILLED" \/ rec[n].task = "done"
               \/ rec[n].task = "none" /\ rec[n].state # "PENDING"

LoopAt(n) ==
    IF rec[n].verified THEN "passed" ELSE IF LeftOver(n) THEN "over"
    ELSE IF rec[n].task \in {"none", "prep"} THEN "start"
    ELSE IF rec[n].task = "detect" THEN "agent" ELSE rec[n].task

LoopCarry(n) == IF LoopAt(n) \in {"teardown", "sweep"} THEN rec[n].carry ELSE "none"
LoopState(n) == IF rec[n].verified THEN "PASSED" ELSE rec[n].state

Loop(n) == INSTANCE AttemptLoop WITH
               at <- LoopAt(n), carry <- LoopCarry(n), state <- LoopState(n),
               key <- rec[n].key /\ ~rec[n].verified,
               worktree <- rec[n].worktree \/ rec[n].verified

-----------------------------------------------------------------------------
(* Properties.                                                              *)

\* Work is only ever built on what its edges promised: a node with a worktree
\* has every verified-gated dependency verified and every merge-gated one
\* landed, whatever became of the graph since it was dispatched.
BuiltOnItsEdges ==
    \A n \in Nodes : rec[n].worktree =>
        /\ \A d \in plan.depends_on[n] : rec[d].verified
        /\ \A d \in plan.depends_on_merged[n] : rec[d].landing = "MERGED"

\* A teardown that fails for good leaves its key open behind it; what is said
\* of keys is said of the epics where none does.
KeysClose == plan.faults \cap {"teardown", "rteardown"} = {}

\* The keys open at the proxy stay within the concurrency cap, a key is only
\* open for a task inside its bracket, and the subscription holds at most its
\* own limit of them.
KeysWithinCap ==
    LET open == {n \in Nodes : rec[n].key} IN
    KeysClose =>
        /\ Cardinality(open) <= plan.max_concurrent_nodes
        /\ Cardinality(open \cap plan.subscription) <= plan.max_subscription
        /\ \A n \in open : rec[n].task \in {"agent", "detect", "verify", "parkclose",
                                             "page", "teardown", "ragent", "rverify", "rteardown"}

\* An enqueued landing is always watched by exactly one poller, and a landing
\* is never driven by a poll and by a task at once (078 FR-008: a landing nobody
\* polls parks the epic forever).
EnqueuedIsWatched ==
    \A n \in Nodes :
        /\ rec[n].landing = "ENQUEUED" => rec[n].poll # "none" \/ kill_requested
        /\ rec[n].poll # "none" =>
              rec[n].landing = "ENQUEUED" /\ rec[n].task \in {"none", "done"}

\* A landing is charged at most its recovery cycles and rebased for free at
\* most max_free_rebases times, but for the RETRY presses that arrived on a page
\* that did not offer them (RecoveryOnBudget is the claim without them).
RecoveryBounded ==
    \A n \in Nodes :
        /\ rec[n].recovery_cycles <= plan.max_recovery_cycles + stale
        /\ rec[n].free_rebases <= plan.max_free_rebases

\* The claim of 079's offers: a RETRY is only honoured while a cycle remains.
RecoveryOnBudget ==
    \A n \in Nodes : rec[n].recovery_cycles <= plan.max_recovery_cycles

\* A completed epic left nothing running behind it: no task, no poller, no key,
\* no landing still open, and no node it could still have dispatched.
CompletedIsQuiet ==
    epic_state = "COMPLETED" =>
        \A n \in Nodes :
            /\ rec[n].task = "none" /\ rec[n].poll = "none"
            /\ KeysClose => ~rec[n].key
            /\ rec[n].landing \in {"NONE", "MERGED", "KILLED"}
            /\ ~(rec[n].state = "PENDING" /\ edges_satisfied(n))

\* "Drive every node of the graph to a terminal state": the claim of `run` for
\* an epic that completes.
CompletedIsTerminal ==
    epic_state = "COMPLETED" =>
        \A n \in Nodes : \/ rec[n].state \in TERMINAL_STATES
                         \/ plan.halt_after_pass /\ rec[n].state = "PASSED"

\* What an ended epic reports of a node agrees with what became of its landing:
\* merged exactly when the landing merged, and never merged past a kill.
EndedAccounts ==
    sched = "ended" =>
        \A n \in Nodes :
            /\ rec[n].state = "MERGED" <=> rec[n].landing = "MERGED"
            /\ rec[n].landing = "KILLED" => rec[n].state \in {"KILLED", "WAITING_OPERATOR"}
            /\ epic_state = "KILLED" =>
                  rec[n].state \in {"MERGED", "KILLED"} /\ rec[n].poll = "none"

\* A node that ended killed is never dispatched again, as long as no activity
\* fails for good.
KilledStaysDown ==
    [][plan.faults = {} =>
         \A n \in Nodes : rec[n].state = "KILLED" /\ rec[n].task = "none"
                              => rec'[n].task = "none"]_vars

\* A node is locked out only behind a dependency that is dead, never behind one
\* that is parked (079 FR-013: a park locks nobody out).
LockOutBehindDead ==
    [][\A n \in Nodes :
         (rec[n].state = "PENDING" /\ rec[n].task = "none" /\ rec'[n].state = "KILLED"
            /\ sched' # "ended")
         => \E d \in plan.depends_on[n] \cup plan.depends_on_merged[n] :
               rec'[d].state = "KILLED"]_vars

\* Every node's attempts stay the attempt loop that NodeAttempts details, whatever
\* scheduler, drain, lock-out, pause and kill do around them: what a node passed
\* on, how it ended and what it left open is what its own last attempt, page or
\* stop decided, or a lock-out before its first, or the end of a killed epic.
AttemptLoopsHold ==
    /\ \A n \in Nodes : Loop(n)!LoopInit
    /\ [][\A n \in Nodes : [Loop(n)!LoopNext]_(Loop(n)!loop)]_vars

\* A kill ends the epic, whatever it finds under way and with nobody answering.
KillEnds == kill_requested ~> epic_state = "KILLED"

\* The Codex owner is lent on: it keeps coming free, and one who keeps asking for it
\* while it is free gets it.  The code does neither: it asks again after a sleep,
\* and a lease nobody gives back (an adapter's session, a raise between admission
\* and key) keeps every later node out until a kill.
OwnerIsLent ==
    /\ []<>(lease # Elsewhere)
    /\ SF_vars(\E n \in Owned : IssueKey(n) \/ RecoveryIssueKey(n))

\* An epic always ends, as long as windows run out, an operator who paused it
\* resumes it, and the Codex owner is lent on.
EpicEnds ==
    (WF_vars(resume_epic) /\ OwnerIsLent /\ \A n \in Nodes : WF_vars(Window(n)))
        => <>(sched = "ended")
=============================================================================
