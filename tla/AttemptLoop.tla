----------------------------- MODULE AttemptLoop ----------------------------
(***************************************************************************)
(* What a node's attempt loop (EpicWorkflow._run_node, factory/workgraph/  *)
(* workflow.py) shows the epic around it, whatever ladder, pages, gates    *)
(* and agents decide inside: a worktree before the first key, a key only   *)
(* from its issue to its closing, a pass only out of a verification, a     *)
(* page that can end the node but never pass it, and one account of how    *)
(* the node ended.                                                         *)
(*                                                                         *)
(* NodeAttempts has the loop in detail, for one node; EpicWorkflow has it  *)
(* coarsely, for each node of a graph.  Both implement this module.        *)
(*                                                                         *)
(* `at` is what the loop waits for: "start" is a node not yet prepared,    *)
(* "passed" one the loop handed on to its landing (what becomes of it then *)
(* is not the loop's), "over" one it ended otherwise.                      *)
(***************************************************************************)
VARIABLES
    at,
    carry,      \* how the attempt being closed, or the node being swept, ended
    state,      \* what the epic reports of the node
    key,        \* the attempt's key is open
    worktree    \* the worktree is on disk

loop == <<at, carry, state, key, worktree>>

LoopInit ==
    at = "start" /\ carry = "none" /\ state = "PENDING" /\ key = FALSE /\ worktree = FALSE

-----------------------------------------------------------------------------

\* A killed node is swept, unless it is still parked on a question.
Killed ==
    IF state = "WAITING_OPERATOR"
    THEN at' = "over" /\ carry' = "none"
    ELSE at' = "sweep" /\ carry' = "killed"

\* The top of the loop: a stop, the next attempt, or a rung that has no route.
NextAttempt == Killed \/ (at' \in {"issue", "raised"} /\ carry' = "none")

Prepare ==
    /\ at = "start" /\ NextAttempt
    /\ worktree' = TRUE /\ UNCHANGED <<state, key>>

IssueKey ==
    /\ at = "issue" /\ at' = "agent"
    /\ key' = TRUE /\ state' = "RUNNING" /\ UNCHANGED <<carry, worktree>>

AgentEnds ==
    /\ at = "agent" /\ at' = "verify"
    /\ UNCHANGED <<carry, state, key, worktree>>

AgentAsks ==
    /\ at = "agent" /\ at' = "parkclose"
    /\ state' = "WAITING_OPERATOR" /\ UNCHANGED <<carry, key, worktree>>

CloseForPark ==
    /\ at = "parkclose" /\ at' = "parked"
    /\ key' = FALSE /\ UNCHANGED <<carry, state, worktree>>

\* An answer, an expired window, or the stop.
Unpark ==
    /\ at = "parked" /\ NextAttempt
    /\ UNCHANGED <<state, key, worktree>>

Escalate ==
    /\ at = "verify" /\ at' = "page"
    /\ UNCHANGED <<carry, state, key, worktree>>

\* What each wait of an attempt may decide; an activity that failed for good
\* unwinds through the same closing.
Decides(place) ==
    CASE place = "agent"     -> {"killed", "raise"}
      [] place = "verify"    -> {"retry", "passed", "killed", "raise"}
      [] place = "page"      -> {"retry", "parked", "killed", "raise"}
      [] place = "parkclose" -> {"raise"}

Decide ==
    /\ at \in {"agent", "verify", "page", "parkclose"} /\ at' = "teardown"
    /\ carry' \in Decides(at) /\ UNCHANGED <<state, key, worktree>>

Teardown ==
    /\ at = "teardown" /\ key' = FALSE /\ worktree' = worktree
    /\ \/ carry = "retry" /\ NextAttempt /\ state' = state
       \/ carry = "killed" /\ Killed /\ state' = state
       \/ carry = "parked" /\ at' = "sweep" /\ UNCHANGED <<carry, state>>
       \/ carry = "raise" /\ at' = "raised" /\ carry' = "none" /\ state' = state
       \/ carry = "passed" /\ at' = "passed" /\ carry' = "none" /\ state' = "PASSED"

\* _close_out: PAUSE_EPIC parks the node, anything else ends it.
Sweep ==
    /\ at = "sweep" /\ at' = "over" /\ carry' = "none"
    /\ worktree' = FALSE /\ key' = key
    /\ state' = IF carry = "parked" THEN "WAITING_OPERATOR" ELSE "KILLED"

\* An activity outside an attempt's bracket, or its closing, failed for good.
Raise ==
    /\ at \in {"start", "issue", "parked", "teardown", "sweep"}
    /\ at' = "raised" /\ carry' = "none" /\ UNCHANGED <<state, key, worktree>>

\* _reap_finished ends a node whose task raised.
Reap ==
    /\ at = "raised" /\ at' = "over" /\ state' = "KILLED"
    /\ UNCHANGED <<carry, key, worktree>>

\* _lock_out_dependents writes on every node that reads PENDING, also on one that
\* was dispatched and has not reached its first attempt.
LockOut ==
    /\ state = "PENDING" /\ state' = "KILLED"
    /\ at' = at \/ (at = "start" /\ at' = "over")
    /\ UNCHANGED <<carry, key, worktree>>

\* A killed epic returns over what it did not wait for: never a verification, a
\* page or a pass.  What is open then stays so.
Abandoned == \/ at \in {"parkclose", "parked", "issue", "agent", "sweep", "raised", "over"}
             \/ at = "teardown" /\ carry \in {"killed", "raise"}

kill_remaining ==
    /\ Abandoned /\ at' = "over" /\ carry' = "none" /\ state' = "KILLED"
    /\ UNCHANGED <<key, worktree>>

LoopNext ==
    \/ Prepare \/ IssueKey \/ AgentEnds \/ AgentAsks \/ CloseForPark \/ Unpark
    \/ Escalate \/ Decide \/ Teardown \/ Sweep \/ Raise \/ Reap
    \/ LockOut \/ kill_remaining

LoopSpec == LoopInit /\ [][LoopNext]_loop
=============================================================================
