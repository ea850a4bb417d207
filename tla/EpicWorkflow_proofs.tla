------------------------ MODULE EpicWorkflow_proofs ------------------------
(***************************************************************************)
(* Theorems of EpicWorkflow, for every graph, every dial of an epic and    *)
(* every bound on its world: the safety of the scheduler, of the tasks it  *)
(* fans out and of the polls that outlive them, by one inductive invariant.*)
(*                                                                         *)
(* None of the properties is inductive alone.  EpicInv says of every node  *)
(* which landing its task may have in its hands (LandingOK), what the task *)
(* carries into its next step (CarryOK), what a park leaves behind         *)
(* (WaitingOK) and what a budget still allows (BudgetOK); of the graph,    *)
(* that a node with a worktree has its edges (BuiltInv); of the scheduler, *)
(* that what flies fits the caps (SlotsInv) and that what a kill does not  *)
(* wait for can no longer reach a verdict or the queue (KillInv,           *)
(* Lingering), which is why a killed epic's report can be trusted.         *)
(***************************************************************************)
EXTENDS EpicWorkflow, TLAPS, FiniteSetTheorems, WellFoundedInduction

-----------------------------------------------------------------------------
(* The inductive invariant.                                                 *)

\* Where a task may hold a key, where it has not proposed anything yet, and
\* where it works on a rejected landing.
Bracket    == {"agent", "detect", "verify", "parkclose", "page", "teardown", "ragent", "rverify",
               "rteardown"}
FirstRun   == {"prep", "issue", "agent", "detect", "verify", "parkclose", "parked", "page", "teardown",
               "sweep", "finish"}
Recovering == {"sync", "rissue", "ragent", "rverify", "rteardown", "compare", "lpage"}
Idle       == {"none", "done"}

\* What a step carries into the next one.
CarryOK(r) ==
    /\ r.task = "teardown" => r.carry \in {"retry", "passed", "killed", "parked", "raise"}
    /\ r.task = "sync" => r.carry \in {"free", "charged"}
    /\ r.task = "lpage" => r.carry \in {"offer", "no_offer", "flake"}

\* Which landing a task has in its hands; only the kill ends one under a task.
LandingOK(r) ==
    /\ r.task \in FirstRun => r.landing = "NONE"
    /\ r.task \in {"push", "refpage", "park", "unland"} =>
          r.landing \in {"NONE", "REJECTED", "KILLED"}
    /\ r.task \in Recovering => r.landing \in {"REJECTED", "KILLED"}
    /\ r.task = "enqueue" => r.landing \in {"PR_OPEN", "REJECTED", "KILLED"}
    /\ r.state = "PENDING" => r.landing = "NONE"
    /\ r.state = "MERGED" <=> r.landing = "MERGED"
    /\ r.landing \in {"MERGED", "ENQUEUED"} => r.task \in Idle
    /\ r.landing = "ENQUEUED" => r.state = "ENQUEUED"
    /\ r.poll # "none" => r.landing = "ENQUEUED"

\* A node parked on an operator either waits for an answer inside its first
\* run, or has a swept worktree and a recovery that can only end.
WaitingOK(r) ==
    r.state = "WAITING_OPERATOR" =>
        \/ r.task \in {"none", "done", "raised"} /\ (r.landing = "NONE" \/ ~r.worktree)
        \/ /\ r.landing = "NONE"
           /\ \/ r.task \in {"parkclose", "parked", "issue"}
              \/ r.task = "teardown" /\ r.carry = "raise"
        \/ /\ r.landing # "NONE" /\ ~r.worktree
           /\ \/ r.task \in {"sync", "park", "unland"}
              \/ r.task = "lpage" /\ r.carry # "flake"

\* A task a drain did not wait for can reach no verdict and no queue.
Lingering(r) ==
    \/ r.task \in {"none", "done", "raised"}
    \/ /\ r.landing = "NONE"
       /\ \/ r.task \in {"parkclose", "parked", "issue", "agent", "sweep"}
          \/ r.task = "teardown" /\ r.carry \in {"killed", "raise"}
    \/ /\ r.landing \in {"REJECTED", "KILLED"} /\ ~r.worktree
       /\ \/ r.task \in {"sync", "park", "unland"}
          \/ r.task = "lpage" /\ r.carry # "flake"

\* The budgets of a recovery, and what an offer and a free rebase promise.
BudgetOK(r) ==
    /\ r.free_rebases <= plan.max_free_rebases
    /\ r.task = "sync" /\ r.carry = "free" => r.free_rebases < plan.max_free_rebases
    /\ r.task = "lpage" /\ r.carry = "offer" => CyclesLeft(r)

\* Without an activity that fails for good, no task raises and a node that ended
\* killed has no landing left to recover.
UnfaultedOK(r) ==
    plan.faults = {} =>
        /\ r.carry # "raise" /\ r.task # "raised"
        /\ r.state = "KILLED" => r.landing \in {"NONE", "KILLED"}

LocalOK(r) ==
    /\ KeysClose /\ r.key => r.task \in Bracket
    /\ CarryOK(r) /\ LandingOK(r) /\ WaitingOK(r) /\ BudgetOK(r) /\ UnfaultedOK(r)

\* An enqueued landing nobody polls means a kill, a dead landing a dead or a
\* parked node, until the kill's own half ends them.
SettledOK(r) ==
    /\ r.landing = "ENQUEUED" => r.poll # "none" \/ kill_requested
    /\ r.landing = "KILLED" =>
          \/ r.state \in {"KILLED", "WAITING_OPERATOR"} /\ r.task \in Idle
          \/ sched \in {"kill_landings", "ended"}

\* The edges of a node, as its dependencies' landings tell them.
EdgesHold(n) ==
    /\ \A d \in plan.depends_on[n] : rec[d].verified
    /\ \A d \in plan.depends_on_merged[n] : rec[d].landing = "MERGED"

BuiltInv == \A n \in Nodes : rec[n].task = "prep" \/ rec[n].worktree => EdgesHold(n)

\* The tasks in flight are within the cap.
SlotsInv ==
    /\ Cardinality(in_flight) <= plan.max_concurrent_nodes
    /\ Cardinality(in_flight \cap plan.subscription) <= plan.max_subscription

\* The kill waits for what can still do something, then polls nothing.
KillInv ==
    /\ sched \in {"kill_drain", "kill_landings"} =>
          /\ kill_requested
          /\ \A n \in in_flight \ drainable : Lingering(rec[n])
    /\ sched = "kill_landings" => drainable = {} /\ \A n \in Nodes : rec[n].poll = "none"

ShellInv ==
    /\ sched = "ended" <=> epic_state \in {"COMPLETED", "KILLED"}
    /\ CompletedIsQuiet /\ EndedAccounts

EpicInv ==
    /\ TypeOK
    /\ \A n \in Nodes : LocalOK(rec[n])
    /\ \A n \in Nodes : SettledOK(rec[n])
    /\ \A n \in Nodes : rec[n].recovery_cycles <= plan.max_recovery_cycles + stale
    /\ BuiltInv /\ SlotsInv /\ KillInv /\ ShellInv

-----------------------------------------------------------------------------
(* A step of one node.                                                      *)

\* What a step may make of node n's record, when everything else it changes is a
\* flag, a bound of the world or the reported state.
StepOK(n, r) ==
    /\ LocalOK(r)
    /\ r.landing = "ENQUEUED" => r.poll # "none" \/ kill_requested'
    /\ r.landing = "KILLED" =>
          \/ r.state \in {"KILLED", "WAITING_OPERATOR"} /\ r.task \in Idle
          \/ sched = "kill_landings"
    /\ r.recovery_cycles <= plan.max_recovery_cycles + stale'
    /\ rec[n].verified => r.verified
    /\ rec[n].landing = "MERGED" => r.landing = "MERGED"
    /\ r.task = "prep" \/ r.worktree => rec[n].task = "prep" \/ rec[n].worktree
    /\ r.task # "none" => rec[n].task # "none"
    /\ kill_requested /\ Lingering(rec[n]) => Lingering(r)
    /\ sched = "kill_landings" => r.poll = "none"

LEMMA PlanType == ASSUME EpicInv PROVE plan \in Plan
BY EpicAssumption DEF EpicInv, TypeOK

LEMMA NodesFinite == IsFiniteSet(Nodes)
BY EpicAssumption, FS_Interval DEF Nodes

\* Fewer tasks are within the cap too.
LEMMA SmallerIsWithin ==
    ASSUME NEW B \in SUBSET Nodes, NEW A \in SUBSET B, plan \in Plan,
           Cardinality(B) <= plan.max_concurrent_nodes,
           Cardinality(B \cap plan.subscription) <= plan.max_subscription
    PROVE  /\ Cardinality(A) <= plan.max_concurrent_nodes
           /\ Cardinality(A \cap plan.subscription) <= plan.max_subscription
<1>1. IsFiniteSet(B) /\ IsFiniteSet(B \cap plan.subscription)
    <2>1. B \cap plan.subscription \in SUBSET Nodes
        OBVIOUS
    <2> QED BY <2>1, NodesFinite, FS_Subset
<1>2. Cardinality(A) <= Cardinality(B) /\ IsFiniteSet(A)
    BY <1>1, FS_Subset
<1>3. /\ Cardinality(A \cap plan.subscription) <= Cardinality(B \cap plan.subscription)
      /\ IsFiniteSet(A \cap plan.subscription)
    <2>1. A \cap plan.subscription \in SUBSET (B \cap plan.subscription)
        OBVIOUS
    <2> QED BY <2>1, <1>1, FS_Subset
<1>4. /\ Cardinality(A) \in Nat /\ Cardinality(B) \in Nat
      /\ Cardinality(A \cap plan.subscription) \in Nat
      /\ Cardinality(B \cap plan.subscription) \in Nat
    BY <1>1, <1>2, <1>3, FS_CardinalityType
<1> QED BY <1>2, <1>3, <1>4 DEF Plan

LEMMA FewerSlots ==
    ASSUME SlotsInv, NEW S \in SUBSET in_flight, plan \in Plan
    PROVE  /\ Cardinality(S) <= plan.max_concurrent_nodes
           /\ Cardinality(S \cap plan.subscription) <= plan.max_subscription
<1>1. in_flight \in SUBSET Nodes
    BY DEF in_flight
<1> QED BY <1>1, SmallerIsWithin DEF SlotsInv

\* A step of one node keeps the invariant if what it makes of the node is StepOK.
LEMMA NodeStep ==
    ASSUME EpicInv, Suspended, NEW n \in Nodes, NEW r \in NodeRecord, StepOK(n, r),
           rec' = [rec EXCEPT ![n] = r],
           UNCHANGED <<plan, sched, drainable>>,
           kill_requested' \in BOOLEAN, paused' \in BOOLEAN, kill_requested => kill_requested',
           epic_state' \in {epic_state, "PAUSED"},
           pauses' \in 0..plan.pauses, stale' \in 0..plan.stale, stale <= stale',
           lease' \in {Nobody, Elsewhere} \cup Nodes
    PROVE  EpicInv'
<1>1. plan \in Plan /\ plan' = plan
    BY PlanType
<1>2. /\ rec'[n] = r
      /\ \A m \in Nodes : m # n => rec'[m] = rec[m]
    BY DEF EpicInv, TypeOK
<1>3. TypeOK'
    BY DEF EpicInv, TypeOK
<1>4. \A m \in Nodes : LocalOK(rec[m])'
    BY <1>1, <1>2 DEF EpicInv, StepOK, LocalOK, KeysClose, CarryOK, LandingOK,
           WaitingOK, BudgetOK, CyclesLeft, UnfaultedOK
<1>5. \A m \in Nodes : SettledOK(rec[m])'
    BY <1>2 DEF EpicInv, StepOK, SettledOK
<1>6. \A m \in Nodes : (rec[m].recovery_cycles <= plan.max_recovery_cycles + stale)'
    BY <1>1, <1>2 DEF EpicInv, TypeOK, NodeRecord, StepOK, Plan
<1>7. BuiltInv'
    <2> SUFFICES ASSUME NEW m \in Nodes, rec'[m].task = "prep" \/ rec'[m].worktree
                 PROVE  EdgesHold(m)'
        BY DEF BuiltInv
    <2>1. EdgesHold(m)
        BY <1>2 DEF EpicInv, BuiltInv, StepOK
    <2>2. plan.depends_on[m] \subseteq Nodes /\ plan.depends_on_merged[m] \subseteq Nodes
        BY <1>1 DEF Plan
    <2>3. \A d \in Nodes : /\ rec[d].verified => rec'[d].verified
                           /\ rec[d].landing = "MERGED" => rec'[d].landing = "MERGED"
        BY <1>2 DEF StepOK
    <2> QED BY <1>1, <2>1, <2>2, <2>3 DEF EdgesHold
<1>8. in_flight' \subseteq in_flight
    BY <1>2 DEF in_flight, StepOK
<1>9. SlotsInv'
    BY <1>1, <1>8, FewerSlots DEF EpicInv, SlotsInv
<1>10. KillInv'
    BY <1>2, <1>8 DEF EpicInv, KillInv, StepOK, Lingering, in_flight
<1>11. ShellInv'
    BY DEF EpicInv, ShellInv, CompletedIsQuiet, EndedAccounts, Suspended
<1> QED BY <1>3, <1>4, <1>5, <1>6, <1>7, <1>9, <1>10, <1>11 DEF EpicInv

\* What is known of the node a step is about.
Known(n) ==
    /\ rec[n] \in NodeRecord /\ LocalOK(rec[n]) /\ SettledOK(rec[n])
    /\ rec[n].recovery_cycles <= plan.max_recovery_cycles + stale
    /\ sched = "kill_landings" => Lingering(rec[n]) /\ rec[n].poll = "none" /\ kill_requested
    /\ plan.max_recovery_cycles \in Nat /\ plan.max_free_rebases \in Nat /\ stale \in Nat

LEMMA NodeIsKnown == ASSUME EpicInv, NEW n \in Nodes PROVE Known(n)
<1>1. plan \in Plan
    BY PlanType
<1>2. sched = "kill_landings" => Lingering(rec[n]) /\ rec[n].poll = "none" /\ kill_requested
    BY DEF EpicInv, KillInv, in_flight, Lingering
<1> QED BY <1>1, <1>2 DEF EpicInv, TypeOK, Known, Plan

LEMMA FlagTypes ==
    ASSUME EpicInv
    PROVE  /\ kill_requested \in BOOLEAN /\ paused \in BOOLEAN
           /\ pauses \in 0..plan.pauses /\ stale \in 0..plan.stale
           /\ plan.pauses \in Nat /\ plan.stale \in Nat
           /\ pauses \in Nat /\ stale \in Nat
           /\ lease \in {Nobody, Elsewhere} \cup Nodes
BY PlanType DEF EpicInv, TypeOK, Plan

\* A step that touches nothing but its node's record.
LEMMA QuietStep ==
    ASSUME EpicInv, Suspended, NEW n \in Nodes, NEW r \in NodeRecord, StepOK(n, r), Go(n, r),
           UNCHANGED <<shell, flags, world>>
    PROVE  EpicInv'
<1>1. /\ rec' = [rec EXCEPT ![n] = r] /\ UNCHANGED <<plan, sched, drainable>>
      /\ kill_requested' = kill_requested /\ paused' = paused /\ epic_state' = epic_state
      /\ pauses' = pauses /\ stale' = stale /\ lease' = lease
    BY DEF Go, shell, flags, world
<1>2. /\ kill_requested \in BOOLEAN /\ paused \in BOOLEAN
      /\ pauses \in 0..plan.pauses /\ stale \in 0..plan.stale /\ stale <= stale
      /\ lease \in {Nobody, Elsewhere} \cup Nodes
    BY FlagTypes
<1> QED BY <1>1, <1>2, NodeStep

\* One that also asks for the Codex owner, or releases it.
LEMMA LeaseStep ==
    ASSUME EpicInv, Suspended, NEW n \in Nodes, NEW r \in NodeRecord, StepOK(n, r), Go(n, r),
           UNCHANGED <<shell, flags, pauses, stale>>, AdmitOwner(n) \/ ReleaseOwner(n)
    PROVE  EpicInv'
<1>1. /\ rec' = [rec EXCEPT ![n] = r] /\ UNCHANGED <<plan, sched, drainable>>
      /\ kill_requested' = kill_requested /\ paused' = paused /\ epic_state' = epic_state
      /\ pauses' = pauses /\ stale' = stale
    BY DEF Go, shell, flags
<1>2. /\ kill_requested \in BOOLEAN /\ paused \in BOOLEAN
      /\ pauses \in 0..plan.pauses /\ stale \in 0..plan.stale /\ stale <= stale
    BY FlagTypes
<1>3. lease' \in {Nobody, Elsewhere} \cup Nodes
    BY FlagTypes DEF AdmitOwner, ReleaseOwner
<1> QED BY <1>1, <1>2, <1>3, NodeStep

-----------------------------------------------------------------------------
(* The steps that touch their node's record and nothing else: what the step *)
(* makes of the record is a record, and one that StepOK allows.             *)

LEMMA PrepareKeeps ==
    ASSUME EpicInv, NEW n \in Nodes, Prepare(n)
    PROVE  EpicInv'
<1> DEFINE o == rec[n]
<1>1. Known(n)
    BY NodeIsKnown
<1>2. /\ o.task = "prep" /\ Suspended /\ sched # "ended" /\ UNCHANGED <<shell, flags, world>>
      /\ Go(n, NextAttempt([o EXCEPT !.worktree = TRUE]))
    BY DEF Prepare, At, Suspended
<1>3. PICK t \in {"issue", "done", "sweep"}, c \in {"none", "killed"} :
         /\ NextAttempt([o EXCEPT !.worktree = TRUE])
               = [o EXCEPT !.worktree = TRUE, !.task = t, !.carry = c]
         /\ kill_requested <=> t \in {"done", "sweep"}
         /\ t = "done" => o.state = "WAITING_OPERATOR"
    BY <1>1, <1>2 DEF Known, NodeRecord, NextAttempt, Killed
<1> DEFINE r == [o EXCEPT !.worktree = TRUE, !.task = t, !.carry = c]
<1>4. r \in NodeRecord
    BY <1>1, <1>2, <1>3 DEF Known, NodeRecord, Tasks, Carry
<1>5. StepOK(n, r)
    BY <1>1, <1>2, <1>3 DEF flags, world, Known, NodeRecord, StepOK, LocalOK, KeysClose,
           CarryOK, LandingOK, WaitingOK, BudgetOK, CyclesLeft, UnfaultedOK, SettledOK,
           Lingering, FirstRun, Recovering, Idle, Bracket
<1> QED BY <1>1, <1>2, <1>3, <1>4, <1>5, QuietStep

LEMMA IssueKeyKeeps ==
    ASSUME EpicInv, NEW n \in Nodes, IssueKey(n)
    PROVE  EpicInv'
<1> DEFINE o == rec[n]
<1>1. Known(n)
    BY NodeIsKnown
<1> DEFINE r == [o EXCEPT !.task = "agent", !.state = "RUNNING", !.key = TRUE,
                         !.attempts = o.attempts + 1]
<1>2. /\ o.task = "issue" /\ Suspended /\ sched # "ended" /\ UNCHANGED <<shell, flags, pauses, stale>>
      /\ Go(n, r) /\ AdmitOwner(n)
    BY DEF IssueKey, At, Suspended
<1>3. /\ "RUNNING" \in NodeState
      /\ "agent" \in Tasks
      /\ o.attempts + 1 \in Nat
    BY <1>1 DEF Known, NodeRecord, Tasks, Carry, NodeState, LandingState
<1>4. r \in NodeRecord
    BY <1>1, <1>2, <1>3 DEF Known, NodeRecord
<1>5. StepOK(n, r)
    BY <1>1, <1>2 DEF flags, Known, NodeRecord, StepOK, LocalOK, KeysClose,
           CarryOK, LandingOK, WaitingOK, BudgetOK, CyclesLeft, UnfaultedOK, SettledOK,
           Lingering, FirstRun, Recovering, Idle, Bracket
<1> QED BY <1>1, <1>2, <1>4, <1>5, LeaseStep

LEMMA AgentEndsKeeps ==
    ASSUME EpicInv, NEW n \in Nodes, AgentEnds(n)
    PROVE  EpicInv'
<1> DEFINE o == rec[n]
<1>1. Known(n)
    BY NodeIsKnown
<1> DEFINE r == IF kill_requested
                THEN [o EXCEPT !.task = "teardown", !.carry = "killed"]
                ELSE [o EXCEPT !.task = "detect"]
<1>2. /\ o.task = "agent" /\ Suspended /\ sched # "ended" /\ UNCHANGED <<shell, flags, pauses, stale>>
      /\ Go(n, r) /\ ReleaseOwner(n)
    BY DEF AgentEnds, At, Suspended
<1>3. /\ "killed" \in Carry
      /\ "teardown" \in Tasks
      /\ "detect" \in Tasks
    BY <1>1 DEF Known, NodeRecord, Tasks, Carry, NodeState, LandingState
<1>4. r \in NodeRecord
    BY <1>1, <1>2, <1>3 DEF Known, NodeRecord
<1>5. StepOK(n, r)
    BY <1>1, <1>2 DEF flags, Known, NodeRecord, StepOK, LocalOK, KeysClose,
           CarryOK, LandingOK, WaitingOK, BudgetOK, CyclesLeft, UnfaultedOK, SettledOK,
           Lingering, FirstRun, Recovering, Idle, Bracket
<1> QED BY <1>1, <1>2, <1>4, <1>5, LeaseStep

LEMMA NothingAskedKeeps ==
    ASSUME EpicInv, NEW n \in Nodes, NothingAsked(n)
    PROVE  EpicInv'
<1> DEFINE o == rec[n]
<1>1. Known(n)
    BY NodeIsKnown
<1> DEFINE r == [o EXCEPT !.task = "verify"]
<1>2. /\ o.task = "detect" /\ Suspended /\ sched # "ended" /\ UNCHANGED <<shell, flags, world>>
      /\ Go(n, r)
    BY DEF NothingAsked, At, Suspended
<1>3. "verify" \in Tasks
    BY DEF Tasks
<1>4. r \in NodeRecord
    BY <1>1, <1>2, <1>3 DEF Known, NodeRecord
<1>5. StepOK(n, r)
    BY <1>1, <1>2 DEF flags, world, Known, NodeRecord, StepOK, LocalOK, KeysClose,
           CarryOK, LandingOK, WaitingOK, BudgetOK, CyclesLeft, UnfaultedOK, SettledOK,
           Lingering, FirstRun, Recovering, Idle, Bracket
<1> QED BY <1>1, <1>2, <1>4, <1>5, QuietStep

LEMMA CloseForParkKeeps ==
    ASSUME EpicInv, NEW n \in Nodes, CloseForPark(n)
    PROVE  EpicInv'
<1> DEFINE o == rec[n]
<1>1. Known(n)
    BY NodeIsKnown
<1> DEFINE r == [o EXCEPT !.task = "parked", !.key = FALSE]
<1>2. /\ o.task = "parkclose" /\ Suspended /\ sched # "ended" /\ UNCHANGED <<shell, flags, world>>
      /\ Go(n, r)
    BY DEF CloseForPark, At, Suspended
<1>3. "parked" \in Tasks
    BY <1>1 DEF Known, NodeRecord, Tasks, Carry, NodeState, LandingState
<1>4. r \in NodeRecord
    BY <1>1, <1>2, <1>3 DEF Known, NodeRecord
<1>5. StepOK(n, r)
    BY <1>1, <1>2 DEF flags, world, Known, NodeRecord, StepOK, LocalOK, KeysClose,
           CarryOK, LandingOK, WaitingOK, BudgetOK, CyclesLeft, UnfaultedOK, SettledOK,
           Lingering, FirstRun, Recovering, Idle, Bracket
<1> QED BY <1>1, <1>2, <1>4, <1>5, QuietStep

LEMMA KillParkedKeeps ==
    ASSUME EpicInv, NEW n \in Nodes, KillParked(n)
    PROVE  EpicInv'
<1> DEFINE o == rec[n]
<1>1. Known(n)
    BY NodeIsKnown
<1>2. /\ o.task = "parked" /\ Suspended /\ sched # "ended" /\ UNCHANGED <<shell, flags, world>>
      /\ Go(n, Killed(o))
    BY DEF KillParked, At, Suspended
<1>3. PICK t \in {"done", "sweep"}, c \in {"none", "killed"} :
         /\ Killed(o)
               = [o EXCEPT !.task = t, !.carry = c]
         /\ t = "done" <=> o.state = "WAITING_OPERATOR"
    BY <1>1, <1>2 DEF Known, NodeRecord, Killed
<1> DEFINE r == [o EXCEPT !.task = t, !.carry = c]
<1>4. r \in NodeRecord
    BY <1>1, <1>2, <1>3 DEF Known, NodeRecord, Tasks, Carry
<1>5. StepOK(n, r)
    BY <1>1, <1>2, <1>3 DEF flags, world, Known, NodeRecord, StepOK, LocalOK, KeysClose,
           CarryOK, LandingOK, WaitingOK, BudgetOK, CyclesLeft, UnfaultedOK, SettledOK,
           Lingering, FirstRun, Recovering, Idle, Bracket
<1> QED BY <1>1, <1>2, <1>3, <1>4, <1>5, QuietStep

LEMMA DecideKeeps ==
    ASSUME EpicInv, NEW n \in Nodes, NEW how \in {"retry", "passed", "killed"}, Decide(n, how)
    PROVE  EpicInv'
<1> DEFINE o == rec[n]
<1>1. Known(n)
    BY NodeIsKnown
<1> DEFINE r == [o EXCEPT !.task = "teardown", !.carry = how]
<1>2. /\ o.task = "verify" /\ Suspended /\ sched # "ended" /\ UNCHANGED <<shell, flags, world>>
      /\ Go(n, r)
    BY DEF Decide, At, Suspended
<1>3. "teardown" \in Tasks
    BY <1>1 DEF Known, NodeRecord, Tasks, Carry, NodeState, LandingState
<1>4. r \in NodeRecord
    BY <1>1, <1>2, <1>3 DEF Known, NodeRecord, Tasks, Carry
<1>5. StepOK(n, r)
    BY <1>1, <1>2 DEF flags, world, Known, NodeRecord, StepOK, LocalOK, KeysClose,
           CarryOK, LandingOK, WaitingOK, BudgetOK, CyclesLeft, UnfaultedOK, SettledOK,
           Lingering, FirstRun, Recovering, Idle, Bracket
<1> QED BY <1>1, <1>2, <1>4, <1>5, QuietStep

LEMMA EscalateKeeps ==
    ASSUME EpicInv, NEW n \in Nodes, Escalate(n)
    PROVE  EpicInv'
<1> DEFINE o == rec[n]
<1>1. Known(n)
    BY NodeIsKnown
<1> DEFINE r == IF kill_requested
                THEN [o EXCEPT !.task = "teardown", !.carry = "killed"]
                ELSE [o EXCEPT !.task = "page"]
<1>2. /\ o.task = "verify" /\ Suspended /\ sched # "ended" /\ UNCHANGED <<shell, flags, world>>
      /\ Go(n, r)
    BY DEF Escalate, At, Suspended
<1>3. /\ "killed" \in Carry
      /\ "page" \in Tasks
      /\ "teardown" \in Tasks
    BY <1>1 DEF Known, NodeRecord, Tasks, Carry, NodeState, LandingState
<1>4. r \in NodeRecord
    BY <1>1, <1>2, <1>3 DEF Known, NodeRecord
<1>5. StepOK(n, r)
    BY <1>1, <1>2 DEF flags, world, Known, NodeRecord, StepOK, LocalOK, KeysClose,
           CarryOK, LandingOK, WaitingOK, BudgetOK, CyclesLeft, UnfaultedOK, SettledOK,
           Lingering, FirstRun, Recovering, Idle, Bracket
<1> QED BY <1>1, <1>2, <1>4, <1>5, QuietStep

LEMMA PageLapsesKeeps ==
    ASSUME EpicInv, NEW n \in Nodes, PageLapses(n)
    PROVE  EpicInv'
<1> DEFINE o == rec[n]
<1>1. Known(n)
    BY NodeIsKnown
<1> DEFINE r == [o EXCEPT !.task = "teardown", !.carry = "killed"]
<1>2. /\ o.task = "page" /\ Suspended /\ sched # "ended" /\ UNCHANGED <<shell, flags, world>>
      /\ Go(n, r)
    BY DEF PageLapses, At, Suspended
<1>3. /\ "killed" \in Carry
      /\ "teardown" \in Tasks
    BY <1>1 DEF Known, NodeRecord, Tasks, Carry, NodeState, LandingState
<1>4. r \in NodeRecord
    BY <1>1, <1>2, <1>3 DEF Known, NodeRecord
<1>5. StepOK(n, r)
    BY <1>1, <1>2 DEF flags, world, Known, NodeRecord, StepOK, LocalOK, KeysClose,
           CarryOK, LandingOK, WaitingOK, BudgetOK, CyclesLeft, UnfaultedOK, SettledOK,
           Lingering, FirstRun, Recovering, Idle, Bracket
<1> QED BY <1>1, <1>2, <1>4, <1>5, QuietStep

LEMMA SweepKeeps ==
    ASSUME EpicInv, NEW n \in Nodes, Sweep(n)
    PROVE  EpicInv'
<1> DEFINE o == rec[n]
<1>1. Known(n)
    BY NodeIsKnown
<1> DEFINE r == [o EXCEPT !.task = "done", !.carry = "none", !.worktree = FALSE,
                         !.state = IF o.carry = "parked" THEN "WAITING_OPERATOR" ELSE "KILLED"]
<1>2. /\ o.task = "sweep" /\ Suspended /\ sched # "ended" /\ UNCHANGED <<shell, flags, world>>
      /\ Go(n, r)
    BY DEF Sweep, At, Suspended
<1>3. /\ "done" \in Tasks
      /\ "none" \in Carry
      /\ (IF o.carry = "parked" THEN "WAITING_OPERATOR" ELSE "KILLED") \in NodeState
    BY <1>1 DEF Known, NodeRecord, Tasks, Carry, NodeState, LandingState
<1>4. r \in NodeRecord
    BY <1>1, <1>2, <1>3 DEF Known, NodeRecord
<1>5. StepOK(n, r)
    BY <1>1, <1>2 DEF flags, world, Known, NodeRecord, StepOK, LocalOK, KeysClose,
           CarryOK, LandingOK, WaitingOK, BudgetOK, CyclesLeft, UnfaultedOK, SettledOK,
           Lingering, FirstRun, Recovering, Idle, Bracket
<1> QED BY <1>1, <1>2, <1>4, <1>5, QuietStep

LEMMA FinishKeeps ==
    ASSUME EpicInv, NEW n \in Nodes, Finish(n)
    PROVE  EpicInv'
<1> DEFINE o == rec[n]
<1>1. Known(n)
    BY NodeIsKnown
<1> DEFINE r == IF plan.halt_after_pass
                THEN [o EXCEPT !.task = "done", !.worktree = FALSE]
                ELSE [o EXCEPT !.task = "push", !.carry = "offer"]
<1>2. /\ o.task = "finish" /\ Suspended /\ sched # "ended" /\ UNCHANGED <<shell, flags, world>>
      /\ Go(n, r)
    BY DEF Finish, At, Suspended
<1>3. /\ "done" \in Tasks
      /\ "offer" \in Carry
      /\ "push" \in Tasks
    BY <1>1 DEF Known, NodeRecord, Tasks, Carry, NodeState, LandingState
<1>4. r \in NodeRecord
    BY <1>1, <1>2, <1>3 DEF Known, NodeRecord
<1>5. StepOK(n, r)
    BY <1>1, <1>2 DEF flags, world, Known, NodeRecord, StepOK, LocalOK, KeysClose,
           CarryOK, LandingOK, WaitingOK, BudgetOK, CyclesLeft, UnfaultedOK, SettledOK,
           Lingering, FirstRun, Recovering, Idle, Bracket
<1> QED BY <1>1, <1>2, <1>4, <1>5, QuietStep

LEMMA OpenPrKeeps ==
    ASSUME EpicInv, NEW n \in Nodes, OpenPr(n)
    PROVE  EpicInv'
<1> DEFINE o == rec[n]
<1>1. Known(n)
    BY NodeIsKnown
<1> DEFINE r == IF o.landing = "NONE"
                THEN [o EXCEPT !.task = "enqueue", !.carry = "none",
                               !.landing = "PR_OPEN", !.state = "PR_OPEN"]
                ELSE [o EXCEPT !.task = "enqueue", !.carry = "none"]
<1>2. /\ o.task = "push" /\ Suspended /\ sched # "ended" /\ UNCHANGED <<shell, flags, world>>
      /\ Go(n, r)
    BY DEF OpenPr, At, Suspended
<1>3. /\ "PR_OPEN" \in LandingState
      /\ "PR_OPEN" \in NodeState
      /\ "enqueue" \in Tasks
      /\ "none" \in Carry
    BY <1>1 DEF Known, NodeRecord, Tasks, Carry, NodeState, LandingState
<1>4. r \in NodeRecord
    BY <1>1, <1>2, <1>3 DEF Known, NodeRecord
<1>5. StepOK(n, r)
    BY <1>1, <1>2 DEF flags, world, Known, NodeRecord, StepOK, LocalOK, KeysClose,
           CarryOK, LandingOK, WaitingOK, BudgetOK, CyclesLeft, UnfaultedOK, SettledOK,
           Lingering, FirstRun, Recovering, Idle, Bracket
<1> QED BY <1>1, <1>2, <1>4, <1>5, QuietStep

LEMMA RefConflictKeeps ==
    ASSUME EpicInv, NEW n \in Nodes, RefConflict(n)
    PROVE  EpicInv'
<1> DEFINE o == rec[n]
<1>1. Known(n)
    BY NodeIsKnown
<1> DEFINE r == IF kill_requested \/ o.ending_answer
                THEN [o EXCEPT !.task = "unland", !.carry = "none", !.ending_answer = TRUE]
                ELSE [o EXCEPT !.task = "refpage"]
<1>2. /\ o.task = "push" /\ Suspended /\ sched # "ended" /\ UNCHANGED <<shell, flags, world>>
      /\ Go(n, r)
    BY DEF RefConflict, At, Suspended
<1>3. /\ "none" \in Carry
      /\ "refpage" \in Tasks
      /\ "unland" \in Tasks
    BY <1>1 DEF Known, NodeRecord, Tasks, Carry, NodeState, LandingState
<1>4. r \in NodeRecord
    BY <1>1, <1>2, <1>3 DEF Known, NodeRecord
<1>5. StepOK(n, r)
    BY <1>1, <1>2 DEF flags, world, Known, NodeRecord, StepOK, LocalOK, KeysClose,
           CarryOK, LandingOK, WaitingOK, BudgetOK, CyclesLeft, UnfaultedOK, SettledOK,
           Lingering, FirstRun, Recovering, Idle, Bracket
<1> QED BY <1>1, <1>2, <1>4, <1>5, QuietStep

LEMMA LandingPageLapsesKeeps ==
    ASSUME EpicInv, NEW n \in Nodes, LandingPageLapses(n)
    PROVE  EpicInv'
<1> DEFINE o == rec[n]
<1>1. Known(n)
    BY NodeIsKnown
<1> DEFINE r == [o EXCEPT !.task = "unland", !.carry = "none", !.ending_answer = TRUE]
<1>2. /\ o.task \in {"refpage", "lpage"} /\ Suspended /\ sched # "ended" /\ UNCHANGED <<shell, flags, world>>
      /\ Go(n, r)
    BY DEF LandingPageLapses, At, Suspended
<1>3. /\ "none" \in Carry
      /\ "unland" \in Tasks
    BY <1>1 DEF Known, NodeRecord, Tasks, Carry, NodeState, LandingState
<1>4. r \in NodeRecord
    BY <1>1, <1>2, <1>3 DEF Known, NodeRecord
<1>5. StepOK(n, r)
    BY <1>1, <1>2 DEF flags, world, Known, NodeRecord, StepOK, LocalOK, KeysClose,
           CarryOK, LandingOK, WaitingOK, BudgetOK, CyclesLeft, UnfaultedOK, SettledOK,
           Lingering, FirstRun, Recovering, Idle, Bracket
<1> QED BY <1>1, <1>2, <1>4, <1>5, QuietStep

LEMMA EnqueueKeeps ==
    ASSUME EpicInv, NEW n \in Nodes, Enqueue(n)
    PROVE  EpicInv'
<1> DEFINE o == rec[n]
<1>1. Known(n)
    BY NodeIsKnown
<1> DEFINE r == [o EXCEPT !.task = "done", !.landing = "ENQUEUED",
                         !.state = "ENQUEUED", !.poll = "waiting"]
<1>2. /\ o.task = "enqueue" /\ Suspended /\ sched # "ended" /\ UNCHANGED <<shell, flags, world>>
      /\ Go(n, r)
    BY DEF Enqueue, At, Suspended
<1>3. /\ "ENQUEUED" \in LandingState
      /\ "ENQUEUED" \in NodeState
      /\ "done" \in Tasks
    BY <1>1 DEF Known, NodeRecord, Tasks, Carry, NodeState, LandingState
<1>4. r \in NodeRecord
    BY <1>1, <1>2, <1>3 DEF Known, NodeRecord
<1>5. StepOK(n, r)
    BY <1>1, <1>2 DEF flags, world, Known, NodeRecord, StepOK, LocalOK, KeysClose,
           CarryOK, LandingOK, WaitingOK, BudgetOK, CyclesLeft, UnfaultedOK, SettledOK,
           Lingering, FirstRun, Recovering, Idle, Bracket
<1> QED BY <1>1, <1>2, <1>4, <1>5, QuietStep

LEMMA ParkKeeps ==
    ASSUME EpicInv, NEW n \in Nodes, Park(n)
    PROVE  EpicInv'
<1> DEFINE o == rec[n]
<1>1. Known(n)
    BY NodeIsKnown
<1> DEFINE r == [o EXCEPT !.task = "done", !.carry = "none", !.worktree = FALSE,
                         !.state = "WAITING_OPERATOR",
                         !.landing = IF o.carry = "ref" THEN @ ELSE "KILLED"]
<1>2. /\ o.task = "park" /\ Suspended /\ sched # "ended" /\ UNCHANGED <<shell, flags, world>>
      /\ Go(n, r)
    BY DEF Park, At, Suspended
<1>3. /\ "WAITING_OPERATOR" \in NodeState
      /\ "done" \in Tasks
      /\ "none" \in Carry
      /\ (IF o.carry = "ref" THEN o.landing ELSE "KILLED") \in LandingState
    BY <1>1 DEF Known, NodeRecord, Tasks, Carry, NodeState, LandingState
<1>4. r \in NodeRecord
    BY <1>1, <1>2, <1>3 DEF Known, NodeRecord
<1>5. StepOK(n, r)
    BY <1>1, <1>2 DEF flags, world, Known, NodeRecord, StepOK, LocalOK, KeysClose,
           CarryOK, LandingOK, WaitingOK, BudgetOK, CyclesLeft, UnfaultedOK, SettledOK,
           Lingering, FirstRun, Recovering, Idle, Bracket
<1> QED BY <1>1, <1>2, <1>4, <1>5, QuietStep

LEMMA UnlandKeeps ==
    ASSUME EpicInv, NEW n \in Nodes, Unland(n)
    PROVE  EpicInv'
<1> DEFINE o == rec[n]
<1>1. Known(n)
    BY NodeIsKnown
<1> DEFINE r == [o EXCEPT !.task = "done", !.worktree = FALSE, !.state = "KILLED",
                         !.landing = IF @ = "NONE" THEN @ ELSE "KILLED"]
<1>2. /\ o.task = "unland" /\ Suspended /\ sched # "ended" /\ UNCHANGED <<shell, flags, world>>
      /\ Go(n, r)
    BY DEF Unland, At, Suspended
<1>3. /\ "KILLED" \in NodeState
      /\ "done" \in Tasks
      /\ (IF o.landing = "NONE" THEN o.landing ELSE "KILLED") \in LandingState
    BY <1>1 DEF Known, NodeRecord, Tasks, Carry, NodeState, LandingState
<1>4. r \in NodeRecord
    BY <1>1, <1>2, <1>3 DEF Known, NodeRecord
<1>5. StepOK(n, r)
    BY <1>1, <1>2 DEF flags, world, Known, NodeRecord, StepOK, LocalOK, KeysClose,
           CarryOK, LandingOK, WaitingOK, BudgetOK, CyclesLeft, UnfaultedOK, SettledOK,
           Lingering, FirstRun, Recovering, Idle, Bracket
<1> QED BY <1>1, <1>2, <1>4, <1>5, QuietStep

LEMMA RecoveryIssueKeyKeeps ==
    ASSUME EpicInv, NEW n \in Nodes, RecoveryIssueKey(n)
    PROVE  EpicInv'
<1> DEFINE o == rec[n]
<1>1. Known(n)
    BY NodeIsKnown
<1> DEFINE r == [o EXCEPT !.task = "ragent", !.state = "RUNNING", !.key = TRUE]
<1>2. /\ o.task = "rissue" /\ Suspended /\ sched # "ended" /\ UNCHANGED <<shell, flags, pauses, stale>>
      /\ Go(n, r) /\ AdmitOwner(n)
    BY DEF RecoveryIssueKey, At, Suspended
<1>3. /\ "RUNNING" \in NodeState
      /\ "ragent" \in Tasks
    BY <1>1 DEF Known, NodeRecord, Tasks, Carry, NodeState, LandingState
<1>4. r \in NodeRecord
    BY <1>1, <1>2, <1>3 DEF Known, NodeRecord
<1>5. StepOK(n, r)
    BY <1>1, <1>2 DEF flags, Known, NodeRecord, StepOK, LocalOK, KeysClose,
           CarryOK, LandingOK, WaitingOK, BudgetOK, CyclesLeft, UnfaultedOK, SettledOK,
           Lingering, FirstRun, Recovering, Idle, Bracket
<1> QED BY <1>1, <1>2, <1>4, <1>5, LeaseStep

LEMMA RecoveryAgentEndsKeeps ==
    ASSUME EpicInv, NEW n \in Nodes, RecoveryAgentEnds(n)
    PROVE  EpicInv'
<1> DEFINE o == rec[n]
<1>1. Known(n)
    BY NodeIsKnown
<1> DEFINE r == IF kill_requested
                THEN [o EXCEPT !.task = "rteardown", !.carry = "killed"]
                ELSE [o EXCEPT !.task = "rverify"]
<1>2. /\ o.task = "ragent" /\ Suspended /\ sched # "ended" /\ UNCHANGED <<shell, flags, pauses, stale>>
      /\ Go(n, r) /\ ReleaseOwner(n)
    BY DEF RecoveryAgentEnds, At, Suspended
<1>3. /\ "killed" \in Carry
      /\ "rteardown" \in Tasks
      /\ "rverify" \in Tasks
    BY <1>1 DEF Known, NodeRecord, Tasks, Carry, NodeState, LandingState
<1>4. r \in NodeRecord
    BY <1>1, <1>2, <1>3 DEF Known, NodeRecord
<1>5. StepOK(n, r)
    BY <1>1, <1>2 DEF flags, Known, NodeRecord, StepOK, LocalOK, KeysClose,
           CarryOK, LandingOK, WaitingOK, BudgetOK, CyclesLeft, UnfaultedOK, SettledOK,
           Lingering, FirstRun, Recovering, Idle, Bracket
<1> QED BY <1>1, <1>2, <1>4, <1>5, LeaseStep

LEMMA RecoveryDecidesKeeps ==
    ASSUME EpicInv, NEW n \in Nodes, NEW how \in {"passed", "killed"}, RecoveryDecides(n, how)
    PROVE  EpicInv'
<1> DEFINE o == rec[n]
<1>1. Known(n)
    BY NodeIsKnown
<1> DEFINE r == [o EXCEPT !.task = "rteardown", !.carry = how]
<1>2. /\ o.task = "rverify" /\ Suspended /\ sched # "ended" /\ UNCHANGED <<shell, flags, world>>
      /\ Go(n, r)
    BY DEF RecoveryDecides, At, Suspended
<1>3. "rteardown" \in Tasks
    BY <1>1 DEF Known, NodeRecord, Tasks, Carry, NodeState, LandingState
<1>4. r \in NodeRecord
    BY <1>1, <1>2, <1>3 DEF Known, NodeRecord, Tasks, Carry
<1>5. StepOK(n, r)
    BY <1>1, <1>2 DEF flags, world, Known, NodeRecord, StepOK, LocalOK, KeysClose,
           CarryOK, LandingOK, WaitingOK, BudgetOK, CyclesLeft, UnfaultedOK, SettledOK,
           Lingering, FirstRun, Recovering, Idle, Bracket
<1> QED BY <1>1, <1>2, <1>4, <1>5, QuietStep

LEMMA PollSeesKillKeeps ==
    ASSUME EpicInv, NEW n \in Nodes, PollSeesKill(n)
    PROVE  EpicInv'
<1> DEFINE o == rec[n]
<1>1. Known(n)
    BY NodeIsKnown
<1> DEFINE r == [o EXCEPT !.poll = "none"]
<1>2. /\ o.poll = "waiting" /\ kill_requested /\ Suspended /\ sched # "ended" /\ UNCHANGED <<shell, flags, world>>
      /\ Go(n, r)
    BY DEF PollSeesKill, Polling, Suspended
<1>4. r \in NodeRecord
    BY <1>1, <1>2 DEF Known, NodeRecord, Tasks, Carry
<1>5. StepOK(n, r)
    BY <1>1, <1>2 DEF flags, world, Known, NodeRecord, StepOK, LocalOK, KeysClose,
           CarryOK, LandingOK, WaitingOK, BudgetOK, CyclesLeft, UnfaultedOK, SettledOK,
           Lingering, FirstRun, Recovering, Idle, Bracket
<1> QED BY <1>1, <1>2, <1>4, <1>5, QuietStep

LEMMA PollDecidesKeeps ==
    ASSUME EpicInv, NEW n \in Nodes, NEW step \in {"merging", "closing"}, PollDecides(n, step)
    PROVE  EpicInv'
<1> DEFINE o == rec[n]
<1>1. Known(n)
    BY NodeIsKnown
<1> DEFINE r == [o EXCEPT !.poll = step]
<1>2. /\ o.poll = "waiting" /\ Suspended /\ sched # "ended" /\ UNCHANGED <<shell, flags, world>>
      /\ Go(n, r)
    BY DEF PollDecides, Polling, Suspended
<1>4. r \in NodeRecord
    BY <1>1, <1>2 DEF Known, NodeRecord, Tasks, Carry
<1>5. StepOK(n, r)
    BY <1>1, <1>2 DEF flags, world, Known, NodeRecord, StepOK, LocalOK, KeysClose,
           CarryOK, LandingOK, WaitingOK, BudgetOK, CyclesLeft, UnfaultedOK, SettledOK,
           Lingering, FirstRun, Recovering, Idle, Bracket
<1> QED BY <1>1, <1>2, <1>4, <1>5, QuietStep

LEMMA PollRejectsKeeps ==
    ASSUME EpicInv, NEW n \in Nodes, NEW moved \in BOOLEAN, PollRejects(n, moved)
    PROVE  EpicInv'
<1> DEFINE o == rec[n]
<1>1. Known(n)
    BY NodeIsKnown
<1> DEFINE r == [o EXCEPT !.poll = "none", !.landing = "REJECTED", !.base_moved = moved]
<1>2. /\ o.poll = "waiting" /\ Suspended /\ sched # "ended" /\ UNCHANGED <<shell, flags, world>>
      /\ Go(n, r)
    BY DEF PollRejects, Polling, Suspended
<1>3. "REJECTED" \in LandingState
    BY <1>1 DEF Known, NodeRecord, Tasks, Carry, NodeState, LandingState
<1>4. r \in NodeRecord
    BY <1>1, <1>2, <1>3 DEF Known, NodeRecord
<1>5. StepOK(n, r)
    BY <1>1, <1>2 DEF flags, world, Known, NodeRecord, StepOK, LocalOK, KeysClose,
           CarryOK, LandingOK, WaitingOK, BudgetOK, CyclesLeft, UnfaultedOK, SettledOK,
           Lingering, FirstRun, Recovering, Idle, Bracket
<1> QED BY <1>1, <1>2, <1>4, <1>5, QuietStep

LEMMA PollStopsKeeps ==
    ASSUME EpicInv, NEW n \in Nodes, PollStops(n)
    PROVE  EpicInv'
<1> DEFINE o == rec[n]
<1>1. Known(n)
    BY NodeIsKnown
<1> DEFINE r == [o EXCEPT !.poll = "none", !.landing = "KILLED", !.state = "KILLED"]
<1>2. /\ o.poll # "none" /\ plan.faults # {} /\ Suspended /\ sched # "ended" /\ UNCHANGED <<shell, flags, world>>
      /\ Go(n, r)
    BY DEF PollStops, At, Suspended
<1>3. /\ "KILLED" \in LandingState
      /\ "KILLED" \in NodeState
    BY <1>1 DEF Known, NodeRecord, Tasks, Carry, NodeState, LandingState
<1>4. r \in NodeRecord
    BY <1>1, <1>2, <1>3 DEF Known, NodeRecord
<1>5. StepOK(n, r)
    BY <1>1, <1>2 DEF flags, world, Known, NodeRecord, StepOK, LocalOK, KeysClose,
           CarryOK, LandingOK, WaitingOK, BudgetOK, CyclesLeft, UnfaultedOK, SettledOK,
           Lingering, FirstRun, Recovering, Idle, Bracket
<1> QED BY <1>1, <1>2, <1>4, <1>5, QuietStep

-----------------------------------------------------------------------------
(* Steps that may end on the landing's page.                                *)

\* A page that is not raised reads as a KILL.
LEMMA LandingPageIs ==
    ASSUME NEW o \in NodeRecord, NEW offer \in {"offer", "no_offer", "flake"}
    PROVE  \E t \in {"unland", "lpage"}, c \in {"none", "offer", "no_offer", "flake"}, e \in BOOLEAN :
              /\ LandingPage(o, offer) = [o EXCEPT !.task = t, !.carry = c, !.ending_answer = e]
              /\ \/ t = "unland" /\ c = "none"
                 \/ t = "lpage" /\ c = offer /\ ~kill_requested
BY DEF LandingPage, NodeRecord

LEMMA OfferIs ==
    ASSUME NEW o
    PROVE  Offer(o) \in {"offer", "no_offer"} /\ (Offer(o) = "offer" => CyclesLeft(o))
BY DEF Offer

\* A task with a rejected landing in its hands may go to the page.
LEMMA PageKeeps ==
    ASSUME EpicInv, Suspended, NEW n \in Nodes, NEW k \in BOOLEAN, KeysClose => ~k,
           rec[n].task \in {"sync", "enqueue", "rteardown", "compare"},
           rec[n].landing \in {"REJECTED", "KILLED"},
           NEW offer \in {"offer", "no_offer", "flake"}, offer = "offer" => CyclesLeft(rec[n]),
           offer = "flake" => rec[n].task = "compare",
           Go(n, LandingPage([rec[n] EXCEPT !.key = k], offer)),
           UNCHANGED <<shell, flags, world>>
    PROVE  EpicInv'
<1> DEFINE o == rec[n]
<1>1. Known(n) /\ sched # "ended"
    BY NodeIsKnown DEF Suspended
<1> DEFINE q == [o EXCEPT !.key = k]
<1>2. q \in NodeRecord
    BY <1>1 DEF Known, NodeRecord
<1> HIDE DEF q
<1>3. PICK t \in {"unland", "lpage"}, c \in {"none", "offer", "no_offer", "flake"}, e \in BOOLEAN :
         /\ LandingPage(q, offer) = [q EXCEPT !.task = t, !.carry = c, !.ending_answer = e]
         /\ \/ t = "unland" /\ c = "none"
            \/ t = "lpage" /\ c = offer /\ ~kill_requested
    BY ZenonT(40), <1>2, LandingPageIs
<1> USE DEF q
<1> DEFINE r == [o EXCEPT !.key = k, !.task = t, !.carry = c, !.ending_answer = e]
<1>4. LandingPage(q, offer) = r
    BY <1>1, <1>3 DEF Known, NodeRecord
<1>5. r \in NodeRecord
    BY <1>1, <1>3 DEF Known, NodeRecord, Tasks, Carry
<1>6. StepOK(n, r)
    BY <1>1, <1>3 DEF flags, world, Known, NodeRecord, StepOK, LocalOK, KeysClose,
           CarryOK, LandingOK, WaitingOK, BudgetOK, CyclesLeft, UnfaultedOK, SettledOK,
           Lingering, FirstRun, Recovering, Idle, Bracket
<1> QED BY <1>4, <1>5, <1>6, QuietStep

\* The same with a record whose key stays as it was.
LEMMA PageKeepsPlain ==
    ASSUME EpicInv, Suspended, NEW n \in Nodes,
           rec[n].task \in {"sync", "enqueue", "compare"},
           rec[n].landing \in {"REJECTED", "KILLED"},
           NEW offer \in {"offer", "no_offer", "flake"}, offer = "offer" => CyclesLeft(rec[n]),
           offer = "flake" => rec[n].task = "compare",
           Go(n, LandingPage(rec[n], offer)),
           UNCHANGED <<shell, flags, world>>
    PROVE  EpicInv'
<1>1. Known(n)
    BY NodeIsKnown
<1>2. rec[n].key \in BOOLEAN /\ (KeysClose => ~rec[n].key)
    BY <1>1 DEF Known, NodeRecord, LocalOK, Bracket
<1>3. [rec[n] EXCEPT !.key = rec[n].key] = rec[n]
    BY <1>1 DEF Known, NodeRecord
<1> QED BY <1>2, <1>3, PageKeeps

LEMMA EnqueueRefusedKeeps ==
    ASSUME EpicInv, NEW n \in Nodes, EnqueueRefused(n)
    PROVE  EpicInv'
<1> DEFINE o == rec[n]
<1>1. Known(n)
    BY NodeIsKnown
<1>2. /\ o.task = "enqueue" /\ Suspended /\ sched # "ended" /\ UNCHANGED <<shell, flags, world>>
      /\ o.landing \in {"PR_OPEN", "REJECTED", "KILLED"}
    BY <1>1 DEF EnqueueRefused, At, Suspended, Known, LocalOK, LandingOK
<1>3. CASE o.landing = "PR_OPEN"
    <2> DEFINE r == [o EXCEPT !.task = "done", !.landing = "KILLED", !.state = "KILLED"]
    <2>1. Go(n, r)
        BY <1>3 DEF EnqueueRefused
    <2>2. r \in NodeRecord
        <3>1. "done" \in Tasks /\ "KILLED" \in LandingState /\ "KILLED" \in NodeState
            BY DEF Tasks, LandingState, NodeState
        <3>2. o \in NodeRecord
            BY <1>1 DEF Known
        <3> QED BY <3>1, <3>2 DEF NodeRecord
    <2>3. StepOK(n, r)
        BY <1>1, <1>2 DEF flags, world, Known, NodeRecord, StepOK, LocalOK, KeysClose,
               CarryOK, LandingOK, WaitingOK, BudgetOK, CyclesLeft, UnfaultedOK,
               SettledOK, Lingering, FirstRun, Recovering, Idle, Bracket
    <2> QED BY <1>2, <2>1, <2>2, <2>3, QuietStep
<1>4. CASE o.landing # "PR_OPEN"
    <2>1. Go(n, LandingPage(o, Offer(o)))
        BY <1>4 DEF EnqueueRefused
    <2> QED BY <1>2, <1>4, <2>1, OfferIs, PageKeepsPlain
<1> QED BY <1>3, <1>4

LEMMA SyncRefusedKeeps ==
    ASSUME EpicInv, NEW n \in Nodes, SyncRefused(n)
    PROVE  EpicInv'
<1>1. Known(n)
    BY NodeIsKnown
<1>2. /\ rec[n].task = "sync" /\ Suspended /\ UNCHANGED <<shell, flags, world>>
      /\ Go(n, LandingPage(rec[n], Offer(rec[n])))
    BY DEF SyncRefused, At
<1>3. rec[n].landing \in {"REJECTED", "KILLED"}
    BY <1>1, <1>2 DEF Known, LocalOK, LandingOK, Recovering
<1> QED BY <1>2, <1>3, OfferIs, PageKeepsPlain

LEMMA SyncKeeps ==
    ASSUME EpicInv, NEW n \in Nodes, NEW clean \in BOOLEAN, Sync(n, clean)
    PROVE  EpicInv'
<1> DEFINE o == rec[n]
<1>1. Known(n)
    BY NodeIsKnown
<1>2. /\ o.task = "sync" /\ o.worktree /\ Suspended /\ sched # "ended"
      /\ UNCHANGED <<shell, flags, world>>
    BY DEF Sync, At, Suspended
<1>3. o.landing \in {"REJECTED", "KILLED"} /\ o.carry \in {"free", "charged"}
    BY <1>1, <1>2 DEF Known, LocalOK, LandingOK, CarryOK, Recovering
<1>4. /\ o.recovery_cycles \in Nat /\ o.free_rebases \in Nat
      /\ o.recovery_cycles + 1 \in Nat /\ o.free_rebases + 1 \in Nat
      /\ {"rissue", "compare"} \subseteq Tasks /\ "charged" \in Carry
    BY <1>1 DEF Known, NodeRecord, Tasks, Carry
<1>5. CASE o.carry = "charged"
    <2> DEFINE r == [o EXCEPT !.task = "rissue"]
    <2>1. Go(n, r)
        BY <1>5 DEF Sync
    <2>2. r \in NodeRecord
        BY <1>1, <1>4 DEF Known, NodeRecord
    <2>3. StepOK(n, r)
        BY <1>1, <1>2, <1>3 DEF flags, world, Known, NodeRecord, StepOK, LocalOK,
               KeysClose, CarryOK, LandingOK, WaitingOK, BudgetOK, CyclesLeft,
               UnfaultedOK, SettledOK, Lingering, FirstRun, Recovering, Idle, Bracket
    <2> QED BY <1>2, <2>1, <2>2, <2>3, QuietStep
<1>6. CASE o.carry = "free" /\ clean
    <2> DEFINE r == [o EXCEPT !.task = "compare", !.free_rebases = @ + 1]
    <2>1. Go(n, r)
        BY <1>6 DEF Sync
    <2>2. r \in NodeRecord
        BY <1>1, <1>4 DEF Known, NodeRecord
    <2>3. StepOK(n, r)
        BY <1>1, <1>2, <1>3, <1>4, <1>6 DEF flags, world, Known, NodeRecord, StepOK,
               LocalOK, KeysClose, CarryOK, LandingOK, WaitingOK, BudgetOK, CyclesLeft,
               UnfaultedOK, SettledOK, Lingering, FirstRun, Recovering, Idle, Bracket
    <2> QED BY <1>2, <2>1, <2>2, <2>3, QuietStep
<1>7. CASE o.carry = "free" /\ ~clean /\ CyclesLeft(o)
    <2> DEFINE r == [o EXCEPT !.task = "rissue", !.carry = "charged", !.recovery_cycles = @ + 1]
    <2>1. Go(n, r)
        BY <1>7 DEF Sync
    <2>2. r \in NodeRecord
        BY <1>1, <1>4 DEF Known, NodeRecord
    <2>3. StepOK(n, r)
        BY <1>1, <1>2, <1>3, <1>4, <1>7 DEF flags, world, Known, NodeRecord, StepOK,
               LocalOK, KeysClose, CarryOK, LandingOK, WaitingOK, BudgetOK, CyclesLeft,
               UnfaultedOK, SettledOK, Lingering, FirstRun, Recovering, Idle, Bracket
    <2> QED BY <1>2, <2>1, <2>2, <2>3, QuietStep
<1>8. CASE o.carry = "free" /\ ~clean /\ ~CyclesLeft(o)
    <2>1. Go(n, LandingPage(o, Offer(o)))
        BY <1>8 DEF Sync
    <2> QED BY <1>2, <1>3, <2>1, OfferIs, PageKeepsPlain
<1> QED BY <1>3, <1>5, <1>6, <1>7, <1>8

LEMMA CompareKeeps ==
    ASSUME EpicInv, NEW n \in Nodes, NEW identical \in BOOLEAN, Compare(n, identical)
    PROVE  EpicInv'
<1> DEFINE o == rec[n]
<1>1. Known(n)
    BY NodeIsKnown
<1>2. /\ o.task = "compare" /\ Suspended /\ sched # "ended" /\ UNCHANGED <<shell, flags, world>>
    BY DEF Compare, At, Suspended
<1>3. o.landing \in {"REJECTED", "KILLED"}
    BY <1>1, <1>2 DEF Known, LocalOK, LandingOK, Recovering
<1>4. CASE identical
    <2>1. Go(n, LandingPage(o, "flake"))
        BY <1>4 DEF Compare
    <2> QED BY <1>2, <1>3, <2>1, PageKeepsPlain
<1>5. CASE ~identical
    <2> DEFINE r == [o EXCEPT !.task = "push", !.carry = "offer"]
    <2>1. Go(n, r)
        BY <1>5 DEF Compare
    <2>2. r \in NodeRecord
        BY <1>1 DEF Known, NodeRecord, Tasks, Carry
    <2>3. StepOK(n, r)
        BY <1>1, <1>2, <1>3 DEF flags, world, Known, NodeRecord, StepOK, LocalOK,
               KeysClose, CarryOK, LandingOK, WaitingOK, BudgetOK, CyclesLeft,
               UnfaultedOK, SettledOK, Lingering, FirstRun, Recovering, Idle, Bracket
    <2> QED BY <1>2, <2>1, <2>2, <2>3, QuietStep
<1> QED BY <1>4, <1>5

LEMMA RecoveryTeardownKeeps ==
    ASSUME EpicInv, NEW n \in Nodes, RecoveryTeardown(n)
    PROVE  EpicInv'
<1> DEFINE o == rec[n]
           q == [o EXCEPT !.key = FALSE]
<1>1. Known(n)
    BY NodeIsKnown
<1>2. /\ o.task = "rteardown" /\ Suspended /\ sched # "ended" /\ UNCHANGED <<shell, flags, world>>
    BY DEF RecoveryTeardown, At, Suspended
<1>3. o.landing \in {"REJECTED", "KILLED"}
    BY <1>1, <1>2 DEF Known, LocalOK, LandingOK, Recovering
<1>4. q.carry = o.carry /\ CyclesLeft(q) = CyclesLeft(o) /\ Offer(q) = Offer(o)
    BY <1>1 DEF Known, NodeRecord, CyclesLeft, Offer
<1>5. CASE o.carry \in {"passed", "raise"}
    <2> DEFINE t == IF o.carry = "passed" THEN "compare" ELSE "raised"
               r == [o EXCEPT !.key = FALSE, !.task = t, !.carry = "none"]
    <2>1. Go(n, r)
        BY <1>1, <1>4, <1>5 DEF RecoveryTeardown, Known, NodeRecord
    <2>4. t \in Tasks /\ "none" \in Carry
        BY DEF Tasks, Carry
    <2>2. r \in NodeRecord
        BY <1>1, <2>4 DEF Known, NodeRecord
    <2>3. StepOK(n, r)
        BY <1>1, <1>2, <1>3, <1>5 DEF flags, world, Known, NodeRecord, StepOK, LocalOK,
               KeysClose, CarryOK, LandingOK, WaitingOK, BudgetOK, CyclesLeft,
               UnfaultedOK, SettledOK, Lingering, FirstRun, Recovering, Idle, Bracket
    <2> QED BY <1>2, <2>1, <2>2, <2>3, QuietStep
<1>6. CASE o.carry \notin {"passed", "raise"}
    <2>1. Go(n, LandingPage(q, Offer(o)))
        BY <1>4, <1>6 DEF RecoveryTeardown
    <2> QED BY <1>2, <1>3, <2>1, OfferIs, PageKeeps
<1> QED BY <1>5, <1>6

LEMMA TeardownKeeps ==
    ASSUME EpicInv, NEW n \in Nodes, Teardown(n)
    PROVE  EpicInv'
<1> DEFINE o == rec[n]
           q == [o EXCEPT !.key = FALSE]
<1>1. Known(n)
    BY NodeIsKnown
<1>2. /\ o.task = "teardown" /\ Suspended /\ sched # "ended" /\ UNCHANGED <<shell, flags, world>>
    BY DEF Teardown, At, Suspended
<1>3. o.carry \in {"retry", "passed", "killed", "parked", "raise"} /\ q.carry = o.carry
    BY <1>1, <1>2 DEF Known, NodeRecord, LocalOK, CarryOK
<1>4. CASE o.carry = "passed"
    <2> DEFINE r == [o EXCEPT !.key = FALSE, !.task = "finish", !.carry = "none",
                              !.verified = TRUE, !.state = "PASSED"]
    <2>1. Go(n, r)
        BY <1>1, <1>3, <1>4 DEF Teardown, Known, NodeRecord
    <2>4. "finish" \in Tasks /\ "none" \in Carry /\ "PASSED" \in NodeState
        BY DEF Tasks, Carry, NodeState
    <2>2. r \in NodeRecord
        BY <1>1, <2>4 DEF Known, NodeRecord
    <2>3. StepOK(n, r)
        BY <1>1, <1>2, <1>4 DEF flags, world, Known, NodeRecord, StepOK, LocalOK,
               KeysClose, CarryOK, LandingOK, WaitingOK, BudgetOK, CyclesLeft,
               UnfaultedOK, SettledOK, Lingering, FirstRun, Recovering, Idle, Bracket
    <2> QED BY <1>2, <2>1, <2>2, <2>3, QuietStep
<1>5. CASE o.carry # "passed"
    <2>1. PICK t \in {"issue", "done", "sweep", "raised"}, c \in {"none", "killed", "parked"} :
             /\ Go(n, [o EXCEPT !.key = FALSE, !.task = t, !.carry = c])
             /\ t = "done" => o.state = "WAITING_OPERATOR"
             /\ t = "issue" => ~kill_requested /\ o.carry = "retry"
             /\ t = "sweep" => o.state # "WAITING_OPERATOR" \/ o.carry = "parked"
             /\ t = "raised" => o.carry = "raise"
        BY <1>1, <1>3, <1>5 DEF Teardown, NextAttempt, Killed, Known, NodeRecord
    <2> DEFINE r == [o EXCEPT !.key = FALSE, !.task = t, !.carry = c]
    <2>4. t \in Tasks /\ c \in Carry
        BY DEF Tasks, Carry
    <2>2. r \in NodeRecord
        BY <1>1, <2>4 DEF Known, NodeRecord
    <2>3. StepOK(n, r)
        BY <1>1, <1>2, <1>5, <2>1 DEF flags, world, Known, NodeRecord, StepOK, LocalOK,
               KeysClose, CarryOK, LandingOK, WaitingOK, BudgetOK, CyclesLeft,
               UnfaultedOK, SettledOK, Lingering, FirstRun, Recovering, Idle, Bracket
    <2> QED BY <1>2, <2>1, <2>2, <2>3, QuietStep
<1> QED BY <1>4, <1>5

\* The end a poll reports: the node's state and its landing's are one.
LEMMA PollEndsKeeps ==
    ASSUME EpicInv, NEW n \in Nodes, PollEnds(n)
    PROVE  EpicInv'
<1> DEFINE o == rec[n]
<1>1. Known(n)
    BY NodeIsKnown
<1>2. PICK end \in {"MERGED", "KILLED"} :
         Go(n, [o EXCEPT !.poll = "none", !.worktree = FALSE, !.landing = end, !.state = end])
    BY DEF PollEnds
<1> DEFINE r == [o EXCEPT !.poll = "none", !.worktree = FALSE, !.landing = end, !.state = end]
<1>3. /\ o.poll \in {"merging", "closing"} /\ Suspended /\ sched # "ended"
      /\ UNCHANGED <<shell, flags, world>>
    BY DEF PollEnds, Suspended
<1>4. r \in NodeRecord
    BY <1>1 DEF Known, NodeRecord, LandingState, NodeState
<1>5. StepOK(n, r)
    BY <1>1, <1>3 DEF flags, world, Known, NodeRecord, StepOK, LocalOK, KeysClose,
           CarryOK, LandingOK, WaitingOK, BudgetOK, CyclesLeft, UnfaultedOK, SettledOK,
           Lingering, FirstRun, Recovering, Idle, Bracket
<1> QED BY <1>2, <1>3, <1>4, <1>5, QuietStep

-----------------------------------------------------------------------------
(* Steps that set a flag: an answer, a question, a failure, a signal.       *)

\* A step that changes its node's record and the flags.
LEMMA FlagStep ==
    ASSUME EpicInv, Suspended, NEW n \in Nodes, NEW r \in NodeRecord, StepOK(n, r), Go(n, r),
           UNCHANGED <<plan, sched, drainable, world>>,
           epic_state' \in {epic_state, "PAUSED"},
           paused' \in BOOLEAN, kill_requested' \in BOOLEAN, kill_requested => kill_requested'
    PROVE  EpicInv'
<1>1. /\ rec' = [rec EXCEPT ![n] = r] /\ UNCHANGED <<plan, sched, drainable>>
      /\ pauses' = pauses /\ stale' = stale /\ lease' = lease
    BY DEF Go, world
<1>2. pauses \in 0..plan.pauses /\ stale \in 0..plan.stale /\ stale <= stale
      /\ lease \in {Nobody, Elsewhere} \cup Nodes
    BY FlagTypes
<1> QED BY <1>1, <1>2, NodeStep

LEMMA AgentAsksKeeps ==
    ASSUME EpicInv, NEW n \in Nodes, AgentAsks(n)
    PROVE  EpicInv'
<1> DEFINE o == rec[n]
           r == [o EXCEPT !.task = "parkclose", !.state = "WAITING_OPERATOR", !.asked = o.asked + 1]
<1>1. Known(n) /\ kill_requested \in BOOLEAN
    BY NodeIsKnown, FlagTypes
<1>2. /\ o.task = "detect" /\ Suspended /\ sched # "ended"
      /\ Go(n, r) /\ paused' = TRUE
      /\ UNCHANGED <<plan, sched, drainable, epic_state, kill_requested, world>>
    BY DEF AgentAsks, At, Suspended, shell
<1>3. "parkclose" \in Tasks /\ "WAITING_OPERATOR" \in NodeState /\ o.asked + 1 \in Nat
    BY <1>1 DEF Known, NodeRecord, Tasks, NodeState
<1>4. r \in NodeRecord
    BY <1>1, <1>3 DEF Known, NodeRecord
<1>5. StepOK(n, r)
    BY <1>1, <1>2 DEF world, Known, NodeRecord, StepOK, LocalOK, KeysClose, CarryOK,
           LandingOK, WaitingOK, BudgetOK, CyclesLeft, UnfaultedOK, SettledOK,
           Lingering, FirstRun, Recovering, Idle, Bracket
<1> QED BY <1>1, <1>2, <1>4, <1>5, FlagStep

LEMMA UnparkKeeps ==
    ASSUME EpicInv, NEW n \in Nodes, Unpark(n)
    PROVE  EpicInv'
<1> DEFINE o == rec[n]
<1>1. Known(n) /\ kill_requested \in BOOLEAN
    BY NodeIsKnown, FlagTypes
<1>2. /\ o.task = "parked" /\ Suspended /\ sched # "ended"
      /\ Go(n, NextAttempt(o)) /\ paused' = FALSE
      /\ UNCHANGED <<plan, sched, drainable, epic_state, kill_requested, world>>
    BY DEF Unpark, At, Suspended, shell
<1>3. PICK t \in {"issue", "done", "sweep"}, c \in {"none", "killed"} :
         /\ NextAttempt(o) = [o EXCEPT !.task = t, !.carry = c]
         /\ kill_requested <=> t \in {"done", "sweep"}
         /\ t = "sweep" => o.state # "WAITING_OPERATOR"
    BY <1>1 DEF NextAttempt, Killed
<1> DEFINE r == [o EXCEPT !.task = t, !.carry = c]
<1>4. r \in NodeRecord
    BY <1>1 DEF Known, NodeRecord, Tasks, Carry
<1>5. StepOK(n, r)
    BY <1>1, <1>2, <1>3 DEF world, Known, NodeRecord, StepOK, LocalOK, KeysClose,
           CarryOK, LandingOK, WaitingOK, BudgetOK, CyclesLeft, UnfaultedOK, SettledOK,
           Lingering, FirstRun, Recovering, Idle, Bracket
<1> QED BY <1>1, <1>2, <1>3, <1>4, <1>5, FlagStep

LEMMA PressKeeps ==
    ASSUME EpicInv, NEW n \in Nodes, NEW choice \in {"RETRY", "KILL", "PAUSE_EPIC", "KILL_EPIC"},
           Press(n, choice)
    PROVE  EpicInv'
<1> DEFINE o == rec[n]
<1>1. Known(n) /\ kill_requested \in BOOLEAN /\ paused \in BOOLEAN
    BY NodeIsKnown, FlagTypes
<1>2. /\ o.task = "page" /\ Suspended /\ sched # "ended"
      /\ UNCHANGED <<plan, sched, drainable, epic_state, world>>
      /\ kill_requested' = (kill_requested \/ choice = "KILL_EPIC")
      /\ paused' = (paused \/ choice = "PAUSE_EPIC")
    BY DEF Press, At, Suspended, shell
<1>3. PICK c \in {"retry", "parked", "killed"} :
         Go(n, [o EXCEPT !.task = "teardown", !.carry = c])
    BY DEF Press
<1> DEFINE r == [o EXCEPT !.task = "teardown", !.carry = c]
<1>4. r \in NodeRecord
    BY <1>1 DEF Known, NodeRecord, Tasks, Carry
<1>5. StepOK(n, r)
    BY <1>1, <1>2 DEF world, Known, NodeRecord, StepOK, LocalOK, KeysClose, CarryOK,
           LandingOK, WaitingOK, BudgetOK, CyclesLeft, UnfaultedOK, SettledOK,
           Lingering, FirstRun, Recovering, Idle, Bracket
<1>6. kill_requested' \in BOOLEAN /\ paused' \in BOOLEAN /\ (kill_requested => kill_requested')
    BY <1>1, <1>2
<1> QED BY <1>2, <1>3, <1>4, <1>5, <1>6, FlagStep

LEMMA PressRefKeeps ==
    ASSUME EpicInv, NEW n \in Nodes, NEW choice \in {"RETRY", "KILL", "PAUSE_EPIC", "KILL_EPIC"},
           PressRef(n, choice)
    PROVE  EpicInv'
<1> DEFINE o == rec[n]
<1>1. Known(n) /\ kill_requested \in BOOLEAN /\ paused \in BOOLEAN
    BY NodeIsKnown, FlagTypes
<1>2. /\ o.task = "refpage" /\ Suspended /\ sched # "ended"
      /\ UNCHANGED <<plan, sched, drainable, world>> /\ epic_state' \in {epic_state, "PAUSED"}
      /\ kill_requested' = (kill_requested \/ choice = "KILL_EPIC")
      /\ paused' = (paused \/ choice = "PAUSE_EPIC")
    BY DEF PressRef, At, Suspended
<1>3. PICK t \in {"push", "park", "unland"}, c \in {"no_offer", "ref", "none"}, e \in BOOLEAN :
         Go(n, [o EXCEPT !.task = t, !.carry = c, !.ending_answer = e])
    <2>1. CASE choice = "RETRY"
        <3>1. [o EXCEPT !.task = "push", !.carry = "no_offer"]
                 = [o EXCEPT !.task = "push", !.carry = "no_offer", !.ending_answer = o.ending_answer]
            BY <1>1 DEF Known, NodeRecord
        <3>2. o.ending_answer \in BOOLEAN
            BY <1>1 DEF Known, NodeRecord
        <3>3. Go(n, [o EXCEPT !.task = "push", !.carry = "no_offer",
                              !.ending_answer = o.ending_answer])
            BY <2>1, <3>1 DEF PressRef
        <3> QED BY <3>2, <3>3
    <2>2. CASE choice = "PAUSE_EPIC"
        BY <2>2 DEF PressRef
    <2>3. CASE choice \in {"KILL", "KILL_EPIC"}
        BY <2>3 DEF PressRef
    <2> QED BY <2>1, <2>2, <2>3
<1> DEFINE r == [o EXCEPT !.task = t, !.carry = c, !.ending_answer = e]
<1>4. r \in NodeRecord
    BY <1>1 DEF Known, NodeRecord, Tasks, Carry
<1>5. StepOK(n, r)
    BY <1>1, <1>2 DEF world, Known, NodeRecord, StepOK, LocalOK, KeysClose, CarryOK,
           LandingOK, WaitingOK, BudgetOK, CyclesLeft, UnfaultedOK, SettledOK,
           Lingering, FirstRun, Recovering, Idle, Bracket
<1>6. kill_requested' \in BOOLEAN /\ paused' \in BOOLEAN /\ (kill_requested => kill_requested')
    BY <1>1, <1>2
<1> QED BY <1>2, <1>3, <1>4, <1>5, <1>6, FlagStep

LEMMA EndLandingKeeps ==
    ASSUME EpicInv, NEW n \in Nodes, NEW choice \in {"KILL", "PAUSE_EPIC", "KILL_EPIC"},
           EndLanding(n, choice)
    PROVE  EpicInv'
<1> DEFINE o == rec[n]
<1>1. Known(n) /\ kill_requested \in BOOLEAN /\ paused \in BOOLEAN
    BY NodeIsKnown, FlagTypes
<1>2. /\ o.task = "lpage" /\ Suspended /\ sched # "ended"
      /\ UNCHANGED <<plan, sched, drainable, world>> /\ epic_state' \in {epic_state, "PAUSED"}
      /\ kill_requested' = (kill_requested \/ choice = "KILL_EPIC")
      /\ paused' = (paused \/ choice = "PAUSE_EPIC")
    BY DEF EndLanding, At, Suspended
<1>3. PICK t \in {"park", "unland"}, c \in {"landing", "none"} :
         Go(n, [o EXCEPT !.task = t, !.carry = c, !.ending_answer = TRUE])
    BY DEF EndLanding
<1> DEFINE r == [o EXCEPT !.task = t, !.carry = c, !.ending_answer = TRUE]
<1>4. r \in NodeRecord
    BY <1>1 DEF Known, NodeRecord, Tasks, Carry
<1>5. StepOK(n, r)
    BY <1>1, <1>2 DEF world, Known, NodeRecord, StepOK, LocalOK, KeysClose, CarryOK,
           LandingOK, WaitingOK, BudgetOK, CyclesLeft, UnfaultedOK, SettledOK,
           Lingering, FirstRun, Recovering, Idle, Bracket
<1>6. kill_requested' \in BOOLEAN /\ paused' \in BOOLEAN /\ (kill_requested => kill_requested')
    BY <1>1, <1>2
<1> QED BY <1>2, <1>3, <1>4, <1>5, <1>6, FlagStep

\* A RETRY of a landing is paid for by a cycle that was left, or by a stale press.
LEMMA RetryLandingKeeps ==
    ASSUME EpicInv, NEW n \in Nodes, RetryLanding(n)
    PROVE  EpicInv'
<1> DEFINE o == rec[n]
<1>1. /\ Known(n) /\ kill_requested \in BOOLEAN /\ paused \in BOOLEAN
      /\ pauses \in 0..plan.pauses /\ plan.stale \in Nat /\ stale \in 0..plan.stale
      /\ lease \in {Nobody, Elsewhere} \cup Nodes
    BY NodeIsKnown, FlagTypes
<1>2. /\ o.task = "lpage" /\ Suspended /\ sched # "ended"
      /\ UNCHANGED <<plan, sched, drainable, epic_state, flags, pauses, lease>>
      /\ stale' = IF o.carry = "no_offer" THEN stale + 1 ELSE stale
      /\ o.carry = "no_offer" => stale < plan.stale
    BY DEF RetryLanding, At, Suspended, shell
<1>3. stale' \in 0..plan.stale /\ stale <= stale' /\ stale' \in Nat
    BY <1>1, <1>2
<1>4. CASE o.carry = "flake"
    <2> DEFINE r == [o EXCEPT !.task = "push", !.carry = "offer"]
    <2>1. Go(n, r)
        BY <1>4 DEF RetryLanding
    <2>2. r \in NodeRecord
        BY <1>1 DEF Known, NodeRecord, Tasks, Carry
    <2>3. StepOK(n, r)
        BY <1>1, <1>2, <1>4 DEF flags, Known, NodeRecord, StepOK, LocalOK, KeysClose,
               CarryOK, LandingOK, WaitingOK, BudgetOK, CyclesLeft, UnfaultedOK,
               SettledOK, Lingering, FirstRun, Recovering, Idle, Bracket
    <2> QED BY <1>1, <1>2, <1>3, <2>1, <2>2, <2>3, NodeStep DEF Go, flags
<1>5. CASE o.carry # "flake"
    <2> DEFINE r == [o EXCEPT !.task = "sync", !.carry = "charged",
                              !.recovery_cycles = o.recovery_cycles + 1]
    <2>1. Go(n, r)
        BY <1>5 DEF RetryLanding, run_recovery
    <2>2. o.recovery_cycles \in Nat /\ o.recovery_cycles + 1 \in Nat /\ "sync" \in Tasks
          /\ "charged" \in Carry
        BY <1>1 DEF Known, NodeRecord, Tasks, Carry
    <2>3. r \in NodeRecord
        BY <1>1, <2>2 DEF Known, NodeRecord
    <2>4. r.recovery_cycles <= plan.max_recovery_cycles + stale'
        BY <1>1, <1>2, <1>3, <1>5, <2>2 DEF Known, NodeRecord, LocalOK, CarryOK,
               BudgetOK, CyclesLeft
    <2>5. StepOK(n, r)
        BY <1>1, <1>2, <1>5, <2>4 DEF flags, Known, NodeRecord, StepOK, LocalOK,
               KeysClose, CarryOK, LandingOK, WaitingOK, BudgetOK, CyclesLeft,
               UnfaultedOK, SettledOK, Lingering, FirstRun, Recovering, Idle, Bracket
    <2> QED BY <1>1, <1>2, <1>3, <2>1, <2>3, <2>5, NodeStep DEF Go, flags
<1> QED BY <1>4, <1>5

LEMMA TaskRaisesKeeps ==
    ASSUME EpicInv, NEW n \in Nodes, TaskRaises(n)
    PROVE  EpicInv'
<1> DEFINE o == rec[n]
<1>1. Known(n) /\ kill_requested \in BOOLEAN /\ paused \in BOOLEAN
    BY NodeIsKnown, FlagTypes
<1>2. /\ o.task \in plan.faults \ {"none", "done", "raised"} /\ Suspended /\ sched # "ended"
      /\ UNCHANGED <<plan, sched, drainable, epic_state, kill_requested, pauses, stale>>
      /\ paused' \in BOOLEAN /\ lease' \in {Nobody, Elsewhere} \cup Nodes
    BY <1>1, FlagTypes DEF TaskRaises, ReleaseOwner, Suspended, shell
<1>3. PICK t \in {"teardown", "rteardown", "raised"}, c \in {"raise", "none"} :
         /\ Go(n, [o EXCEPT !.task = t, !.carry = c])
         /\ t = "teardown" => o.task \in {"agent", "detect", "verify", "page", "parkclose"} /\ c = "raise"
         /\ t = "rteardown" => o.task \in {"ragent", "rverify"} /\ c = "raise"
         /\ t = "raised" => o.task \notin {"agent", "detect", "verify", "page", "parkclose",
                                           "ragent", "rverify"}
    <2>1. CASE o.task \in {"agent", "detect", "verify", "page", "parkclose"}
        BY <2>1 DEF TaskRaises
    <2>2. CASE o.task \in {"ragent", "rverify"}
        BY <2>2 DEF TaskRaises
    <2>3. CASE o.task \notin {"agent", "detect", "verify", "page", "parkclose", "ragent", "rverify"}
        BY <2>3 DEF TaskRaises
    <2> QED BY <2>1, <2>2, <2>3
<1>4. PICK r : r = [o EXCEPT !.task = t, !.carry = c]
    OBVIOUS
<1>5. /\ r \in NodeRecord /\ r.task = t /\ r.carry = c /\ r.poll = o.poll /\ r.landing = o.landing
      /\ r.state = o.state /\ r.key = o.key /\ r.worktree = o.worktree
      /\ r.verified = o.verified /\ r.recovery_cycles = o.recovery_cycles
      /\ r.free_rebases = o.free_rebases
    BY <1>1, <1>4 DEF Known, NodeRecord, Tasks, Carry
<1>6. StepOK(n, r)
    <2>1. CASE t = "teardown"
        BY <1>1, <1>2, <1>3, <1>5, <2>1 DEF Known, NodeRecord, StepOK, LocalOK, KeysClose,
               CarryOK, LandingOK, WaitingOK, BudgetOK, CyclesLeft, UnfaultedOK, SettledOK,
               Lingering, FirstRun, Recovering, Idle, Bracket
    <2>2. CASE t = "rteardown"
        BY <1>1, <1>2, <1>3, <1>5, <2>2 DEF Known, NodeRecord, StepOK, LocalOK, KeysClose,
               CarryOK, LandingOK, WaitingOK, BudgetOK, CyclesLeft, UnfaultedOK, SettledOK,
               Lingering, FirstRun, Recovering, Idle, Bracket
    <2>3. CASE t = "raised"
        <3>1. KeysClose => ~r.key
            BY <1>1, <1>2, <1>3, <1>5, <2>3 DEF Known, LocalOK, KeysClose, Bracket
        <3>2. plan.faults # {}
            BY <1>2
        <3>3. LandingOK(r) /\ WaitingOK(r)
            BY <1>1, <1>2, <1>5, <2>3 DEF Known, LocalOK, LandingOK, WaitingOK, FirstRun,
                   Recovering, Idle
        <3>4. LocalOK(r)
            BY <1>1, <1>5, <2>3, <3>1, <3>2, <3>3 DEF Known, LocalOK, CarryOK, BudgetOK, UnfaultedOK
        <3>5. r.landing # "ENQUEUED"
            BY <2>3, <1>5, <3>3 DEF LandingOK, Idle
        <3>6. r.landing = "KILLED" => sched = "kill_landings"
            BY <1>1, <1>2, <1>5 DEF Known, SettledOK, Idle
        <3>7. /\ r.recovery_cycles <= plan.max_recovery_cycles + stale'
              /\ sched = "kill_landings" => r.poll = "none"
            BY <1>1, <1>2, <1>5 DEF Known
        <3> QED BY <1>2, <1>5, <2>3, <3>4, <3>5, <3>6, <3>7 DEF StepOK, Lingering
    <2> QED BY <2>1, <2>2, <2>3
<1>7. rec' = [rec EXCEPT ![n] = r]
    BY <1>3, <1>4 DEF Go
<1>8. /\ pauses' \in 0..plan.pauses /\ stale' \in 0..plan.stale /\ stale <= stale'
    BY <1>2, FlagTypes
<1> QED BY <1>1, <1>2, <1>5, <1>6, <1>7, <1>8, NodeStep

\* A signal leaves every node as it is.
LEMMA SignalKeeps ==
    ASSUME EpicInv, Suspended, UNCHANGED <<shell, stale, rec>>,
           paused' \in BOOLEAN, kill_requested' \in BOOLEAN, kill_requested => kill_requested',
           pauses' \in 0..plan.pauses, lease' \in {Nobody, Elsewhere} \cup Nodes
    PROVE  EpicInv'
<1>1. 1 \in Nodes
    BY EpicAssumption DEF Nodes
<1>2. Known(1) /\ stale \in 0..plan.stale /\ stale <= stale
    BY <1>1, NodeIsKnown, FlagTypes
<1>3. rec' = [rec EXCEPT ![1] = rec[1]]
    BY DEF EpicInv, TypeOK
<1>4. StepOK(1, rec[1])
    BY <1>2 DEF Known, StepOK, SettledOK, Suspended
<1> QED BY <1>1, <1>2, <1>3, <1>4, NodeStep DEF Known, shell

LEMMA SignalsKeep ==
    ASSUME EpicInv, pause_epic \/ resume_epic \/ kill_epic \/ LeaseTaken \/ LeaseReturned
    PROVE  EpicInv'
<1>1. /\ kill_requested \in BOOLEAN /\ paused \in BOOLEAN
      /\ pauses \in 0..plan.pauses /\ plan.pauses \in Nat
      /\ lease \in {Nobody, Elsewhere} \cup Nodes
    BY FlagTypes
<1>2. CASE pause_epic
    <2>1. pauses + 1 \in 0..plan.pauses
        BY <1>1, <1>2 DEF pause_epic
    <2> QED BY <1>1, <1>2, <2>1, SignalKeeps DEF pause_epic
<1>3. CASE resume_epic
    BY <1>1, <1>3, SignalKeeps DEF resume_epic, world
<1>4. CASE kill_epic
    BY <1>1, <1>4, SignalKeeps DEF kill_epic, world
<1>5. CASE LeaseTaken \/ LeaseReturned
    BY <1>1, <1>5, SignalKeeps DEF LeaseTaken, LeaseReturned, flags
<1> QED BY <1>2, <1>3, <1>4, <1>5

-----------------------------------------------------------------------------
(* The scheduler's dispatch.                                                *)

LEMMA RanksDiffer ==
    ASSUME NEW m \in Nodes, NEW k \in Nodes, m # k
    PROVE  Rank(m) # Rank(k)
BY EpicAssumption DEF Rank, Nodes, Recoverable

\* Any set of nodes has one that starts last.
LEMMA LastOfRanks ==
    ASSUME NEW S \in SUBSET Nodes, S # {}
    PROVE  \E m \in S : \A k \in S : Rank(k) <= Rank(m)
<1>1. N \in Nat
    BY EpicAssumption
<1>2. \A k \in Nodes : Rank(k) \in Nat /\ Rank(k) <= 2 * N
    BY <1>1 DEF Rank, Nodes
<1> DEFINE T == {2 * N - Rank(k) : k \in S}
<1>3. T \subseteq Nat /\ T # {}
    BY <1>1, <1>2
<1>4. PICK x \in T : \A y \in T : ~(<<y, x>> \in OpToRel(<, Nat))
    BY <1>3, NatLessThanWellFounded, WFMin
<1>5. \A y \in T : ~(y < x)
    BY <1>3, <1>4 DEF OpToRel
<1>6. PICK m \in S : x = 2 * N - Rank(m)
    BY <1>4
<1>7. \A k \in S : Rank(k) <= Rank(m)
    <2> SUFFICES ASSUME NEW k \in S PROVE Rank(k) <= Rank(m)
        OBVIOUS
    <2>1. ~(2 * N - Rank(k) < 2 * N - Rank(m))
        BY <1>5, <1>6
    <2>2. Rank(k) \in Nat /\ Rank(m) \in Nat /\ 2 * N \in Nat
        BY <1>1, <1>2
    <2> HIDE DEF T
    <2> QED BY <2>1, <2>2
<1> QED BY <1>7

\* A set with room for one more beside it.
LEMMA RoomForOne ==
    ASSUME NEW A, NEW B, NEW m, NEW cap \in Nat, IsFiniteSet(A), Cardinality(A) < cap,
           B = A \cup {m}
    PROVE  Cardinality(B) <= cap
<1>1. Cardinality(A) \in Nat
    BY FS_CardinalityType
<1>2. Cardinality(B) \in {Cardinality(A), Cardinality(A) + 1}
    BY FS_AddElement
<1> QED BY <1>1, <1>2

\* The greedy pass fills the slots and never more: the node it starts last was
\* given room beside all the others.
LEMMA StartedFits ==
    ASSUME SlotsInv, plan \in Plan, NEW S, Started(S)
    PROVE  /\ Cardinality(in_flight \cup S) <= plan.max_concurrent_nodes
           /\ Cardinality((in_flight \cup S) \cap plan.subscription) <= plan.max_subscription
<1> DEFINE Ahead(n) == in_flight \cup {k \in S : Rank(k) < Rank(n)}
<1>1. S \subseteq ready_set \ in_flight /\ \A n \in S : Room(Ahead(n), n)
    BY DEF Started
<1>2. S \subseteq Nodes /\ in_flight \subseteq Nodes
    BY <1>1 DEF ready_set, Recoverable, in_flight
<1>3. \A k \in Nodes : Rank(k) \in Nat
    BY EpicAssumption DEF Rank, Nodes
<1>4. plan.max_concurrent_nodes \in Nat /\ plan.max_subscription \in Nat
    BY DEF Plan
<1>5. \A n \in Nodes : IsFiniteSet(Ahead(n)) /\ IsFiniteSet(Ahead(n) \cap plan.subscription)
    <2> SUFFICES ASSUME NEW n \in Nodes
                 PROVE  IsFiniteSet(Ahead(n)) /\ IsFiniteSet(Ahead(n) \cap plan.subscription)
        OBVIOUS
    <2>1. Ahead(n) \in SUBSET Nodes /\ Ahead(n) \cap plan.subscription \in SUBSET Nodes
        BY <1>2
    <2> HIDE DEF Ahead
    <2> QED BY <2>1, NodesFinite, FS_Subset
<1>6. Cardinality(in_flight \cup S) <= plan.max_concurrent_nodes
    <2>1. CASE S = {}
        <3>1. in_flight \cup S = in_flight
            BY <2>1
        <3> QED BY <3>1 DEF SlotsInv
    <2>2. CASE S # {}
        <3>1. PICK m \in S : \A k \in S : Rank(k) <= Rank(m)
            BY <1>2, <2>2, LastOfRanks
        <3>2. \A k \in S : k # m => Rank(k) < Rank(m)
            BY <1>2, <1>3, <3>1, RanksDiffer
        <3>3. in_flight \cup S = Ahead(m) \cup {m}
            BY <3>1, <3>2
        <3>4. Cardinality(Ahead(m)) < plan.max_concurrent_nodes /\ IsFiniteSet(Ahead(m))
            BY <1>1, <1>2, <1>5, <3>1 DEF Room
        <3> HIDE DEF Ahead
        <3> QED BY <1>4, <3>3, <3>4, RoomForOne
    <2> QED BY <2>1, <2>2
<1>7. Cardinality((in_flight \cup S) \cap plan.subscription) <= plan.max_subscription
    <2> DEFINE P == S \cap plan.subscription
    <2>1. CASE P = {}
        <3>1. (in_flight \cup S) \cap plan.subscription = in_flight \cap plan.subscription
            BY <2>1
        <3> QED BY <3>1 DEF SlotsInv
    <2>2. CASE P # {}
        <3>1. PICK m \in P : \A k \in P : Rank(k) <= Rank(m)
            BY <1>2, <2>2, LastOfRanks
        <3>2. \A k \in P : k # m => Rank(k) < Rank(m)
            BY <1>2, <1>3, <3>1, RanksDiffer
        <3>5. ~(Rank(m) < Rank(m))
            BY <1>2, <1>3
        <3>3. (in_flight \cup S) \cap plan.subscription
                 = (Ahead(m) \cap plan.subscription) \cup {m}
            BY <3>1, <3>2
        <3>4. /\ Cardinality(Ahead(m) \cap plan.subscription) < plan.max_subscription
              /\ IsFiniteSet(Ahead(m) \cap plan.subscription)
            BY <1>1, <1>2, <1>5, <3>1 DEF Room
        <3> HIDE DEF Ahead
        <3> QED BY <1>4, <3>3, <3>4, RoomForOne
    <2> QED BY <2>1, <2>2
<1> QED BY <1>6, <1>7

\* A pass that starts nothing beside nothing in flight found nothing ready.
LEMMA NothingReady ==
    ASSUME plan \in Plan, in_flight = {}, Started({})
    PROVE  ready_set = {}
<1> SUFFICES ASSUME NEW n \in ready_set PROVE FALSE
    OBVIOUS
<1>1. Room(in_flight \cup {k \in {} : Rank(k) < Rank(n)}, n) <=> n \in {}
    BY DEF Started
<1>2. in_flight \cup {k \in {} : Rank(k) < Rank(n)} = {} /\ {} \cap plan.subscription = {}
    OBVIOUS
<1>3. Cardinality({}) = 0
    BY FS_EmptySet
<1>4. Room({}, n)
    BY <1>2, <1>3 DEF Room, Plan
<1> QED BY <1>1, <1>2, <1>4

\* What a recovery starts with.
LEMMA run_recovery_is ==
    ASSUME NEW o \in NodeRecord, ~kill_requested, plan \in Plan
    PROVE  \E t \in {"sync", "unland", "lpage"}, c \in {"free", "charged", "none", "no_offer"},
              e \in BOOLEAN, k \in Nat :
              /\ run_recovery(o, FALSE) = [o EXCEPT !.task = t, !.carry = c, !.ending_answer = e,
                                                    !.recovery_cycles = k]
              /\ t = "sync" => c \in {"free", "charged"}
              /\ c = "free" => o.free_rebases < plan.max_free_rebases
              /\ t = "lpage" => c = "no_offer"
              /\ k = o.recovery_cycles \/ k <= plan.max_recovery_cycles
<1>1. o.recovery_cycles \in Nat /\ plan.max_recovery_cycles \in Nat /\ o.ending_answer \in BOOLEAN
    BY DEF NodeRecord, Plan
<1>2. CASE o.base_moved /\ o.free_rebases < plan.max_free_rebases
    <2>1. run_recovery(o, FALSE) = [o EXCEPT !.task = "sync", !.carry = "free"]
        BY <1>2 DEF run_recovery
    <2>2. @ = [o EXCEPT !.task = "sync", !.carry = "free", !.ending_answer = o.ending_answer,
                        !.recovery_cycles = o.recovery_cycles]
        BY DEF NodeRecord
    <2> QED BY <1>1, <1>2, <2>1, <2>2
<1>3. CASE ~(o.base_moved /\ o.free_rebases < plan.max_free_rebases) /\ ~CyclesLeft(o)
    <2>1. run_recovery(o, FALSE) = LandingPage(o, "no_offer")
        BY <1>3 DEF run_recovery, Offer
    <2>2. CASE o.ending_answer
        <3>1. LandingPage(o, "no_offer")
                 = [o EXCEPT !.task = "unland", !.carry = "none", !.ending_answer = TRUE,
                             !.recovery_cycles = o.recovery_cycles]
            BY <2>2 DEF LandingPage, NodeRecord
        <3> QED BY <1>1, <2>1, <3>1
    <2>3. CASE ~o.ending_answer
        <3>1. LandingPage(o, "no_offer")
                 = [o EXCEPT !.task = "lpage", !.carry = "no_offer",
                             !.ending_answer = o.ending_answer,
                             !.recovery_cycles = o.recovery_cycles]
            BY <2>3 DEF LandingPage, NodeRecord
        <3> QED BY <1>1, <2>1, <3>1
    <2> QED BY <2>2, <2>3
<1>4. CASE ~(o.base_moved /\ o.free_rebases < plan.max_free_rebases) /\ CyclesLeft(o)
    <2>1. run_recovery(o, FALSE) = [o EXCEPT !.task = "sync", !.carry = "charged",
                                             !.recovery_cycles = o.recovery_cycles + 1]
        BY <1>4 DEF run_recovery
    <2>2. @ = [o EXCEPT !.task = "sync", !.carry = "charged", !.ending_answer = o.ending_answer,
                        !.recovery_cycles = o.recovery_cycles + 1]
        BY DEF NodeRecord
    <2>3. o.recovery_cycles + 1 \in Nat /\ o.recovery_cycles + 1 <= plan.max_recovery_cycles
        BY <1>1, <1>4 DEF CyclesLeft
    <2> QED BY <1>1, <2>1, <2>2, <2>3
<1> QED BY <1>2, <1>3, <1>4

\* What a dispatch that starts the nodes of S makes of one node.
Dispatched(n, S) ==
    IF n \notin S THEN rec[n]
    ELSE IF n \in Recoverable THEN run_recovery(rec[n], FALSE)
    ELSE [rec[n] EXCEPT !.task = "prep"]

LEMMA DispatchedIs ==
    ASSUME EpicInv, Dispatch, NEW S \in SUBSET (ready_set \ in_flight),
           NEW r, NEW n \in Nodes,
           r = Dispatched(n, S)
    PROVE  /\ r \in NodeRecord /\ LocalOK(r) /\ SettledOK(r)
           /\ r.recovery_cycles <= plan.max_recovery_cycles + stale
           /\ r.verified = rec[n].verified /\ r.landing = rec[n].landing
           /\ r.worktree = rec[n].worktree /\ r.state = rec[n].state
           /\ r.task = "prep" => rec[n].task = "prep" \/ edges_satisfied(n)
           /\ r.task # "none" => rec[n].task # "none" \/ n \in S
           /\ n \notin S => r = rec[n]
           /\ n \in S => rec[n].landing = "REJECTED" \/ rec[n].state = "PENDING"
<1> DEFINE o == rec[n]
<1>1. Known(n) /\ plan \in Plan
    BY NodeIsKnown, PlanType
<1>2. sched = "loop" /\ ~kill_requested
    BY DEF Dispatch
<1>3. CASE n \notin S
    BY <1>1, <1>3 DEF Known, Dispatched
<1>4. CASE n \in S /\ n \in Recoverable
    <2>1. o.landing = "REJECTED" /\ o.task = "none"
        BY <1>4 DEF Recoverable, in_flight
    <2>2. PICK t \in {"sync", "unland", "lpage"}, c \in {"free", "charged", "none", "no_offer"},
               e \in BOOLEAN, k \in Nat :
             /\ run_recovery(o, FALSE) = [o EXCEPT !.task = t, !.carry = c, !.ending_answer = e,
                                                   !.recovery_cycles = k]
             /\ t = "sync" => c \in {"free", "charged"}
             /\ c = "free" => o.free_rebases < plan.max_free_rebases
             /\ t = "lpage" => c = "no_offer"
             /\ k = o.recovery_cycles \/ k <= plan.max_recovery_cycles
        BY <1>1, <1>2, run_recovery_is DEF Known
    <2>3. r = [o EXCEPT !.task = t, !.carry = c, !.ending_answer = e, !.recovery_cycles = k]
        BY <1>4, <2>2 DEF Dispatched
    <2>4. r \in NodeRecord
        BY ZenonT(40), <1>1, <2>3 DEF Known, NodeRecord, Tasks, Carry
    <2>5. /\ r.task = t /\ r.carry = c /\ r.recovery_cycles = k
          /\ r.verified = o.verified /\ r.landing = o.landing /\ r.worktree = o.worktree
          /\ r.state = o.state /\ r.key = o.key /\ r.poll = o.poll
          /\ r.free_rebases = o.free_rebases
        BY <1>1, <2>3 DEF Known, NodeRecord
    <2>6. k <= plan.max_recovery_cycles + stale
        BY <1>1, <2>2 DEF Known
    <2>7. LocalOK(r)
        <3>1. LocalOK(o)
            BY <1>1 DEF Known
        <3>2. KeysClose => ~r.key
            BY <2>1, <2>5, <3>1 DEF LocalOK, Bracket
        <3>3. CarryOK(r)
            BY <2>2, <2>5 DEF CarryOK
        <3>4. LandingOK(r)
            BY <2>1, <2>5, <3>1 DEF LocalOK, LandingOK, FirstRun, Recovering, Idle
        <3>5. WaitingOK(r)
            BY <2>1, <2>2, <2>5, <3>1 DEF LocalOK, WaitingOK
        <3>6. BudgetOK(r)
            BY <2>2, <2>5, <3>1 DEF LocalOK, BudgetOK
        <3>7. UnfaultedOK(r)
            BY <2>1, <2>5, <3>1 DEF LocalOK, UnfaultedOK
        <3> QED BY <3>2, <3>3, <3>4, <3>5, <3>6, <3>7 DEF LocalOK
    <2>8. SettledOK(r)
        BY <2>1, <2>5 DEF SettledOK
    <2> QED BY <1>4, <2>1, <2>4, <2>5, <2>6, <2>7, <2>8
<1>5. CASE n \in S /\ n \notin Recoverable
    <2>1. o.state = "PENDING" /\ o.task = "none" /\ edges_satisfied(n)
        BY <1>5 DEF ready_set, in_flight
    <2>2. r = [o EXCEPT !.task = "prep"]
        BY <1>5 DEF Dispatched
    <2>3. r \in NodeRecord
        BY <1>1, <2>2 DEF Known, NodeRecord, Tasks
    <2>4. /\ r.task = "prep" /\ r.carry = o.carry /\ r.recovery_cycles = o.recovery_cycles
          /\ r.verified = o.verified /\ r.landing = o.landing /\ r.worktree = o.worktree
          /\ r.state = o.state /\ r.key = o.key /\ r.poll = o.poll
          /\ r.free_rebases = o.free_rebases
        BY <1>1, <2>2 DEF Known, NodeRecord
    <2>5. LocalOK(r)
        BY <1>1, <2>1, <2>4 DEF Known, NodeRecord, LocalOK, KeysClose, CarryOK,
               LandingOK, WaitingOK, BudgetOK, CyclesLeft, UnfaultedOK, FirstRun,
               Recovering, Idle, Bracket
    <2>6. SettledOK(r)
        BY <1>1, <2>1, <2>4 DEF SettledOK, Known, LocalOK, LandingOK
    <2> QED BY <1>1, <1>5, <2>1, <2>3, <2>4, <2>5, <2>6 DEF Known
<1> QED BY <1>3, <1>4, <1>5

LEMMA DispatchKeeps == ASSUME EpicInv, Dispatch PROVE EpicInv'
<1>1. PICK S \in SUBSET (ready_set \ in_flight) :
        /\ Started(S)
        /\ rec' = [n \in Nodes |->
                     IF n \notin S THEN rec[n]
                     ELSE IF n \in Recoverable THEN run_recovery(rec[n], FALSE)
                     ELSE [rec[n] EXCEPT !.task = "prep"]]
        /\ IF in_flight \cup S # {} THEN sched' = "busy" /\ UNCHANGED epic_state
           ELSE IF all_landings_terminal THEN sched' = "ended" /\ epic_state' = "COMPLETED"
           ELSE sched' = "idle" /\ UNCHANGED epic_state
    BY DEF Dispatch
<1>2. /\ plan \in Plan /\ sched = "loop" /\ plan' = plan /\ stale' = stale /\ pauses' = pauses /\ lease' = lease
      /\ drainable' = drainable /\ kill_requested' = kill_requested /\ paused' = paused
    BY PlanType DEF Dispatch, flags, world
<1>3. \A n \in Nodes :
           /\ rec'[n] \in NodeRecord /\ LocalOK(rec'[n]) /\ SettledOK(rec'[n])
           /\ rec'[n].recovery_cycles <= plan.max_recovery_cycles + stale
           /\ rec'[n].verified = rec[n].verified /\ rec'[n].landing = rec[n].landing
           /\ rec'[n].worktree = rec[n].worktree /\ rec'[n].state = rec[n].state
           /\ rec'[n].task = "prep" => rec[n].task = "prep" \/ edges_satisfied(n)
           /\ rec'[n].task # "none" => rec[n].task # "none" \/ n \in S
           /\ n \notin S => rec'[n] = rec[n]
    <2> SUFFICES ASSUME NEW n \in Nodes
                 PROVE  /\ rec'[n] \in NodeRecord /\ LocalOK(rec'[n]) /\ SettledOK(rec'[n])
                        /\ rec'[n].recovery_cycles <= plan.max_recovery_cycles + stale
                        /\ rec'[n].verified = rec[n].verified /\ rec'[n].landing = rec[n].landing
                        /\ rec'[n].worktree = rec[n].worktree /\ rec'[n].state = rec[n].state
                        /\ rec'[n].task = "prep" => rec[n].task = "prep" \/ edges_satisfied(n)
                        /\ rec'[n].task # "none" => rec[n].task # "none" \/ n \in S
                        /\ n \notin S => rec'[n] = rec[n]
        OBVIOUS
    <2>1. rec'[n] = Dispatched(n, S)
        BY <1>1 DEF Dispatched
    <2>2. PICK r : r = rec'[n]
        OBVIOUS
    <2>3. r = Dispatched(n, S) /\ S \in SUBSET (ready_set \ in_flight)
        BY <1>1, <2>1, <2>2
    <2>4. /\ r \in NodeRecord /\ LocalOK(r) /\ SettledOK(r)
          /\ r.recovery_cycles <= plan.max_recovery_cycles + stale
          /\ r.verified = rec[n].verified /\ r.landing = rec[n].landing
          /\ r.worktree = rec[n].worktree /\ r.state = rec[n].state
          /\ r.task = "prep" => rec[n].task = "prep" \/ edges_satisfied(n)
          /\ r.task # "none" => rec[n].task # "none" \/ n \in S
          /\ n \notin S => r = rec[n]
        BY <2>3, DispatchedIs
    <2> QED BY <2>2, <2>4
<1>4. /\ sched' \in {"busy", "ended", "idle"}
      /\ sched' # "ended" => epic_state' = epic_state
      /\ sched' = "ended" => /\ in_flight = {} /\ S = {} /\ all_landings_terminal
                             /\ epic_state' = "COMPLETED"
    BY <1>1
<1>5. TypeOK'
    <2>1. rec' \in [Nodes -> NodeRecord]
        BY <1>1, <1>3
    <2> QED BY <1>2, <1>4, <2>1 DEF EpicInv, TypeOK
<1>6. \A n \in Nodes : LocalOK(rec[n])'
    BY <1>2, <1>3 DEF LocalOK, KeysClose, CarryOK, LandingOK, WaitingOK, BudgetOK,
           CyclesLeft, UnfaultedOK
<1>7. \A n \in Nodes : SettledOK(rec[n])'
    BY <1>2, <1>3 DEF SettledOK
<1>8. \A n \in Nodes : (rec[n].recovery_cycles <= plan.max_recovery_cycles + stale)'
    BY <1>2, <1>3
<1>9. BuiltInv'
    <2> SUFFICES ASSUME NEW m \in Nodes, rec'[m].task = "prep" \/ rec'[m].worktree
                 PROVE  EdgesHold(m)'
        BY DEF BuiltInv
    <2>1. plan.depends_on[m] \subseteq Nodes /\ plan.depends_on_merged[m] \subseteq Nodes
        BY <1>2 DEF Plan
    <2>2. edges_satisfied(m) => EdgesHold(m)
        BY <2>1 DEF edges_satisfied, EdgesHold, EpicInv, LocalOK, LandingOK
    <2>3. EdgesHold(m)
        BY <1>3, <2>2 DEF EpicInv, BuiltInv
    <2> QED BY <1>2, <1>3, <2>1, <2>3 DEF EdgesHold
<1>10. SlotsInv'
    <2>1. in_flight' \subseteq in_flight \cup S /\ in_flight \cup S \subseteq Nodes
        BY <1>3 DEF in_flight, ready_set, Recoverable
    <2>2. /\ Cardinality(in_flight \cup S) <= plan.max_concurrent_nodes
          /\ Cardinality((in_flight \cup S) \cap plan.subscription) <= plan.max_subscription
        BY <1>1, <1>2, StartedFits DEF EpicInv
    <2>3. /\ Cardinality(in_flight') <= plan.max_concurrent_nodes
          /\ Cardinality(in_flight' \cap plan.subscription) <= plan.max_subscription
        BY <1>2, <2>1, <2>2, SmallerIsWithin
    <2> QED BY <1>2, <2>3 DEF SlotsInv
<1>11. KillInv'
    BY <1>4 DEF KillInv
<1>12. ShellInv'
    <2>1. CASE sched' # "ended"
        BY <1>2, <1>4, <2>1 DEF EpicInv, ShellInv, CompletedIsQuiet, EndedAccounts
    <2>2. CASE sched' = "ended"
        <3>1. in_flight = {} /\ S = {} /\ all_landings_terminal /\ epic_state' = "COMPLETED"
            BY <1>4, <2>2
        <3>2. \A n \in Nodes : rec'[n] = rec[n]
            BY <1>3, <3>1
        <3>3. ready_set = {}
            BY <1>1, <1>2, <3>1, NothingReady
        <3>4. \A n \in Nodes : /\ rec[n].task = "none" /\ rec[n].landing \in {"NONE", "MERGED", "KILLED"}
                               /\ ~(rec[n].state = "PENDING" /\ edges_satisfied(n))
            BY <3>1, <3>3 DEF in_flight, all_landings_terminal, LANDING_TERMINAL,
                   ready_set
        <3>5. \A n \in Nodes : edges_satisfied(n)' => edges_satisfied(n)
            <4>1. \A n \in Nodes : plan.depends_on[n] \subseteq Nodes
                                     /\ plan.depends_on_merged[n] \subseteq Nodes
                BY <1>2 DEF Plan
            <4> QED BY <1>2, <3>2, <4>1 DEF edges_satisfied
        <3>6. CompletedIsQuiet'
            BY <1>2, <3>2, <3>4, <3>5 DEF CompletedIsQuiet, EpicInv, LocalOK, LandingOK,
                   KeysClose, Bracket
        <3>7. EndedAccounts'
            BY <1>2, <3>1, <3>2 DEF EndedAccounts, EpicInv, LocalOK, LandingOK,
                   SettledOK
        <3> QED BY <2>2, <3>1, <3>6, <3>7 DEF ShellInv
    <2> QED BY <2>1, <2>2
<1> QED BY <1>5, <1>6, <1>7, <1>8, <1>9, <1>10, <1>11, <1>12 DEF EpicInv

-----------------------------------------------------------------------------
(* The scheduler's other steps.                                             *)

\* A step of the scheduler that touches no node.
LEMMA SchedulerStep ==
    ASSUME EpicInv, UNCHANGED <<plan, flags, world, rec>>,
           sched \notin {"kill_landings", "ended"}, sched' # "ended",
           epic_state' \in {epic_state, "PAUSED", "RUNNING"}, TypeOK', KillInv'
    PROVE  EpicInv'
<1>1. /\ plan' = plan /\ kill_requested' = kill_requested /\ rec' = rec /\ stale' = stale
      /\ in_flight' = in_flight
    BY DEF flags, world, in_flight
<1>2. \A n \in Nodes : LocalOK(rec[n])'
    BY <1>1 DEF EpicInv, LocalOK, KeysClose, CarryOK, LandingOK, WaitingOK, BudgetOK,
           CyclesLeft, UnfaultedOK
<1>3. \A n \in Nodes : SettledOK(rec[n])'
    BY <1>1 DEF EpicInv, SettledOK
<1>4. \A n \in Nodes : (rec[n].recovery_cycles <= plan.max_recovery_cycles + stale)'
    BY <1>1 DEF EpicInv
<1>5. BuiltInv'
    BY <1>1 DEF EpicInv, BuiltInv, EdgesHold
<1>6. SlotsInv'
    BY <1>1 DEF EpicInv, SlotsInv
<1>7. ShellInv'
    BY <1>1 DEF EpicInv, ShellInv, CompletedIsQuiet, EndedAccounts
<1> QED BY <1>2, <1>3, <1>4, <1>5, <1>6, <1>7 DEF EpicInv

LEMMA WakeIdleKeeps == ASSUME EpicInv, WakeIdle PROVE EpicInv'
<1>1. TypeOK' /\ KillInv'
    BY DEF WakeIdle, EpicInv, TypeOK, KillInv, flags, world
<1> QED BY <1>1, SchedulerStep DEF WakeIdle

LEMMA ParkSchedulerKeeps == ASSUME EpicInv, ParkScheduler PROVE EpicInv'
<1>1. TypeOK' /\ KillInv'
    BY DEF ParkScheduler, EpicInv, TypeOK, KillInv, flags, world
<1> QED BY <1>1, SchedulerStep DEF ParkScheduler

LEMMA WakePausedKeeps == ASSUME EpicInv, WakePaused PROVE EpicInv'
<1>1. TypeOK' /\ KillInv'
    BY DEF WakePaused, EpicInv, TypeOK, KillInv, flags, world
<1> QED BY <1>1, SchedulerStep DEF WakePaused

\* What a drain does not wait for is parked on an operator, and lingers there.
LEMMA ParkedLinger ==
    ASSUME EpicInv, sched \notin {"kill_landings", "ended"}, NEW n \in in_flight \ Drainable
    PROVE  Lingering(rec[n])
<1>1. n \in Nodes /\ rec[n].state = "WAITING_OPERATOR" /\ rec[n].task \notin {"done", "raised"}
    BY DEF Drainable, Finished, in_flight
<1>2. Known(n)
    BY <1>1, NodeIsKnown
<1> QED BY <1>1, <1>2 DEF Known, NodeRecord, LocalOK, LandingOK, WaitingOK, Lingering,
       FirstRun, Recovering, Idle, LandingState

LEMMA BeginDrainKeeps == ASSUME EpicInv, BeginDrain PROVE EpicInv'
<1>1. /\ sched = "loop" /\ sched' = (IF kill_requested THEN "kill_drain" ELSE "pause_drain")
      /\ drainable' = Drainable /\ plan' = plan /\ epic_state' = epic_state /\ rec' = rec
      /\ kill_requested' = kill_requested /\ paused' = paused
      /\ pauses' = pauses /\ stale' = stale /\ lease' = lease
    BY DEF BeginDrain, flags, world
<1>2. Drainable \subseteq Nodes
    BY DEF Drainable, in_flight
<1>3. TypeOK'
    BY <1>1, <1>2 DEF EpicInv, TypeOK
<1>4. KillInv'
    <2>1. \A n \in in_flight \ Drainable : Lingering(rec[n])
        BY <1>1, ParkedLinger
    <2> QED BY <1>1, <2>1 DEF KillInv, Lingering, in_flight
<1> QED BY <1>1, <1>3, <1>4, SchedulerStep DEF flags, world

\* A step of the scheduler that moves many nodes at once and starts none of them.
LEMMA SweepStep ==
    ASSUME EpicInv, UNCHANGED <<plan, flags, world>>, TypeOK', KillInv', ShellInv',
           \A n \in Nodes :
              /\ LocalOK(rec'[n]) /\ SettledOK(rec[n])'
              /\ rec'[n].recovery_cycles = rec[n].recovery_cycles
              /\ rec[n].verified => rec'[n].verified
              /\ rec[n].landing = "MERGED" => rec'[n].landing = "MERGED"
              /\ rec'[n].task = "prep" \/ rec'[n].worktree
                    => rec[n].task = "prep" \/ rec[n].worktree
              /\ rec'[n].task # "none" => rec[n].task # "none"
    PROVE  EpicInv'
<1>1. /\ plan \in Plan /\ plan' = plan /\ stale' = stale
    BY PlanType DEF world
<1>2. \A n \in Nodes : LocalOK(rec[n])'
    BY <1>1 DEF LocalOK, KeysClose, CarryOK, LandingOK, WaitingOK, BudgetOK, CyclesLeft,
           UnfaultedOK
<1>3. \A n \in Nodes : (rec[n].recovery_cycles <= plan.max_recovery_cycles + stale)'
    BY <1>1 DEF EpicInv
<1>4. BuiltInv'
    <2> SUFFICES ASSUME NEW m \in Nodes, rec'[m].task = "prep" \/ rec'[m].worktree
                 PROVE  EdgesHold(m)'
        BY DEF BuiltInv
    <2>1. EdgesHold(m)
        BY DEF EpicInv, BuiltInv
    <2>2. plan.depends_on[m] \subseteq Nodes /\ plan.depends_on_merged[m] \subseteq Nodes
        BY <1>1 DEF Plan
    <2> QED BY <1>1, <2>1, <2>2 DEF EdgesHold
<1>5. SlotsInv'
    <2>1. in_flight' \subseteq in_flight
        BY DEF in_flight
    <2> QED BY <1>1, <2>1, FewerSlots DEF EpicInv, SlotsInv
<1> QED BY <1>2, <1>3, <1>4, <1>5 DEF EpicInv

LEMMA CancelPollsKeeps == ASSUME EpicInv, CancelPolls PROVE EpicInv'
<1>1. /\ sched = "kill_drain" /\ drainable = {} /\ sched' = "kill_landings" /\ kill_requested
      /\ kill_requested' = kill_requested /\ epic_state' = epic_state /\ drainable' = drainable
      /\ plan' = plan /\ paused' = paused /\ pauses' = pauses /\ stale' = stale /\ lease' = lease
    BY DEF CancelPolls, flags, world, EpicInv, KillInv
<1>2. \A n \in Nodes : rec'[n] = [rec[n] EXCEPT !.poll = "none"]
    BY DEF CancelPolls
<1>3. \A n \in Nodes : /\ rec'[n] \in NodeRecord /\ rec'[n].poll = "none"
                       /\ rec'[n].task = rec[n].task /\ rec'[n].landing = rec[n].landing
                       /\ rec'[n].carry = rec[n].carry /\ rec'[n].worktree = rec[n].worktree
                       /\ rec'[n].verified = rec[n].verified
                       /\ rec'[n].recovery_cycles = rec[n].recovery_cycles
                       /\ rec'[n].state = rec[n].state /\ rec'[n].key = rec[n].key
                       /\ rec'[n].free_rebases = rec[n].free_rebases
    <2> TAKE n \in Nodes
    <2>1. rec[n] \in NodeRecord /\ rec'[n] = [rec[n] EXCEPT !.poll = "none"]
        BY <1>2 DEF EpicInv, TypeOK
    <2> QED BY <2>1 DEF NodeRecord
<1>4. TypeOK'
    <2>1. rec' \in [Nodes -> NodeRecord]
        BY <1>3 DEF CancelPolls
    <2> QED BY <1>1, <2>1 DEF EpicInv, TypeOK
<1>5. \A n \in Nodes : LocalOK(rec'[n])
    BY <1>3 DEF EpicInv, LocalOK, CarryOK, LandingOK, WaitingOK, BudgetOK, CyclesLeft,
           UnfaultedOK
<1>6. \A n \in Nodes : SettledOK(rec[n])'
    BY <1>1 DEF SettledOK
<1>7. KillInv'
    BY <1>1, <1>3 DEF EpicInv, KillInv, Lingering, in_flight
<1>8. ShellInv'
    BY <1>1 DEF EpicInv, ShellInv, CompletedIsQuiet, EndedAccounts
<1> QED BY <1>3, <1>4, <1>5, <1>6, <1>7, <1>8, SweepStep DEF CancelPolls

LEMMA kill_landingsKeeps ==
    ASSUME EpicInv, NEW n \in Nodes, kill_landings(n)
    PROVE  EpicInv'
<1> DEFINE o == rec[n]
           r == [o EXCEPT !.landing = "KILLED"]
<1>1. Known(n)
    BY NodeIsKnown
<1>2. /\ sched = "kill_landings" /\ o.landing \notin {"MERGED", "KILLED", "NONE"}
      /\ UNCHANGED <<shell, flags, world>>
    BY DEF kill_landings, LANDING_TERMINAL
<1>3. Go(n, r)
    BY DEF kill_landings, Go
<1>4. Suspended
    BY <1>2 DEF Suspended, all_landings_terminal, LANDING_TERMINAL
<1>5. r \in NodeRecord
    BY <1>1 DEF Known, NodeRecord, LandingState
<1>6. StepOK(n, r)
    BY <1>1, <1>2 DEF flags, world, Known, NodeRecord, StepOK, LocalOK, KeysClose,
           CarryOK, LandingOK, WaitingOK, BudgetOK, CyclesLeft, UnfaultedOK, SettledOK,
           Lingering, FirstRun, Recovering, Idle, Bracket
<1> QED BY <1>2, <1>3, <1>4, <1>5, <1>6, QuietStep

LEMMA kill_remainingKeeps == ASSUME EpicInv, kill_remaining PROVE EpicInv'
<1>1. /\ sched = "kill_landings" /\ sched' = "ended" /\ epic_state' = "KILLED"
      /\ drainable' = drainable /\ all_landings_terminal
      /\ kill_requested' = kill_requested
      /\ plan' = plan /\ paused' = paused /\ pauses' = pauses /\ stale' = stale /\ lease' = lease
    BY DEF kill_remaining, flags, world
<1>2. \A n \in Nodes :
         rec'[n] = [rec[n] EXCEPT !.state = IF rec[n].state \in TERMINAL_STATES
                                            THEN rec[n].state ELSE "KILLED"]
    BY DEF kill_remaining
<1>3. \A n \in Nodes :
         /\ rec'[n] \in NodeRecord
         /\ rec'[n].state = IF rec[n].state = "MERGED" THEN "MERGED" ELSE "KILLED"
         /\ rec'[n].task = rec[n].task /\ rec'[n].landing = rec[n].landing
         /\ rec'[n].carry = rec[n].carry /\ rec'[n].worktree = rec[n].worktree
         /\ rec'[n].verified = rec[n].verified /\ rec'[n].key = rec[n].key
         /\ rec'[n].poll = rec[n].poll /\ rec'[n].free_rebases = rec[n].free_rebases
         /\ rec'[n].recovery_cycles = rec[n].recovery_cycles
    <2> TAKE n \in Nodes
    <2>1. rec[n] \in NodeRecord
        BY DEF EpicInv, TypeOK
    <2> DEFINE s == IF rec[n].state = "MERGED" THEN "MERGED" ELSE "KILLED"
    <2>2. rec'[n] = [rec[n] EXCEPT !.state = s]
        BY <1>2 DEF TERMINAL_STATES
    <2>3. s \in NodeState
        BY DEF NodeState
    <2> QED BY <2>1, <2>2, <2>3 DEF NodeRecord
<1>4. TypeOK'
    <2>1. rec' \in [Nodes -> NodeRecord]
        BY <1>3 DEF kill_remaining
    <2> QED BY <1>1, <2>1 DEF EpicInv, TypeOK
<1>5. \A n \in Nodes : rec[n].landing \in {"NONE", "MERGED", "KILLED"} /\ rec[n].poll = "none"
    BY <1>1 DEF all_landings_terminal, LANDING_TERMINAL, EpicInv, KillInv
<1>6. \A n \in Nodes : LocalOK(rec'[n])
    BY <1>3, <1>5 DEF EpicInv, LocalOK, CarryOK, LandingOK, WaitingOK, BudgetOK,
           CyclesLeft, UnfaultedOK
<1>7. \A n \in Nodes : SettledOK(rec[n])'
    BY <1>1, <1>3, <1>5 DEF SettledOK
<1>8. KillInv'
    BY <1>1 DEF KillInv
<1>9. ShellInv'
    <2>1. EndedAccounts'
        BY <1>3, <1>5 DEF EndedAccounts, EpicInv, LocalOK, LandingOK
    <2> QED BY <1>1, <2>1 DEF ShellInv, CompletedIsQuiet
<1> QED BY <1>3, <1>4, <1>6, <1>7, <1>8, <1>9, SweepStep DEF kill_remaining

-----------------------------------------------------------------------------
(* Reaping.                                                                 *)

\* The table with the tasks of S reaped, before the lock-out.
Reaped(S) ==
    [n \in Nodes |->
        IF n \in S
        THEN [rec[n] EXCEPT !.state = IF rec[n].task = "raised" THEN "KILLED" ELSE @,
                            !.task = "none", !.carry = "none"]
        ELSE rec[n]]

\* The nodes a reaping of S locks out.
LockedBy(S) ==
    IF \E n \in S : Reaped(S)[n].state \notin {"PASSED", "MERGED"}
    THEN LockedOut(Reaped(S)) ELSE {}

LEMMA reap_finished_is ==
    ASSUME NEW S, reap_finished(S)
    PROVE  rec' = [n \in Nodes |-> IF n \in LockedBy(S)
                                   THEN [Reaped(S)[n] EXCEPT !.state = "KILLED"]
                                   ELSE Reaped(S)[n]]
BY DEF reap_finished, LockedBy, Reaped

LEMMA LockedArePending ==
    ASSUME NEW S, NEW n \in LockedBy(S)
    PROVE  n \in Nodes /\ Reaped(S)[n].state = "PENDING"
BY DEF LockedBy, LockedOut

\* What a reaping makes of one node: its task is over, or its state is KILLED.
ReapsTo(n, S, s, t, c) ==
    /\ rec'[n] = [rec[n] EXCEPT !.state = s, !.task = t, !.carry = c]
    /\ \/ n \in S /\ t = "none" /\ c = "none" /\ rec[n].task \in {"done", "raised"}
       \/ n \notin S /\ t = rec[n].task /\ c = rec[n].carry
    /\ \/ s = rec[n].state
       \/ s = "KILLED" /\ ((n \in S /\ rec[n].task = "raised") \/ rec[n].state = "PENDING")
    /\ n \in S /\ rec[n].task = "raised" => s = "KILLED"

LEMMA ReapedIs ==
    ASSUME EpicInv, NEW S \in SUBSET Finished, reap_finished(S), NEW n \in Nodes
    PROVE  \E s \in NodeState, t \in Tasks, c \in Carry : ReapsTo(n, S, s, t, c)
<1> DEFINE o == rec[n]
<1>1. o \in NodeRecord
    BY DEF EpicInv, TypeOK
<1>2. n \in S => o.task \in {"done", "raised"}
    BY DEF Finished
<1>3. rec'[n] = IF n \in LockedBy(S) THEN [Reaped(S)[n] EXCEPT !.state = "KILLED"]
                ELSE Reaped(S)[n]
    BY reap_finished_is
<1>4. Reaped(S)[n] = IF n \in S
                     THEN [o EXCEPT !.state = IF o.task = "raised" THEN "KILLED" ELSE o.state,
                                    !.task = "none", !.carry = "none"]
                     ELSE o
    BY DEF Reaped
<1>5. n \in LockedBy(S) => Reaped(S)[n].state = "PENDING"
    BY LockedArePending
<1>6. "none" \in Tasks /\ "none" \in Carry /\ "KILLED" \in NodeState
    BY DEF Tasks, Carry, NodeState
<1>7. o.state \in NodeState /\ o.task \in Tasks /\ o.carry \in Carry
    BY <1>1 DEF NodeRecord
<1>8. CASE n \in S
    <2> DEFINE k == IF o.task = "raised" THEN "KILLED" ELSE o.state
               s == IF n \in LockedBy(S) THEN "KILLED" ELSE k
    <2>1. Reaped(S)[n] = [o EXCEPT !.state = k, !.task = "none", !.carry = "none"]
        BY <1>4, <1>8
    <2>2. Reaped(S)[n].state = k
        BY <1>1, <2>1 DEF NodeRecord
    <2>3. rec'[n] = [o EXCEPT !.state = s, !.task = "none", !.carry = "none"]
        BY <1>1, <1>3, <2>1 DEF NodeRecord
    <2>4. k \in NodeState /\ k \in {o.state, "KILLED"} /\ (k = o.state \/ o.task = "raised")
        <3>1. CASE o.task = "raised"
            BY <1>6, <3>1
        <3>2. CASE o.task # "raised"
            BY <1>7, <3>2
        <3> QED BY <3>1, <3>2
    <2>5. n \in LockedBy(S) => k = "PENDING"
        BY <1>5, <2>2
    <2>6. /\ s \in NodeState /\ s \in {o.state, "KILLED"}
          /\ s = o.state \/ o.task = "raised" \/ o.state = "PENDING"
          /\ o.task = "raised" => s = "KILLED"
        BY <1>6, <2>4, <2>5
    <2> HIDE DEF s
    <2>7. ReapsTo(n, S, s, "none", "none")
        BY <1>2, <1>8, <2>3, <2>6 DEF ReapsTo
    <2> QED BY <1>6, <2>6, <2>7
<1>9. CASE n \notin S
    <2> DEFINE s == IF n \in LockedBy(S) THEN "KILLED" ELSE o.state
    <2>1. rec'[n] = [o EXCEPT !.state = s, !.task = o.task, !.carry = o.carry]
        BY <1>1, <1>3, <1>4, <1>9 DEF NodeRecord
    <2>2. s \in NodeState /\ s \in {o.state, "KILLED"} /\ (s = o.state \/ o.state = "PENDING")
        <3>1. n \in LockedBy(S) => o.state = "PENDING"
            BY <1>4, <1>5, <1>9
        <3>2. CASE n \in LockedBy(S)
            BY <1>6, <3>1, <3>2
        <3>3. CASE n \notin LockedBy(S)
            BY <1>7, <3>3
        <3> QED BY <3>2, <3>3
    <2> HIDE DEF s
    <2>3. ReapsTo(n, S, s, o.task, o.carry)
        BY <1>9, <2>1, <2>2 DEF ReapsTo
    <2> QED BY <1>7, <2>2, <2>3
<1> QED BY <1>8, <1>9

\* What a reaping keeps of the invariant, node by node.
LEMMA ReapKeeps ==
    ASSUME EpicInv, NEW S \in SUBSET Finished, reap_finished(S), UNCHANGED <<plan, flags, world>>,
           sched \notin {"kill_landings", "ended"}
    PROVE  \A n \in Nodes :
              /\ rec'[n] \in NodeRecord /\ LocalOK(rec'[n]) /\ SettledOK(rec[n])'
              /\ rec'[n].recovery_cycles = rec[n].recovery_cycles
              /\ rec'[n].verified = rec[n].verified
              /\ rec'[n].landing = rec[n].landing
              /\ rec'[n].worktree = rec[n].worktree
              /\ rec'[n].task = "prep" => rec[n].task = "prep"
              /\ rec'[n].task # "none" => rec[n].task # "none" /\ n \notin S
              /\ Lingering(rec[n]) => Lingering(rec'[n])
<1> TAKE n \in Nodes
<1> DEFINE o == rec[n]
<1>1. Known(n)
    BY NodeIsKnown
<1>2. PICK s \in NodeState, t \in Tasks, c \in Carry : ReapsTo(n, S, s, t, c)
    BY ReapedIs
<1>3. PICK r : r = rec'[n]
    OBVIOUS
<1>4. o \in NodeRecord /\ r = [o EXCEPT !.state = s, !.task = t, !.carry = c]
    BY <1>1, <1>2, <1>3 DEF Known, ReapsTo
<1>5. /\ r \in NodeRecord
      /\ r.state = s /\ r.task = t /\ r.carry = c /\ r.landing = o.landing
      /\ r.worktree = o.worktree /\ r.key = o.key /\ r.poll = o.poll
      /\ r.verified = o.verified /\ r.free_rebases = o.free_rebases
      /\ r.recovery_cycles = o.recovery_cycles
    BY <1>4 DEF NodeRecord
<1>6. LocalOK(o)
    BY <1>1 DEF Known
<1>7. \/ n \in S /\ t = "none" /\ c = "none" /\ o.task \in {"done", "raised"}
      \/ n \notin S /\ t = o.task /\ c = o.carry
    BY <1>2 DEF ReapsTo
<1>8. s = o.state \/ (s = "KILLED" /\ (o.task = "raised" \/ o.state = "PENDING"))
    BY <1>2 DEF ReapsTo
<1>9. LocalOK(r)
    <2>1. KeysClose /\ r.key => r.task \in Bracket
        BY <1>5, <1>6, <1>7 DEF LocalOK, Bracket
    <2>2. CarryOK(r)
        BY <1>5, <1>6, <1>7 DEF LocalOK, CarryOK
    <2>3. LandingOK(r)
        BY <1>5, <1>6, <1>7, <1>8 DEF LocalOK, LandingOK, FirstRun, Recovering, Idle
    <2>4. WaitingOK(r)
        BY <1>5, <1>6, <1>7, <1>8 DEF LocalOK, WaitingOK
    <2>5. BudgetOK(r)
        BY <1>5, <1>6, <1>7 DEF LocalOK, BudgetOK, CyclesLeft
    <2>6. UnfaultedOK(r)
        BY <1>5, <1>6, <1>7, <1>8 DEF LocalOK, UnfaultedOK, LandingOK
    <2> QED BY <2>1, <2>2, <2>3, <2>4, <2>5, <2>6 DEF LocalOK
<1>10. SettledOK(o) /\ kill_requested' = kill_requested
    BY <1>1 DEF Known, flags
<1>11. /\ r.landing = "ENQUEUED" => r.poll # "none" \/ kill_requested'
       /\ r.landing = "KILLED" => r.state \in {"KILLED", "WAITING_OPERATOR"} /\ r.task \in Idle
    BY <1>5, <1>7, <1>8, <1>10 DEF SettledOK, Idle
<1>12. SettledOK(rec[n])'
    BY <1>3, <1>11 DEF SettledOK
<1>13. /\ r.task = "prep" => o.task = "prep"
       /\ r.task # "none" => o.task # "none" /\ n \notin S
       /\ Lingering(o) => Lingering(r)
    BY <1>5, <1>7 DEF Lingering
<1> QED BY <1>3, <1>5, <1>9, <1>12, <1>13

LEMMA WakeBusyKeeps == ASSUME EpicInv, WakeBusy PROVE EpicInv'
<1>1. /\ sched = "busy" /\ sched' = "loop" /\ epic_state' = epic_state /\ drainable' = drainable
      /\ UNCHANGED <<plan, flags, world>> /\ reap_finished(Finished)
    BY DEF WakeBusy
<1>2. \A n \in Nodes :
         /\ rec'[n] \in NodeRecord /\ LocalOK(rec'[n]) /\ SettledOK(rec[n])'
         /\ rec'[n].recovery_cycles = rec[n].recovery_cycles
         /\ rec'[n].verified = rec[n].verified
         /\ rec'[n].landing = rec[n].landing
         /\ rec'[n].worktree = rec[n].worktree
         /\ rec'[n].task = "prep" => rec[n].task = "prep"
         /\ rec'[n].task # "none" => rec[n].task # "none"
    BY <1>1, ReapKeeps
<1>3. TypeOK'
    <2>1. rec' \in [Nodes -> NodeRecord]
        BY <1>1, <1>2, reap_finished_is
    <2> QED BY <1>1, <2>1 DEF EpicInv, TypeOK, flags, world
<1>4. KillInv'
    BY <1>1 DEF KillInv
<1>5. ShellInv'
    BY <1>1 DEF EpicInv, ShellInv, CompletedIsQuiet, EndedAccounts
<1> QED BY <1>1, <1>2, <1>3, <1>4, <1>5, SweepStep

LEMMA drain_in_flightKeeps == ASSUME EpicInv, drain_in_flight PROVE EpicInv'
<1> DEFINE S == drainable \cap Finished
<1>1. /\ sched \in {"pause_drain", "kill_drain"} /\ sched' = sched /\ epic_state' = epic_state
      /\ drainable' = drainable \ Finished
      /\ UNCHANGED <<plan, flags, world>> /\ reap_finished(S)
    BY DEF drain_in_flight
<1>2. \A n \in Nodes :
         /\ rec'[n] \in NodeRecord /\ LocalOK(rec'[n]) /\ SettledOK(rec[n])'
         /\ rec'[n].recovery_cycles = rec[n].recovery_cycles
         /\ rec'[n].verified = rec[n].verified
         /\ rec'[n].landing = rec[n].landing
         /\ rec'[n].worktree = rec[n].worktree
         /\ rec'[n].task = "prep" => rec[n].task = "prep"
         /\ rec'[n].task # "none" => rec[n].task # "none" /\ n \notin S
         /\ Lingering(rec[n]) => Lingering(rec'[n])
    BY <1>1, ReapKeeps
<1>3. TypeOK'
    <2>1. rec' \in [Nodes -> NodeRecord]
        BY <1>1, <1>2, reap_finished_is
    <2> QED BY <1>1, <2>1 DEF EpicInv, TypeOK, flags, world
<1>4. KillInv'
    <2>1. (in_flight \ drainable)' \subseteq in_flight \ drainable
        BY <1>1, <1>2 DEF in_flight
    <2>2. sched = "kill_drain" => kill_requested /\ \A n \in in_flight \ drainable : Lingering(rec[n])
        BY DEF EpicInv, KillInv
    <2>3. in_flight \subseteq Nodes
        BY DEF in_flight
    <2>4. kill_requested' = kill_requested
        BY <1>1 DEF flags
    <2> QED BY <1>1, <1>2, <2>1, <2>2, <2>3, <2>4 DEF KillInv
<1>5. ShellInv'
    BY <1>1 DEF EpicInv, ShellInv, CompletedIsQuiet, EndedAccounts
<1> QED BY <1>1, <1>2, <1>3, <1>4, <1>5, SweepStep

-----------------------------------------------------------------------------
(* The invariant.                                                           *)

LEMMA InitHolds == ASSUME Init PROVE EpicInv
<1>1. /\ plan \in Plan /\ plan \in Plans /\ sched = "loop" /\ epic_state = "RUNNING"
      /\ paused = FALSE /\ kill_requested = FALSE /\ drainable = {} /\ pauses = 0 /\ stale = 0
      /\ lease = Nobody
      /\ plan.pauses \in Nat /\ plan.stale \in Nat
      /\ plan.max_recovery_cycles \in Nat /\ plan.max_free_rebases \in Nat
      /\ plan.max_concurrent_nodes \in Nat /\ plan.max_subscription \in Nat
    BY EpicAssumption DEF Init, Plan
<1>2. NewNode \in NodeRecord
    BY DEF NewNode, NodeRecord, NodeState, LandingState, Tasks, Carry
<1>3. rec = [n \in Nodes |-> NewNode]
    BY DEF Init
<1>4. \A n \in Nodes : rec[n] = NewNode
    BY <1>3
<1>5. TypeOK
    <2>1. rec \in [Nodes -> NodeRecord]
        BY <1>2, <1>3
    <2>2. pauses \in 0..plan.pauses /\ stale \in 0..plan.stale
        BY <1>1
    <2> QED BY <1>1, <2>1, <2>2 DEF TypeOK
<1>6. LocalOK(NewNode) /\ SettledOK(NewNode)
    BY <1>1 DEF NewNode, LocalOK, CarryOK, LandingOK, WaitingOK, BudgetOK, UnfaultedOK,
           SettledOK, FirstRun, Recovering, Idle
<1>7. NewNode.recovery_cycles <= plan.max_recovery_cycles + stale
    BY <1>1 DEF NewNode
<1>8. BuiltInv
    BY <1>4 DEF BuiltInv, NewNode
<1>9. SlotsInv
    <2>1. in_flight = {} /\ in_flight \cap plan.subscription = {}
        BY <1>4 DEF in_flight, NewNode
    <2>2. 0 <= plan.max_concurrent_nodes /\ 0 <= plan.max_subscription
        BY <1>1
    <2> QED BY <2>1, <2>2, FS_EmptySet DEF SlotsInv
<1>10. KillInv /\ ShellInv
    BY <1>1 DEF KillInv, ShellInv, CompletedIsQuiet, EndedAccounts
<1> QED BY <1>4, <1>5, <1>6, <1>7, <1>8, <1>9, <1>10 DEF EpicInv

LEMMA SchedulerKeeps == ASSUME EpicInv, Scheduler PROVE EpicInv'
<1>1. CASE Dispatch
    BY <1>1, DispatchKeeps
<1>2. CASE WakeBusy
    BY <1>2, WakeBusyKeeps
<1>3. CASE WakeIdle
    BY <1>3, WakeIdleKeeps
<1>4. CASE BeginDrain
    BY <1>4, BeginDrainKeeps
<1>5. CASE drain_in_flight
    BY <1>5, drain_in_flightKeeps
<1>6. CASE ParkScheduler
    BY <1>6, ParkSchedulerKeeps
<1>7. CASE WakePaused
    BY <1>7, WakePausedKeeps
<1>8. CASE CancelPolls
    BY <1>8, CancelPollsKeeps
<1>9. CASE \E n \in Nodes : kill_landings(n)
    BY <1>9, kill_landingsKeeps
<1>10. CASE kill_remaining
    BY <1>10, kill_remainingKeeps
<1> QED BY <1>1, <1>2, <1>3, <1>4, <1>5, <1>6, <1>7, <1>8, <1>9, <1>10 DEF Scheduler

LEMMA TaskKeeps == ASSUME EpicInv, NEW n \in Nodes, Task(n) PROVE EpicInv'
<1>1. CASE Prepare(n) \/ IssueKey(n) \/ AgentEnds(n) \/ NothingAsked(n) \/ AgentAsks(n)
    BY <1>1, PrepareKeeps, IssueKeyKeeps, AgentEndsKeeps, NothingAskedKeeps, AgentAsksKeeps
<1>2. CASE \E how \in {"retry", "passed", "killed"} : Decide(n, how)
    BY <1>2, DecideKeeps
<1>3. CASE Escalate(n) \/ CloseForPark(n) \/ Teardown(n) \/ Sweep(n) \/ Finish(n)
    BY <1>3, EscalateKeeps, CloseForParkKeeps, TeardownKeeps, SweepKeeps, FinishKeeps
<1>4. CASE Stop(n)
    BY <1>4, KillParkedKeeps, PageLapsesKeeps, LandingPageLapsesKeeps DEF Stop
<1>5. CASE OpenPr(n) \/ RefConflict(n) \/ Enqueue(n) \/ EnqueueRefused(n) \/ Park(n) \/ Unland(n)
    BY <1>5, OpenPrKeeps, RefConflictKeeps, EnqueueKeeps, EnqueueRefusedKeeps,
           ParkKeeps, UnlandKeeps
<1>6. CASE SyncRefused(n) \/ \E clean \in BOOLEAN : Sync(n, clean)
    BY <1>6, SyncRefusedKeeps, SyncKeeps
<1>7. CASE RecoveryIssueKey(n) \/ RecoveryAgentEnds(n) \/ RecoveryTeardown(n)
    BY <1>7, RecoveryIssueKeyKeeps, RecoveryAgentEndsKeeps, RecoveryTeardownKeeps
<1>8. CASE \E how \in {"passed", "killed"} : RecoveryDecides(n, how)
    BY <1>8, RecoveryDecidesKeeps
<1>9. CASE \E identical \in BOOLEAN : Compare(n, identical)
    BY <1>9, CompareKeeps
<1> QED BY <1>1, <1>2, <1>3, <1>4, <1>5, <1>6, <1>7, <1>8, <1>9 DEF Task

LEMMA OperatorKeeps == ASSUME EpicInv, NEW n \in Nodes, Window(n) \/ Answer(n) PROVE EpicInv'
<1>1. CASE Unpark(n) \/ PageLapses(n) \/ LandingPageLapses(n)
    BY <1>1, UnparkKeeps, PageLapsesKeeps, LandingPageLapsesKeeps
<1>2. CASE \E choice \in {"RETRY", "KILL", "PAUSE_EPIC", "KILL_EPIC"} :
              Press(n, choice) \/ PressRef(n, choice)
    BY <1>2, PressKeeps, PressRefKeeps
<1>3. CASE RetryLanding(n)
    BY <1>3, RetryLandingKeeps
<1>4. CASE \E choice \in {"KILL", "PAUSE_EPIC", "KILL_EPIC"} : EndLanding(n, choice)
    BY <1>4, EndLandingKeeps
<1>5. Press(n, "PAUSE_EPIC") => \E choice \in {"RETRY", "KILL", "PAUSE_EPIC", "KILL_EPIC"} :
                                    Press(n, choice) \/ PressRef(n, choice)
    OBVIOUS
<1> QED BY <1>1, <1>2, <1>3, <1>4, <1>5 DEF Window, Answer

LEMMA PollKeeps == ASSUME EpicInv, NEW n \in Nodes, Poll(n) \/ Fault(n) PROVE EpicInv'
<1>1. CASE PollSeesKill(n) \/ PollEnds(n) \/ TaskRaises(n) \/ PollStops(n)
    BY <1>1, PollSeesKillKeeps, PollEndsKeeps, TaskRaisesKeeps, PollStopsKeeps
<1>2. CASE \E step \in {"merging", "closing"} : PollDecides(n, step)
    BY <1>2, PollDecidesKeeps
<1>3. CASE \E moved \in BOOLEAN : PollRejects(n, moved)
    BY <1>3, PollRejectsKeeps
<1> QED BY <1>1, <1>2, <1>3 DEF Poll, Fault

LEMMA StutterKeeps == ASSUME EpicInv, UNCHANGED vars PROVE EpicInv'
<1>1. /\ plan' = plan /\ sched' = sched /\ epic_state' = epic_state /\ drainable' = drainable
      /\ paused' = paused /\ kill_requested' = kill_requested
      /\ pauses' = pauses /\ stale' = stale /\ lease' = lease /\ rec' = rec
    BY DEF vars, shell, flags, world
<1>2. in_flight' = in_flight /\ KeysClose' = KeysClose
    BY <1>1 DEF in_flight, KeysClose
<1>3. TypeOK' /\ \A n \in Nodes : SettledOK(rec[n])'
    BY <1>1 DEF EpicInv, TypeOK, SettledOK
<1>4. \A n \in Nodes : LocalOK(rec[n])'
    BY <1>1, <1>2 DEF EpicInv, LocalOK, CarryOK, LandingOK, WaitingOK, BudgetOK,
           CyclesLeft, UnfaultedOK
<1>5. \A n \in Nodes : (rec[n].recovery_cycles <= plan.max_recovery_cycles + stale)'
    BY <1>1 DEF EpicInv
<1>6. BuiltInv' /\ SlotsInv'
    BY <1>1, <1>2 DEF EpicInv, BuiltInv, EdgesHold, SlotsInv
<1>7. KillInv'
    BY <1>1, <1>2 DEF EpicInv, KillInv
<1>8. ShellInv'
    BY <1>1, <1>2 DEF EpicInv, ShellInv, CompletedIsQuiet, EndedAccounts,
           edges_satisfied
<1> QED BY <1>3, <1>4, <1>5, <1>6, <1>7, <1>8 DEF EpicInv

\* Every step of the workflow, of its tasks, its polls and its operator keeps
\* the invariant, whatever the graph and the dials.
THEOREM EpicInvariant == Spec => []EpicInv
<1>1. Init => EpicInv
    BY InitHolds
<1>2. EpicInv /\ [Next]_vars => EpicInv'
    <2> SUFFICES ASSUME EpicInv, [Next]_vars PROVE EpicInv'
        OBVIOUS
    <2>1. CASE Scheduler
        BY <2>1, SchedulerKeeps
    <2>2. ASSUME NEW n \in Nodes, Task(n) \/ Window(n) \/ Answer(n) \/ Poll(n) \/ Fault(n)
          PROVE  EpicInv'
        BY <2>2, TaskKeeps, OperatorKeeps, PollKeeps
    <2>3. CASE pause_epic \/ resume_epic \/ kill_epic \/ LeaseTaken \/ LeaseReturned
        BY <2>3, SignalsKeep
    <2>4. CASE UNCHANGED vars
        BY <2>4, StutterKeeps
    <2> QED BY <2>1, <2>2, <2>3, <2>4 DEF Next
<1> QED BY <1>1, <1>2, PTL DEF Spec

-----------------------------------------------------------------------------
(* What the invariant says of the properties.                               *)

\* The variables of an epic keep their types.
THEOREM EpicTypeCorrect == Spec => []TypeOK
<1>1. EpicInv => TypeOK
    BY DEF EpicInv
<1> QED BY <1>1, EpicInvariant, PTL

\* An enqueued landing is watched by a poll until a kill, and no task holds it.
THEOREM EnqueuedAlwaysWatched == Spec => []EnqueuedIsWatched
<1>1. EpicInv => EnqueuedIsWatched
    BY DEF EpicInv, EnqueuedIsWatched, LocalOK, LandingOK, SettledOK, Idle
<1> QED BY <1>1, EpicInvariant, PTL

\* A landing's recovery stays within its cycles and its free rebases, whatever
\* the queue answers.
THEOREM RecoveryAlwaysBounded == Spec => []RecoveryBounded
<1>1. EpicInv => RecoveryBounded
    BY DEF EpicInv, RecoveryBounded, LocalOK, BudgetOK
<1> QED BY <1>1, EpicInvariant, PTL

\* A worktree only ever exists on top of what its node's edges promised.
THEOREM AlwaysBuiltOnItsEdges == Spec => []BuiltOnItsEdges
<1>1. EpicInv => BuiltOnItsEdges
    BY DEF EpicInv, BuiltInv, EdgesHold, BuiltOnItsEdges
<1> QED BY <1>1, EpicInvariant, PTL

\* However many nodes there are, the open keys fit the concurrency caps: each
\* belongs to a task in flight, and those do.
THEOREM KeysAlwaysWithinCap == Spec => []KeysWithinCap
<1>1. EpicInv => KeysWithinCap
    <2> SUFFICES ASSUME EpicInv, KeysClose PROVE KeysWithinCap
        BY DEF KeysWithinCap
    <2> DEFINE open == {n \in Nodes : rec[n].key}
    <2>1. \A n \in open : rec[n].task \in Bracket
        BY DEF EpicInv, LocalOK
    <2>2. open \in SUBSET in_flight
        BY <2>1 DEF in_flight, Bracket
    <2>3. /\ Cardinality(open) <= plan.max_concurrent_nodes
          /\ Cardinality(open \cap plan.subscription) <= plan.max_subscription
        <3> HIDE DEF open
        <3> QED BY <2>2, PlanType, FewerSlots DEF EpicInv
    <2> QED BY <2>1, <2>3 DEF KeysWithinCap, Bracket
<1> QED BY <1>1, EpicInvariant, PTL

\* An epic completes only when nothing runs, nothing polls and nothing could
\* still start.
THEOREM CompletedAlwaysQuiet == Spec => []CompletedIsQuiet
<1>1. EpicInv => CompletedIsQuiet
    BY DEF EpicInv, ShellInv
<1> QED BY <1>1, EpicInvariant, PTL

\* The report of an ended epic agrees with its landings, after a kill too.
THEOREM EndedAlwaysAccounts == Spec => []EndedAccounts
<1>1. EpicInv => EndedAccounts
    BY DEF EpicInv, ShellInv
<1> QED BY <1>1, EpicInvariant, PTL

-----------------------------------------------------------------------------
(* The lock-out and the dispatch, as action properties.                     *)

\* The step of a node starts at a task or at a poll of its own, and leaves the
\* other nodes as they are.
Others(m) == \A n \in Nodes : n # m => rec'[n] = rec[n]

LEMMA GoesAlone == ASSUME TypeOK, NEW m \in Nodes, NEW r, Go(m, r) PROVE Others(m)
BY DEF TypeOK, Go, Others

LEMMA TaskIsOwn ==
    ASSUME TypeOK, NEW m \in Nodes, Task(m)
    PROVE  rec[m].task # "none" /\ Others(m)
<1>1. CASE Prepare(m) \/ IssueKey(m) \/ AgentEnds(m) \/ NothingAsked(m) \/ AgentAsks(m)
    BY <1>1, GoesAlone DEF Prepare, IssueKey, AgentEnds, NothingAsked, AgentAsks, At
<1>2. CASE \E how \in {"retry", "passed", "killed"} : Decide(m, how)
    BY <1>2, GoesAlone DEF Decide, At
<1>3. CASE Escalate(m) \/ CloseForPark(m) \/ Teardown(m) \/ Sweep(m) \/ Finish(m)
    BY <1>3, GoesAlone DEF Escalate, CloseForPark, Teardown, Sweep, Finish, At
<1>4. CASE Stop(m)
    BY <1>4, GoesAlone DEF Stop, KillParked, PageLapses, LandingPageLapses, At
<1>5. CASE OpenPr(m) \/ RefConflict(m) \/ Enqueue(m) \/ EnqueueRefused(m) \/ Park(m) \/ Unland(m)
    BY <1>5, GoesAlone DEF OpenPr, RefConflict, Enqueue, EnqueueRefused, Park, Unland,
           At
<1>6. CASE SyncRefused(m) \/ \E clean \in BOOLEAN : Sync(m, clean)
    BY <1>6, GoesAlone DEF SyncRefused, Sync, At
<1>7. CASE RecoveryIssueKey(m) \/ RecoveryAgentEnds(m) \/ RecoveryTeardown(m)
    BY <1>7, GoesAlone DEF RecoveryIssueKey, RecoveryAgentEnds, RecoveryTeardown, At
<1>8. CASE \E how \in {"passed", "killed"} : RecoveryDecides(m, how)
    BY <1>8, GoesAlone DEF RecoveryDecides, At
<1>9. CASE \E identical \in BOOLEAN : Compare(m, identical)
    BY <1>9, GoesAlone DEF Compare, At
<1> QED BY <1>1, <1>2, <1>3, <1>4, <1>5, <1>6, <1>7, <1>8, <1>9 DEF Task

LEMMA OperatorIsOwn ==
    ASSUME TypeOK, NEW m \in Nodes, Window(m) \/ Answer(m) \/ TaskRaises(m)
    PROVE  rec[m].task # "none" /\ Others(m)
<1>1. CASE Unpark(m) \/ PageLapses(m) \/ LandingPageLapses(m)
    BY <1>1, GoesAlone DEF Unpark, PageLapses, LandingPageLapses, At
<1>2. CASE \E choice \in {"RETRY", "KILL", "PAUSE_EPIC", "KILL_EPIC"} :
              Press(m, choice) \/ PressRef(m, choice)
    BY <1>2, GoesAlone DEF Press, PressRef, At
<1>3. CASE RetryLanding(m)
    BY <1>3, GoesAlone DEF RetryLanding, At
<1>4. CASE \E choice \in {"KILL", "PAUSE_EPIC", "KILL_EPIC"} : EndLanding(m, choice)
    BY <1>4, GoesAlone DEF EndLanding, At
<1>5. Press(m, "PAUSE_EPIC") => \E choice \in {"RETRY", "KILL", "PAUSE_EPIC", "KILL_EPIC"} :
                                    Press(m, choice) \/ PressRef(m, choice)
    OBVIOUS
<1>6. CASE TaskRaises(m)
    BY <1>6, GoesAlone DEF TaskRaises
<1> QED BY <1>1, <1>2, <1>3, <1>4, <1>5, <1>6 DEF Window, Answer

LEMMA PollIsOwn ==
    ASSUME TypeOK, NEW m \in Nodes, Poll(m) \/ PollStops(m)
    PROVE  rec[m].poll # "none" /\ rec'[m].task = rec[m].task /\ Others(m)
<1>1. rec[m] \in NodeRecord /\ \A r : Go(m, r) => rec'[m] = r
    BY DEF TypeOK, Go
<1>2. CASE PollSeesKill(m)
    BY <1>1, <1>2, GoesAlone DEF PollSeesKill, Polling, NodeRecord
<1>3. CASE PollEnds(m)
    BY <1>1, <1>3, GoesAlone DEF PollEnds, NodeRecord
<1>4. CASE \E step \in {"merging", "closing"} : PollDecides(m, step)
    BY <1>1, <1>4, GoesAlone DEF PollDecides, Polling, NodeRecord
<1>5. CASE \E moved \in BOOLEAN : PollRejects(m, moved)
    BY <1>1, <1>5, GoesAlone DEF PollRejects, Polling, NodeRecord
<1>6. CASE PollStops(m)
    BY <1>1, <1>6, GoesAlone DEF PollStops, NodeRecord
<1> QED BY <1>2, <1>3, <1>4, <1>5, <1>6 DEF Poll

\* Only a dispatch gives an idle node a task, and a node's own steps start from
\* one: what a step that is not the scheduler's makes of a node without any.
LEMMA IdleNodeStays ==
    ASSUME EpicInv, [Next]_vars, ~Scheduler, NEW n \in Nodes, rec[n].task = "none"
    PROVE  /\ rec'[n].task = "none"
           /\ rec[n].landing # "ENQUEUED" => rec'[n] = rec[n]
<1>1. TypeOK /\ LocalOK(rec[n])
    BY DEF EpicInv
<1>2. ASSUME NEW m \in Nodes, Task(m) \/ Window(m) \/ Answer(m) \/ TaskRaises(m)
      PROVE  rec'[n] = rec[n]
    BY <1>1, <1>2, TaskIsOwn, OperatorIsOwn DEF Others
<1>3. ASSUME NEW m \in Nodes, Poll(m) \/ PollStops(m)
      PROVE  rec'[n] = rec[n] \/ (rec'[n].task = "none" /\ rec[n].landing = "ENQUEUED")
    BY <1>1, <1>3, PollIsOwn DEF Others, LocalOK, LandingOK
<1>4. CASE pause_epic \/ resume_epic \/ kill_epic \/ LeaseTaken \/ LeaseReturned
    BY <1>4 DEF pause_epic, resume_epic, kill_epic, LeaseTaken, LeaseReturned
<1>5. CASE UNCHANGED vars
    BY <1>5 DEF vars
<1>6. CASE \E m \in Nodes : Task(m) \/ Window(m) \/ Answer(m) \/ Poll(m) \/ Fault(m)
    BY <1>2, <1>3, <1>6 DEF Fault
<1> QED BY <1>4, <1>5, <1>6 DEF Next

\* A dispatch as its lemma wants it: the set it starts.
LEMMA DispatchOf ==
    ASSUME EpicInv, Dispatch, NEW n \in Nodes
    PROVE  /\ rec'[n].state = rec[n].state
           /\ \/ rec'[n] = rec[n]
              \/ rec[n].landing = "REJECTED"
              \/ rec[n].state = "PENDING"
<1>1. PICK S \in SUBSET (ready_set \ in_flight) :
        rec' = [k \in Nodes |-> Dispatched(k, S)]
    BY DEF Dispatch, Dispatched
<1>2. PICK r : r = rec'[n]
    OBVIOUS
<1>3. r = Dispatched(n, S) /\ S \in SUBSET (ready_set \ in_flight)
    BY <1>1, <1>2
<1>4. /\ r.state = rec[n].state
      /\ n \notin S => r = rec[n]
      /\ n \in S => rec[n].landing = "REJECTED" \/ rec[n].state = "PENDING"
    BY <1>3, DispatchedIs
<1> QED BY <1>2, <1>4

\* A node that ended killed is left alone: nothing of it is ready, because the
\* landing of a killed node is over when no activity fails for good.
THEOREM KilledAlwaysDown == Spec => KilledStaysDown
<1> DEFINE Down == plan.faults = {} =>
                     \A n \in Nodes : rec[n].state = "KILLED" /\ rec[n].task = "none"
                                          => rec'[n].task = "none"
<1>1. ASSUME EpicInv, [Next]_vars PROVE Down
    <2> SUFFICES ASSUME plan.faults = {}, NEW n \in Nodes,
                        rec[n].state = "KILLED", rec[n].task = "none"
                 PROVE  rec'[n].task = "none"
        OBVIOUS
    <2>1. rec[n] \in NodeRecord /\ rec[n].landing \in {"NONE", "KILLED"}
        BY <1>1 DEF EpicInv, TypeOK, LocalOK, UnfaultedOK
    <2>2. CASE ~Scheduler
        BY <1>1, <2>2, IdleNodeStays
    <2>3. CASE Dispatch
        BY <1>1, <2>1, <2>3, DispatchOf
    <2>4. CASE WakeBusy
        <3>1. \E s \in NodeState, t \in Tasks, c \in Carry : ReapsTo(n, Finished, s, t, c)
            BY <1>1, <2>4, ReapedIs DEF WakeBusy
        <3> QED BY <2>1, <3>1 DEF ReapsTo, NodeRecord
    <2>5. CASE drain_in_flight
        <3>1. \E s \in NodeState, t \in Tasks, c \in Carry :
                 ReapsTo(n, drainable \cap Finished, s, t, c)
            BY <1>1, <2>5, ReapedIs DEF drain_in_flight
        <3> QED BY <2>1, <3>1 DEF ReapsTo, NodeRecord
    <2>6. CASE WakeIdle \/ BeginDrain \/ ParkScheduler \/ WakePaused
        BY <2>6 DEF WakeIdle, BeginDrain, ParkScheduler, WakePaused
    <2>7. CASE CancelPolls
        BY <2>1, <2>7 DEF CancelPolls, NodeRecord
    <2>8. CASE \E m \in Nodes : kill_landings(m)
        BY <2>1, <2>8 DEF kill_landings, LANDING_TERMINAL
    <2>9. CASE kill_remaining
        BY <2>1, <2>9 DEF kill_remaining, NodeRecord
    <2> QED BY <2>2, <2>3, <2>4, <2>5, <2>6, <2>7, <2>8, <2>9 DEF Scheduler
<1>2. [][Next]_vars /\ []EpicInv => KilledStaysDown
    BY <1>1, PTL DEF KilledStaysDown
<1> QED BY <1>2, EpicInvariant, PTL DEF Spec

-----------------------------------------------------------------------------

\* The least closed set is closed, and has nothing in it without a reason.
LEMMA LockOutIsLeast ==
    ASSUME NEW r, NEW n \in LockedOut(r)
    PROVE  dead_edge(r, LockedOut(r), n)
<1> DEFINE pending   == {k \in Nodes : r[k].state = "PENDING"}
           Closed(S) == \A k \in pending : dead_edge(r, S, k) => k \in S
           L         == LockedOut(r)
<1>1. L = {k \in pending : \A S \in SUBSET pending : Closed(S) => k \in S}
    BY DEF LockedOut
<1>2. \A S \in SUBSET pending, T \in SUBSET pending, k \in pending :
         S \subseteq T /\ dead_edge(r, S, k) => dead_edge(r, T, k)
    BY DEF dead_edge
<1>3. Closed(L)
    <2> SUFFICES ASSUME NEW k \in pending, dead_edge(r, L, k),
                        NEW S \in SUBSET pending, Closed(S)
                 PROVE  k \in S
        BY <1>1
    <2>1. L \subseteq S /\ L \in SUBSET pending
        BY <1>1
    <2>2. dead_edge(r, S, k)
        BY <1>2, <2>1
    <2> QED BY <2>2
<1>4. SUFFICES ASSUME ~dead_edge(r, L, n) PROVE FALSE
    OBVIOUS
<1>5. Closed(L \ {n})
    <2> SUFFICES ASSUME NEW k \in pending, dead_edge(r, L \ {n}, k) PROVE k \in L \ {n}
        OBVIOUS
    <2>1. dead_edge(r, L, k)
        <3>1. L \in SUBSET pending /\ L \ {n} \in SUBSET pending /\ L \ {n} \subseteq L
            BY <1>1
        <3> QED BY <1>2, <3>1
    <2> QED BY <1>3, <1>4, <2>1
<1>6. n \in L \ {n}
    <2>1. n \in L /\ L \ {n} \in SUBSET pending
        BY <1>1
    <2> QED BY <1>1, <1>5, <2>1
<1> QED BY <1>6

\* A reaping that locks a node out leaves a dead dependency of it behind.
LEMMA LockedBehindDead ==
    ASSUME EpicInv, NEW S \in SUBSET Finished, reap_finished(S),
           sched \notin {"kill_landings", "ended"},
           NEW n \in Nodes, n \in LockedBy(S)
    PROVE  \E d \in plan.depends_on[n] \cup plan.depends_on_merged[n] : rec'[d].state = "KILLED"
<1>1. plan.depends_on[n] \subseteq Nodes /\ plan.depends_on_merged[n] \subseteq Nodes
    BY PlanType DEF Plan
<1> DEFINE r == Reaped(S)
<1>2. LockedBy(S) = LockedOut(r) /\ dead_edge(r, LockedBy(S), n)
    BY LockOutIsLeast DEF LockedBy
<1>3. \A d \in Nodes : /\ d \in LockedBy(S) => rec'[d] = [r[d] EXCEPT !.state = "KILLED"]
                       /\ d \notin LockedBy(S) => rec'[d] = r[d]
    BY reap_finished_is
<1>4. \A d \in Nodes : r[d] \in NodeRecord /\ r[d].landing = rec[d].landing
    <2> TAKE d \in Nodes
    <2>1. rec[d] \in NodeRecord
        BY DEF EpicInv, TypeOK
    <2>2. "none" \in Tasks /\ "none" \in Carry /\ "KILLED" \in NodeState
        BY DEF Tasks, Carry, NodeState
    <2> QED BY <2>1, <2>2 DEF Reaped, NodeRecord
<1>5. \A d \in Nodes : d \in LockedBy(S) => rec'[d].state = "KILLED"
    BY <1>3, <1>4 DEF NodeRecord
<1>6. \A d \in Nodes : r[d].state = "KILLED" => rec'[d].state = "KILLED"
    BY <1>3, <1>5
<1>7. \A d \in Nodes : r[d].landing = "KILLED" /\ r[d].state # "WAITING_OPERATOR"
                          => r[d].state = "KILLED"
    <2> SUFFICES ASSUME NEW d \in Nodes, r[d].landing = "KILLED"
                 PROVE  r[d].state \in {"KILLED", "WAITING_OPERATOR"}
        OBVIOUS
    <2>1. rec[d] \in NodeRecord /\ rec[d].state \in {"KILLED", "WAITING_OPERATOR"}
        BY <1>4 DEF EpicInv, TypeOK, SettledOK
    <2> QED BY <2>1 DEF Reaped, NodeRecord
<1> QED BY <1>1, <1>2, <1>5, <1>6, <1>7 DEF dead_edge

\* What a reaping makes of a pending node without a task.
LEMMA PendingReaped ==
    ASSUME EpicInv, NEW S \in SUBSET Finished, reap_finished(S),
           sched \notin {"kill_landings", "ended"},
           NEW n \in Nodes, rec[n].state = "PENDING", rec[n].task = "none",
           rec'[n].state = "KILLED"
    PROVE  \E d \in plan.depends_on[n] \cup plan.depends_on_merged[n] : rec'[d].state = "KILLED"
<1>1. n \notin S
    BY DEF Finished
<1>2. n \notin LockedBy(S) => rec'[n] = rec[n]
    <2>1. Reaped(S)[n] = rec[n]
        BY <1>1 DEF Reaped
    <2> QED BY <2>1, reap_finished_is
<1>3. n \in LockedBy(S)
    BY <1>2
<1> QED BY <1>3, LockedBehindDead

\* Whatever a lock-out kills has a dead dependency in front of it: a park is
\* never read as a death.
THEOREM LockOutAlwaysBehindDead == Spec => LockOutBehindDead
<1> DEFINE Justified ==
        \A n \in Nodes :
           (rec[n].state = "PENDING" /\ rec[n].task = "none" /\ rec'[n].state = "KILLED"
              /\ sched' # "ended")
           => \E d \in plan.depends_on[n] \cup plan.depends_on_merged[n] :
                 rec'[d].state = "KILLED"
<1>1. ASSUME EpicInv, [Next]_vars PROVE Justified
    <2> SUFFICES ASSUME NEW n \in Nodes, rec[n].state = "PENDING", rec[n].task = "none",
                        rec'[n].state = "KILLED", sched' # "ended"
                 PROVE  \E d \in plan.depends_on[n] \cup plan.depends_on_merged[n] :
                           rec'[d].state = "KILLED"
        OBVIOUS
    <2>1. rec[n] \in NodeRecord /\ rec[n].landing = "NONE"
        BY <1>1 DEF EpicInv, TypeOK, LocalOK, LandingOK
    <2>2. CASE ~Scheduler
        BY <1>1, <2>1, <2>2, IdleNodeStays
    <2>3. CASE Dispatch
        BY <1>1, <2>3, DispatchOf
    <2>4. CASE WakeBusy
        BY <1>1, <2>4, PendingReaped DEF WakeBusy
    <2>5. CASE drain_in_flight
        BY <1>1, <2>5, PendingReaped DEF drain_in_flight
    <2>6. CASE WakeIdle \/ BeginDrain \/ ParkScheduler \/ WakePaused
        BY <2>6 DEF WakeIdle, BeginDrain, ParkScheduler, WakePaused
    <2>7. CASE CancelPolls
        BY <2>1, <2>7 DEF CancelPolls, NodeRecord
    <2>8. CASE \E m \in Nodes : kill_landings(m)
        <3>1. PICK m \in Nodes : kill_landings(m)
            BY <2>8
        <3>2. m # n
            BY <2>1, <3>1 DEF kill_landings, LANDING_TERMINAL
        <3> QED BY <1>1, <3>1, <3>2 DEF kill_landings, EpicInv, TypeOK
    <2>9. CASE kill_remaining
        BY <2>9 DEF kill_remaining
    <2> QED BY <2>2, <2>3, <2>4, <2>5, <2>6, <2>7, <2>8, <2>9 DEF Scheduler
<1>2. [][Next]_vars /\ []EpicInv => LockOutBehindDead
    BY <1>1, PTL DEF LockOutBehindDead
<1> QED BY <1>2, EpicInvariant, PTL DEF Spec

-----------------------------------------------------------------------------
(***************************************************************************)
(* The attempt loop of every node: what a node shows of its attempts, step *)
(* by step, is AttemptLoop.                                                *)
(***************************************************************************)

\* The loop's own waits.
InLoop == {"prep", "issue", "agent", "detect", "verify", "parkclose", "parked", "page",
           "teardown", "sweep"}

\* The ones it shows by their own name.
Plainly == InLoop \ {"prep", "detect"}

\* A node that has not passed is in its loop or out of every task, has proposed
\* nothing, and works in a worktree.
LoopOK(r) ==
    ~r.verified =>
        /\ r.task \in InLoop \cup {"none", "done", "raised"} /\ r.landing = "NONE"
        /\ r.state \in {"PENDING", "RUNNING", "WAITING_OPERATOR", "KILLED"}
        /\ r.task = "done" => r.state \in {"WAITING_OPERATOR", "KILLED"}
        /\ r.task \in InLoop \ {"prep"} => r.worktree

LoopsInv == \A n \in Nodes : LoopOK(rec[n])

\* What the epic sees of a node that has not passed, before a step and after it.
LEMMA Seen ==
    ASSUME EpicInv, NEW n \in Nodes, epic_state # "KILLED", NEW o, o = rec[n], ~o.verified
    PROVE  /\ o.task \in Plainly \cup {"raised"} => LoopAt(n) = o.task
           /\ o.task = "detect" => LoopAt(n) = "agent"
           /\ o.task = "prep" \/ (o.task = "none" /\ o.state = "PENDING") => LoopAt(n) = "start"
           /\ o.task = "done" \/ (o.task = "none" /\ o.state # "PENDING") => LoopAt(n) = "over"
           /\ LoopCarry(n) = IF o.task \in {"teardown", "sweep"} THEN o.carry ELSE "none"
           /\ LoopState(n) = o.state
           /\ (rec[n].key /\ ~rec[n].verified) = o.key
           /\ (rec[n].worktree \/ rec[n].verified) = o.worktree
<1>1. o.key \in BOOLEAN /\ o.worktree \in BOOLEAN /\ rec[n] = o
    BY DEF EpicInv, TypeOK, NodeRecord
<1>2. (rec[n].key /\ ~rec[n].verified) = o.key /\ (rec[n].worktree \/ rec[n].verified) = o.worktree
    BY <1>1
<1> QED BY <1>2 DEF LoopAt, LoopCarry, LoopState, LeftOver, InLoop, Plainly

LEMMA SeenNext ==
    ASSUME EpicInv', NEW n \in Nodes, epic_state' # "KILLED", NEW r, r = rec'[n], ~r.verified
    PROVE  /\ r.task \in Plainly \cup {"raised"} => LoopAt(n)' = r.task
           /\ r.task = "detect" => LoopAt(n)' = "agent"
           /\ r.task = "prep" \/ (r.task = "none" /\ r.state = "PENDING") => LoopAt(n)' = "start"
           /\ r.task = "done" \/ (r.task = "none" /\ r.state # "PENDING") => LoopAt(n)' = "over"
           /\ LoopCarry(n)' = IF r.task \in {"teardown", "sweep"} THEN r.carry ELSE "none"
           /\ LoopState(n)' = r.state
           /\ (rec[n].key /\ ~rec[n].verified)' = r.key
           /\ (rec[n].worktree \/ rec[n].verified)' = r.worktree
<1>1. r.key \in BOOLEAN /\ r.worktree \in BOOLEAN /\ rec'[n] = r
    BY DEF EpicInv, TypeOK, NodeRecord
<1>2. (rec[n].key /\ ~rec[n].verified)' = r.key /\ (rec[n].worktree \/ rec[n].verified)' = r.worktree
    BY <1>1
<1> QED BY <1>2 DEF LoopAt, LoopCarry, LoopState, LeftOver, InLoop, Plainly

\* A node that passed is out of the loop for good.
LEMMA PassedIsOver ==
    ASSUME NEW n \in Nodes, rec[n].verified, rec'[n].verified
    PROVE  UNCHANGED Loop(n)!loop
<1>1. LoopAt(n) = "passed" /\ LoopCarry(n) = "none" /\ LoopState(n) = "PASSED"
    BY DEF LoopAt, LoopCarry, LoopState
<1>2. LoopAt(n)' = "passed" /\ LoopCarry(n)' = "none" /\ LoopState(n)' = "PASSED"
    BY DEF LoopAt, LoopCarry, LoopState
<1>3. (rec[n].key /\ ~rec[n].verified) = FALSE /\ (rec[n].key /\ ~rec[n].verified)' = FALSE
    OBVIOUS
<1>4. (rec[n].worktree \/ rec[n].verified) = TRUE /\ (rec[n].worktree \/ rec[n].verified)' = TRUE
    OBVIOUS
<1> QED BY <1>1, <1>2, <1>3, <1>4, Zenon DEF Loop!loop

\* A node a step does not touch shows none.
LEMMA UntouchedStays ==
    ASSUME NEW n \in Nodes, rec'[n] = rec[n], epic_state # "KILLED", epic_state' # "KILLED"
    PROVE  UNCHANGED Loop(n)!loop
<1>1. LoopAt(n)' = LoopAt(n) /\ LoopCarry(n)' = LoopCarry(n) /\ LoopState(n)' = LoopState(n)
    BY DEF LoopAt, LoopCarry, LoopState, LeftOver
<1> QED BY <1>1, Zenon DEF Loop!loop

\* A step of node n's task, before it passed.
Shown(n, r) ==
    /\ EpicInv /\ EpicInv' /\ LoopsInv /\ n \in Nodes
    /\ epic_state # "KILLED" /\ epic_state' # "KILLED"
    /\ ~rec[n].verified /\ rec'[n] = r

\* What is known of the node such a step starts from.
LEMMA OfLoop ==
    ASSUME NEW n, NEW r, Shown(n, r)
    PROVE  /\ n \in Nodes /\ rec[n] \in NodeRecord /\ LoopOK(rec[n]) /\ ~rec[n].verified
           /\ \A q : Go(n, q) => r = q
           /\ rec[n].landing = "NONE" /\ rec[n].poll = "none"
           /\ rec[n].task = "teardown" =>
                 rec[n].carry \in {"retry", "passed", "killed", "parked", "raise"}
BY DEF Shown, LoopsInv, LoopOK, EpicInv, TypeOK, Go, LocalOK, LandingOK, CarryOK

\* The top of the loop, and its other end: a killed node.
LEMMA KilledShows ==
    ASSUME NEW n, NEW r, Shown(n, r), NEW q \in NodeRecord, r = Killed(q),
           q.state = rec[n].state, ~q.verified, q.worktree, q.landing = "NONE",
           q.state \in {"PENDING", "RUNNING", "WAITING_OPERATOR", "KILLED"}
    PROVE  /\ Loop(n)!Killed /\ LoopOK(r)
           /\ r.state = q.state /\ r.key = q.key /\ r.worktree = q.worktree /\ ~r.verified
<1>1. LoopState(n) = q.state
    BY Seen DEF Shown
<1>2. CASE q.state = "WAITING_OPERATOR"
    <2>1. r = [q EXCEPT !.task = "done", !.carry = "none"]
        BY <1>2 DEF Killed
    <2>2. /\ r.task = "done" /\ r.carry = "none" /\ r.state = q.state /\ r.key = q.key
          /\ r.worktree = q.worktree /\ r.landing = q.landing /\ ~r.verified
        BY <2>1 DEF NodeRecord
    <2>3. LoopAt(n)' = "over" /\ LoopCarry(n)' = "none"
        BY <2>2, SeenNext DEF Shown
    <2> QED BY <1>1, <1>2, <2>2, <2>3 DEF Loop!Killed, LoopOK, InLoop, Plainly
<1>3. CASE q.state # "WAITING_OPERATOR"
    <2>1. r = [q EXCEPT !.task = "sweep", !.carry = "killed"]
        BY <1>3 DEF Killed
    <2>2. /\ r.task = "sweep" /\ r.carry = "killed" /\ r.state = q.state /\ r.key = q.key
          /\ r.worktree = q.worktree /\ r.landing = q.landing /\ ~r.verified
        BY <2>1 DEF NodeRecord
    <2>3. LoopAt(n)' = "sweep" /\ LoopCarry(n)' = "killed"
        BY <2>2, SeenNext DEF Shown, InLoop, Plainly
    <2> QED BY <1>1, <1>3, <2>2, <2>3 DEF Loop!Killed, LoopOK, InLoop, Plainly
<1> QED BY <1>2, <1>3

LEMMA NextShows ==
    ASSUME NEW n, NEW r, Shown(n, r), NEW q \in NodeRecord, r = NextAttempt(q),
           q.state = rec[n].state, ~q.verified, q.worktree, q.landing = "NONE",
           q.state \in {"PENDING", "RUNNING", "WAITING_OPERATOR", "KILLED"}
    PROVE  /\ Loop(n)!NextAttempt /\ LoopOK(r)
           /\ r.state = q.state /\ r.key = q.key /\ r.worktree = q.worktree /\ ~r.verified
<1>1. CASE kill_requested
    <2>1. r = Killed(q)
        BY <1>1 DEF NextAttempt
    <2>2. /\ Loop(n)!Killed /\ LoopOK(r)
          /\ r.state = q.state /\ r.key = q.key /\ r.worktree = q.worktree /\ ~r.verified
        BY <2>1, KilledShows
    <2> QED BY <2>2, Zenon DEF Loop!NextAttempt
<1>2. CASE ~kill_requested
    <2>1. r = [q EXCEPT !.task = "issue", !.carry = "none"]
        BY <1>2 DEF NextAttempt
    <2>2. /\ r.task = "issue" /\ r.carry = "none" /\ r.state = q.state /\ r.key = q.key
          /\ r.worktree = q.worktree /\ r.landing = q.landing /\ ~r.verified
        BY <2>1 DEF NodeRecord
    <2>3. LoopAt(n)' = "issue" /\ LoopCarry(n)' = "none"
        BY <2>2, SeenNext DEF Shown, InLoop, Plainly
    <2> QED BY <2>2, <2>3 DEF Loop!NextAttempt, LoopOK, InLoop, Plainly
<1> QED BY <1>1, <1>2

LEMMA PrepareShows ==
    ASSUME NEW n, NEW r, Shown(n, r), Prepare(n)
    PROVE  Loop(n)!Prepare /\ LoopOK(r)
<1> DEFINE o == rec[n]
           q == [o EXCEPT !.worktree = TRUE]
<1>1. o \in NodeRecord /\ LoopOK(o) /\ ~o.verified /\ o.task = "prep" /\ r = NextAttempt(q)
    BY OfLoop DEF Prepare, At
<1>2. /\ q \in NodeRecord /\ q.state = o.state /\ ~q.verified /\ q.worktree /\ q.landing = "NONE"
      /\ q.state \in {"PENDING", "RUNNING", "WAITING_OPERATOR", "KILLED"} /\ q.key = o.key
      /\ q.worktree = TRUE
    BY <1>1 DEF NodeRecord, LoopOK
<1> HIDE DEF q
<1>3. /\ Loop(n)!NextAttempt /\ LoopOK(r)
      /\ r.state = o.state /\ r.key = o.key /\ r.worktree = TRUE /\ ~r.verified
    BY <1>1, <1>2, NextShows
<1>4. LoopAt(n) = "start" /\ LoopState(n)' = LoopState(n)
      /\ (rec[n].key /\ ~rec[n].verified)' = (rec[n].key /\ ~rec[n].verified)
      /\ (rec[n].worktree \/ rec[n].verified)' = TRUE
    BY <1>1, <1>3, Seen, SeenNext DEF Shown
<1> QED BY <1>3, <1>4 DEF Loop!Prepare

LEMMA IssueKeyShows ==
    ASSUME NEW n, NEW r, Shown(n, r), IssueKey(n)
    PROVE  Loop(n)!IssueKey /\ LoopOK(r)
<1> DEFINE o == rec[n]
<1>1. o \in NodeRecord /\ LoopOK(o) /\ ~o.verified /\ o.task = "issue"
    BY DEF Shown, LoopsInv, EpicInv, TypeOK, IssueKey, At
<1>2. r = [o EXCEPT !.task = "agent", !.state = "RUNNING", !.key = TRUE, !.attempts = @ + 1]
    BY DEF IssueKey, Go, Shown, EpicInv, TypeOK
<1>3. /\ r.task = "agent" /\ r.state = "RUNNING" /\ r.key = TRUE /\ r.carry = o.carry
      /\ r.worktree = o.worktree /\ ~r.verified /\ r.landing = o.landing
    BY <1>1, <1>2 DEF NodeRecord
<1>4. LoopOK(r)
    BY <1>1, <1>3 DEF LoopOK, InLoop, Plainly
<1> QED BY <1>1, <1>3, <1>4, Seen, SeenNext DEF Shown, InLoop, Plainly, Loop!IssueKey

\* A step that moves the task and what it carries, and nothing else.
Moved(n, r, t, c) ==
    /\ r.task = t /\ r.carry = c /\ r.state = rec[n].state /\ r.key = rec[n].key
    /\ r.worktree = rec[n].worktree /\ r.landing = rec[n].landing /\ r.verified = rec[n].verified

LEMMA MovesOnly ==
    ASSUME NEW n, NEW r, Shown(n, r), NEW t, NEW c, Moved(n, r, t, c)
    PROVE  /\ LoopState(n)' = LoopState(n)
           /\ (rec[n].key /\ ~rec[n].verified)' = (rec[n].key /\ ~rec[n].verified)
           /\ (rec[n].worktree \/ rec[n].verified)' = (rec[n].worktree \/ rec[n].verified)
           /\ t \in Plainly => LoopAt(n)' = t
           /\ t = "detect" => LoopAt(n)' = "agent"
           /\ t \in InLoop \ {"prep"} /\ rec[n].worktree => LoopOK(r)
           /\ t = "raised" => LoopAt(n)' = "raised" /\ LoopOK(r)
           /\ LoopCarry(n)' = IF t \in {"teardown", "sweep"} THEN c ELSE "none"
<1>1. /\ r.task = t /\ r.carry = c /\ r.state = rec[n].state /\ r.key = rec[n].key
      /\ r.worktree = rec[n].worktree /\ r.landing = rec[n].landing /\ r.verified = rec[n].verified
    BY DEF Moved
<1>2. LoopOK(rec[n]) /\ ~rec[n].verified /\ ~r.verified /\ n \in Nodes
    BY <1>1, OfLoop
<1>3. /\ LoopState(n) = rec[n].state /\ (rec[n].key /\ ~rec[n].verified) = rec[n].key
      /\ (rec[n].worktree \/ rec[n].verified) = rec[n].worktree
    BY <1>2, Seen DEF Shown
<1>4. /\ LoopState(n)' = r.state /\ (rec[n].key /\ ~rec[n].verified)' = r.key
      /\ (rec[n].worktree \/ rec[n].verified)' = r.worktree
      /\ LoopCarry(n)' = IF t \in {"teardown", "sweep"} THEN c ELSE "none"
      /\ t \in Plainly \cup {"raised"} => LoopAt(n)' = t
      /\ t = "detect" => LoopAt(n)' = "agent"
    BY <1>1, <1>2, SeenNext DEF Shown
<1>5. t \in InLoop \ {"prep"} /\ rec[n].worktree => LoopOK(r)
    BY <1>1, <1>2 DEF LoopOK, InLoop, Plainly
<1>6. t = "raised" => LoopOK(r)
    BY <1>1, <1>2 DEF LoopOK, InLoop, Plainly
<1> QED BY <1>1, <1>3, <1>4, <1>5, <1>6

\* What an attempt decides.
LEMMA DecidesShows ==
    ASSUME NEW n, NEW r, Shown(n, r), NEW c \in Carry,
           r = [rec[n] EXCEPT !.task = "teardown", !.carry = c],
           rec[n].task \in {"agent", "verify", "page", "parkclose"},
           c \in Loop(n)!Decides(rec[n].task)
    PROVE  Loop(n)!Decide /\ LoopOK(r)
<1>1. /\ n \in Nodes /\ rec[n].worktree /\ "teardown" \in Tasks /\ "teardown" \in Plainly /\ "teardown" \in InLoop \ {"prep"}
      /\ LoopAt(n) = rec[n].task
    BY OfLoop, Seen DEF Shown, LoopOK, InLoop, Plainly, Tasks
<1>m. Moved(n, r, "teardown", c)
    BY OfLoop DEF Moved, NodeRecord
<1>2. /\ LoopState(n)' = LoopState(n)
      /\ (rec[n].key /\ ~rec[n].verified)' = (rec[n].key /\ ~rec[n].verified)
      /\ (rec[n].worktree \/ rec[n].verified)' = (rec[n].worktree \/ rec[n].verified)
      /\ LoopAt(n)' = "teardown" /\ LoopOK(r) /\ LoopCarry(n)' = c
    BY <1>1, <1>m, MovesOnly
<1> QED BY <1>1, <1>2 DEF Loop!Decide

LEMMA AgentEndsShows ==
    ASSUME NEW n, NEW r, Shown(n, r), AgentEnds(n)
    PROVE  [Loop(n)!LoopNext]_(Loop(n)!loop) /\ LoopOK(r)
<1>1. /\ n \in Nodes /\ rec[n] \in NodeRecord /\ rec[n].task = "agent" /\ rec[n].worktree
      /\ "detect" \in InLoop \ {"prep"} /\ "killed" \in Carry /\ rec[n].carry \in Carry
      /\ LoopAt(n) = "agent" /\ LoopCarry(n) = "none"
    BY OfLoop, Seen DEF AgentEnds, At, Shown, LoopOK, InLoop, Plainly, Carry, NodeRecord
<1>2. CASE kill_requested
    <2> PICK c \in Carry : c = "killed"
        BY <1>1
    <2>1. r = [rec[n] EXCEPT !.task = "teardown", !.carry = c]
        BY <1>2, OfLoop DEF AgentEnds
    <2>2. c \in Loop(n)!Decides(rec[n].task)
        BY <1>1 DEF Loop!Decides
    <2>3. Loop(n)!Decide /\ LoopOK(r)
        BY <1>1, <2>1, <2>2, DecidesShows
    <2> QED BY <2>3, Zenon DEF Loop!LoopNext
<1>3. CASE ~kill_requested
    <2>0. r = [rec[n] EXCEPT !.task = "detect"]
        BY <1>3, OfLoop DEF AgentEnds
    <2>1. Moved(n, r, "detect", rec[n].carry)
        BY <1>1, <2>0 DEF Moved, NodeRecord
    <2>2. /\ LoopState(n)' = LoopState(n)
          /\ (rec[n].key /\ ~rec[n].verified)' = (rec[n].key /\ ~rec[n].verified)
          /\ (rec[n].worktree \/ rec[n].verified)' = (rec[n].worktree \/ rec[n].verified)
          /\ LoopAt(n)' = LoopAt(n) /\ LoopOK(r) /\ LoopCarry(n)' = LoopCarry(n)
        BY <1>1, <2>1, MovesOnly
    <2> QED BY <2>2, Zenon DEF Loop!loop
<1> QED BY <1>2, <1>3

LEMMA NothingAskedShows ==
    ASSUME NEW n, NEW r, Shown(n, r), NothingAsked(n)
    PROVE  Loop(n)!AgentEnds /\ LoopOK(r)
<1>1. /\ n \in Nodes /\ rec[n] \in NodeRecord /\ rec[n].task = "detect" /\ rec[n].worktree
      /\ "verify" \in Plainly /\ "verify" \in InLoop \ {"prep"} /\ rec[n].carry \in Carry
      /\ LoopAt(n) = "agent" /\ LoopCarry(n) = "none"
    BY OfLoop, Seen DEF NothingAsked, At, Shown, LoopOK, InLoop, Plainly, NodeRecord
<1>2. r = [rec[n] EXCEPT !.task = "verify"]
    BY OfLoop DEF NothingAsked
<1>3. Moved(n, r, "verify", rec[n].carry)
    BY <1>1, <1>2 DEF Moved, NodeRecord
<1>4. /\ LoopState(n)' = LoopState(n)
      /\ (rec[n].key /\ ~rec[n].verified)' = (rec[n].key /\ ~rec[n].verified)
      /\ (rec[n].worktree \/ rec[n].verified)' = (rec[n].worktree \/ rec[n].verified)
      /\ LoopAt(n)' = "verify" /\ LoopOK(r) /\ LoopCarry(n)' = "none"
    BY <1>1, <1>3, MovesOnly
<1> QED BY <1>1, <1>4 DEF Loop!AgentEnds

LEMMA AgentAsksShows ==
    ASSUME NEW n, NEW r, Shown(n, r), AgentAsks(n)
    PROVE  Loop(n)!AgentAsks /\ LoopOK(r)
<1> DEFINE o == rec[n]
<1>1. o \in NodeRecord /\ LoopOK(o) /\ ~o.verified /\ o.task = "detect"
    BY OfLoop DEF AgentAsks, At
<1>2. r = [o EXCEPT !.task = "parkclose", !.state = "WAITING_OPERATOR", !.asked = @ + 1]
    BY OfLoop DEF AgentAsks
<1>3. /\ r.task = "parkclose" /\ r.state = "WAITING_OPERATOR" /\ r.key = o.key /\ r.carry = o.carry
      /\ r.worktree = o.worktree /\ ~r.verified /\ r.landing = o.landing
    BY <1>1, <1>2 DEF NodeRecord
<1>4. LoopOK(r)
    BY <1>1, <1>3 DEF LoopOK, InLoop, Plainly
<1> QED BY <1>1, <1>3, <1>4, Seen, SeenNext DEF Shown, InLoop, Plainly, Loop!AgentAsks

LEMMA CloseForParkShows ==
    ASSUME NEW n, NEW r, Shown(n, r), CloseForPark(n)
    PROVE  Loop(n)!CloseForPark /\ LoopOK(r)
<1> DEFINE o == rec[n]
<1>1. o \in NodeRecord /\ LoopOK(o) /\ ~o.verified /\ o.task = "parkclose"
    BY OfLoop DEF CloseForPark, At
<1>2. r = [o EXCEPT !.task = "parked", !.key = FALSE]
    BY OfLoop DEF CloseForPark
<1>3. /\ r.task = "parked" /\ r.state = o.state /\ r.key = FALSE /\ r.carry = o.carry
      /\ r.worktree = o.worktree /\ ~r.verified /\ r.landing = o.landing
    BY <1>1, <1>2 DEF NodeRecord
<1>4. LoopOK(r)
    BY <1>1, <1>3 DEF LoopOK, InLoop, Plainly
<1> QED BY <1>1, <1>3, <1>4, Seen, SeenNext DEF Shown, InLoop, Plainly, Loop!CloseForPark

LEMMA UnparkShows ==
    ASSUME NEW n, NEW r, Shown(n, r), Unpark(n) \/ KillParked(n)
    PROVE  Loop(n)!Unpark /\ LoopOK(r)
<1>1. /\ rec[n] \in NodeRecord /\ LoopOK(rec[n]) /\ ~rec[n].verified /\ rec[n].task = "parked"
      /\ r = NextAttempt(rec[n]) \/ r = Killed(rec[n])
      /\ n \in Nodes
    BY OfLoop DEF Unpark, KillParked, At
<1>2. /\ rec[n].worktree /\ rec[n].landing = "NONE"
      /\ rec[n].state \in {"PENDING", "RUNNING", "WAITING_OPERATOR", "KILLED"}
    BY <1>1 DEF LoopOK, InLoop, Plainly
<1>3. /\ Loop(n)!NextAttempt /\ LoopOK(r)
      /\ r.state = rec[n].state /\ r.key = rec[n].key /\ r.worktree = rec[n].worktree /\ ~r.verified
    <2>1. CASE r = NextAttempt(rec[n])
        BY <1>1, <1>2, <2>1, NextShows
    <2>2. CASE r = Killed(rec[n])
        <3>1. /\ Loop(n)!Killed /\ LoopOK(r) /\ r.state = rec[n].state /\ r.key = rec[n].key
              /\ r.worktree = rec[n].worktree /\ ~r.verified
            BY <1>1, <1>2, <2>2, KilledShows
        <3> QED BY <3>1, Zenon DEF Loop!NextAttempt
    <2> QED BY <1>1, <2>1, <2>2
<1>4. LoopAt(n) = "parked" /\ LoopState(n)' = LoopState(n)
      /\ (rec[n].key /\ ~rec[n].verified)' = (rec[n].key /\ ~rec[n].verified)
      /\ (rec[n].worktree \/ rec[n].verified)' = (rec[n].worktree \/ rec[n].verified)
    BY <1>1, <1>3, Seen, SeenNext DEF Shown, InLoop, Plainly
<1> QED BY <1>3, <1>4 DEF Loop!Unpark

LEMMA DecideShows ==
    ASSUME NEW n, NEW r, Shown(n, r), NEW how \in {"retry", "passed", "killed"}, Decide(n, how)
    PROVE  Loop(n)!Decide /\ LoopOK(r)
<1>1. /\ rec[n].task = "verify" /\ how \in Carry
      /\ r = [rec[n] EXCEPT !.task = "teardown", !.carry = how]
    BY OfLoop DEF Decide, At, Carry
<1>2. how \in Loop(n)!Decides(rec[n].task)
    BY <1>1 DEF Loop!Decides
<1> QED BY <1>1, <1>2, DecidesShows

LEMMA EscalateShows ==
    ASSUME NEW n, NEW r, Shown(n, r), Escalate(n)
    PROVE  Loop(n)!LoopNext /\ LoopOK(r)
<1>1. /\ n \in Nodes /\ rec[n] \in NodeRecord /\ rec[n].task = "verify" /\ rec[n].worktree
      /\ "page" \in Tasks /\ "page" \in Plainly /\ "page" \in InLoop \ {"prep"} /\ "killed" \in Carry /\ rec[n].carry \in Carry
      /\ LoopAt(n) = "verify" /\ LoopCarry(n) = "none"
    BY OfLoop, Seen DEF Escalate, At, Shown, LoopOK, InLoop, Plainly, Tasks, Carry, NodeRecord
<1>2. CASE kill_requested
    <2> PICK c \in Carry : c = "killed"
        BY <1>1
    <2>1. r = [rec[n] EXCEPT !.task = "teardown", !.carry = c]
        BY <1>2, OfLoop DEF Escalate
    <2>2. c \in Loop(n)!Decides(rec[n].task)
        BY <1>1 DEF Loop!Decides
    <2>3. Loop(n)!Decide /\ LoopOK(r)
        BY <1>1, <2>1, <2>2, DecidesShows
    <2> QED BY <2>3, Zenon DEF Loop!LoopNext
<1>3. CASE ~kill_requested
    <2>0. r = [rec[n] EXCEPT !.task = "page"]
        BY <1>3, OfLoop DEF Escalate
    <2>1. Moved(n, r, "page", rec[n].carry)
        BY <1>1, <2>0 DEF Moved, NodeRecord
    <2>2. /\ LoopState(n)' = LoopState(n)
          /\ (rec[n].key /\ ~rec[n].verified)' = (rec[n].key /\ ~rec[n].verified)
          /\ (rec[n].worktree \/ rec[n].verified)' = (rec[n].worktree \/ rec[n].verified)
          /\ LoopAt(n)' = "page" /\ LoopOK(r) /\ LoopCarry(n)' = "none"
        BY <1>1, <2>1, MovesOnly
    <2> QED BY <1>1, <2>2 DEF Loop!Escalate, Loop!LoopNext
<1> QED BY <1>2, <1>3

LEMMA PageShows ==
    ASSUME NEW n, NEW r, Shown(n, r),
           PageLapses(n) \/ \E choice \in {"RETRY", "KILL", "PAUSE_EPIC", "KILL_EPIC"} : Press(n, choice)
    PROVE  Loop(n)!Decide /\ LoopOK(r)
<1>1. rec[n].task = "page"
    BY DEF PageLapses, Press, At
<1>2. \E c \in {"retry", "parked", "killed"} : r = [rec[n] EXCEPT !.task = "teardown", !.carry = c]
    BY OfLoop DEF PageLapses, Press
<1>3. PICK c \in {"retry", "parked", "killed"} : r = [rec[n] EXCEPT !.task = "teardown", !.carry = c]
    BY <1>2
<1>4. c \in Carry /\ c \in Loop(n)!Decides(rec[n].task)
    BY <1>1 DEF Loop!Decides, Carry
<1> QED BY <1>1, <1>3, <1>4, DecidesShows

LEMMA SweepShows ==
    ASSUME NEW n, NEW r, Shown(n, r), Sweep(n)
    PROVE  Loop(n)!Sweep /\ LoopOK(r)
<1> DEFINE o == rec[n]
<1>1. o \in NodeRecord /\ LoopOK(o) /\ ~o.verified /\ o.task = "sweep"
    BY OfLoop DEF Sweep, At
<1> DEFINE s == IF o.carry = "parked" THEN "WAITING_OPERATOR" ELSE "KILLED"
<1>2. r = [o EXCEPT !.task = "done", !.carry = "none", !.worktree = FALSE, !.state = s]
    BY OfLoop DEF Sweep
<1>3. /\ r.task = "done" /\ r.state = s /\ r.key = o.key /\ r.carry = "none"
      /\ r.worktree = FALSE /\ ~r.verified /\ r.landing = o.landing
    BY <1>1, <1>2 DEF NodeRecord
<1>4. LoopOK(r)
    BY <1>1, <1>3 DEF LoopOK, InLoop, Plainly
<1>5. LoopAt(n) = "sweep" /\ LoopCarry(n) = o.carry
    BY <1>1, Seen DEF Shown, InLoop, Plainly
<1>6. /\ LoopAt(n)' = "over" /\ LoopCarry(n)' = "none" /\ LoopState(n)' = s
      /\ (rec[n].worktree \/ rec[n].verified)' = FALSE
      /\ (rec[n].key /\ ~rec[n].verified)' = (rec[n].key /\ ~rec[n].verified)
    BY <1>1, <1>3, Seen, SeenNext DEF Shown
<1> QED BY <1>4, <1>5, <1>6 DEF Loop!Sweep

LEMMA TeardownShows ==
    ASSUME EpicInv, EpicInv', LoopsInv, NEW n \in Nodes, epic_state # "KILLED", epic_state' # "KILLED",
           ~rec[n].verified, Teardown(n)
    PROVE  Loop(n)!Teardown /\ LoopOK(rec'[n])
<1> DEFINE o == rec[n]
           q == [o EXCEPT !.key = FALSE]
<1> PICK r : r = rec'[n]
    OBVIOUS
<1>s. Shown(n, r)
    BY DEF Shown
<1>1. /\ o \in NodeRecord /\ LoopOK(o) /\ ~o.verified /\ o.task = "teardown" /\ o.worktree
      /\ o.landing = "NONE" /\ o.state \in {"PENDING", "RUNNING", "WAITING_OPERATOR", "KILLED"}
      /\ o.carry \in {"retry", "passed", "killed", "parked", "raise"}
    BY <1>s, OfLoop DEF Teardown, At, LoopOK, InLoop, Plainly
<1>2. /\ q \in NodeRecord /\ q.state = o.state /\ ~q.verified /\ q.worktree = o.worktree
      /\ q.landing = "NONE" /\ q.key = FALSE /\ q.carry = o.carry /\ q.task = "teardown"
    BY <1>1 DEF NodeRecord
<1>3. r = CASE q.carry = "retry"  -> NextAttempt(q)
            [] q.carry = "killed" -> Killed(q)
            [] q.carry = "parked" -> [q EXCEPT !.task = "sweep"]
            [] q.carry = "raise"  -> [q EXCEPT !.task = "raised", !.carry = "none"]
            [] q.carry = "passed" -> [q EXCEPT !.task = "finish", !.carry = "none",
                                               !.verified = TRUE, !.state = "PASSED"]
    BY <1>s, OfLoop DEF Teardown
<1> HIDE DEF q
<1>4. /\ LoopAt(n) = "teardown" /\ LoopCarry(n) = o.carry /\ LoopState(n) = o.state
      /\ (rec[n].worktree \/ rec[n].verified) = o.worktree
    BY <1>1, Seen DEF InLoop, Plainly
<1>5. ASSUME r.key = FALSE, r.state = o.state, r.worktree = o.worktree, ~r.verified
      PROVE  /\ LoopState(n)' = LoopState(n) /\ (rec[n].key /\ ~rec[n].verified)' = FALSE
             /\ (rec[n].worktree \/ rec[n].verified)' = (rec[n].worktree \/ rec[n].verified)
    BY <1>4, <1>5, SeenNext
<1>6. CASE o.carry = "retry"
    <2>1. r = NextAttempt(q)
        BY <1>2, <1>3, <1>6
    <2>2. /\ Loop(n)!NextAttempt /\ LoopOK(r)
          /\ r.state = q.state /\ r.key = q.key /\ r.worktree = q.worktree /\ ~r.verified
        BY <1>s, <1>1, <1>2, <2>1, NextShows
    <2> QED BY <1>2, <1>4, <1>5, <1>6, <2>2 DEF Loop!Teardown
<1>7. CASE o.carry = "killed"
    <2>1. r = Killed(q)
        BY <1>2, <1>3, <1>7
    <2>2. /\ Loop(n)!Killed /\ LoopOK(r)
          /\ r.state = q.state /\ r.key = q.key /\ r.worktree = q.worktree /\ ~r.verified
        BY <1>s, <1>1, <1>2, <2>1, KilledShows
    <2> QED BY <1>2, <1>4, <1>5, <1>7, <2>2 DEF Loop!Teardown
<1>8. CASE o.carry = "parked"
    <2>1. r = [q EXCEPT !.task = "sweep"]
        BY <1>2, <1>3, <1>8
    <2>2. /\ r.task = "sweep" /\ r.carry = "parked" /\ r.state = o.state /\ r.key = FALSE
          /\ r.worktree = o.worktree /\ ~r.verified /\ r.landing = "NONE"
        BY <1>2, <1>8, <2>1 DEF NodeRecord
    <2>3. LoopAt(n)' = "sweep" /\ LoopCarry(n)' = "parked" /\ LoopOK(r)
        BY <1>1, <2>2, SeenNext DEF LoopOK, InLoop, Plainly
    <2> QED BY <1>4, <1>5, <1>8, <2>2, <2>3 DEF Loop!Teardown
<1>9. CASE o.carry = "raise"
    <2>1. r = [q EXCEPT !.task = "raised", !.carry = "none"]
        BY <1>2, <1>3, <1>9
    <2>2. /\ r.task = "raised" /\ r.carry = "none" /\ r.state = o.state /\ r.key = FALSE
          /\ r.worktree = o.worktree /\ ~r.verified /\ r.landing = "NONE"
        BY <1>2, <2>1 DEF NodeRecord
    <2>3. LoopAt(n)' = "raised" /\ LoopCarry(n)' = "none" /\ LoopOK(r)
        BY <1>1, <2>2, SeenNext DEF LoopOK, InLoop, Plainly
    <2> QED BY <1>4, <1>5, <1>9, <2>2, <2>3 DEF Loop!Teardown
<1>10. CASE o.carry = "passed"
    <2>1. r = [q EXCEPT !.task = "finish", !.carry = "none", !.verified = TRUE, !.state = "PASSED"]
        BY <1>2, <1>3, <1>10
    <2>2. r.verified = TRUE /\ rec'[n].verified = TRUE
        BY <1>2, <2>1 DEF NodeRecord
    <2>3. /\ LoopAt(n)' = "passed" /\ LoopCarry(n)' = "none" /\ LoopState(n)' = "PASSED" /\ LoopOK(r)
          /\ (rec[n].key /\ ~rec[n].verified)' = FALSE /\ (rec[n].worktree \/ rec[n].verified)' = TRUE
        BY <2>2 DEF LoopAt, LoopCarry, LoopState, LoopOK
    <2>4. (rec[n].worktree \/ rec[n].verified) = TRUE
        BY <1>1
    <2> QED BY <1>4, <1>10, <2>3, <2>4 DEF Loop!Teardown
<1> QED BY <1>1, <1>6, <1>7, <1>8, <1>9, <1>10

LEMMA TaskRaisesShows ==
    ASSUME NEW n, NEW r, Shown(n, r), TaskRaises(n)
    PROVE  Loop(n)!LoopNext /\ LoopOK(r)
<1> DEFINE o == rec[n]
<1>1. /\ n \in Nodes /\ o \in NodeRecord /\ LoopOK(o) /\ ~o.verified
      /\ o.task \in InLoop
    BY OfLoop DEF TaskRaises, LoopOK
<1>2. CASE o.task \in {"agent", "verify", "page", "parkclose"}
    <2> PICK c \in {"raise"} : c = "raise"
        OBVIOUS
    <2>1. r = [o EXCEPT !.task = "teardown", !.carry = c]
        BY <1>2, OfLoop DEF TaskRaises
    <2>2. c \in Carry /\ c \in Loop(n)!Decides(o.task)
        BY <1>2 DEF Loop!Decides, Carry
    <2>3. Loop(n)!Decide /\ LoopOK(r)
        BY <1>1, <1>2, <2>1, <2>2, DecidesShows
    <2> QED BY <2>3, Zenon DEF Loop!LoopNext
<1>4. CASE o.task = "detect"
    <2> PICK c \in {"raise"} : c = "raise"
        OBVIOUS
    <2>1. r = [o EXCEPT !.task = "teardown", !.carry = c]
        BY <1>4, OfLoop DEF TaskRaises
    <2>2. Moved(n, r, "teardown", c)
        BY <1>1, <2>1 DEF Moved, NodeRecord
    <2>3. o.worktree /\ LoopAt(n) = "agent" /\ "teardown" \in Plainly /\ "teardown" \in InLoop \ {"prep"}
        BY <1>1, <1>4, Seen DEF Shown, LoopOK, InLoop, Plainly
    <2>4. /\ LoopState(n)' = LoopState(n)
          /\ (rec[n].key /\ ~rec[n].verified)' = (rec[n].key /\ ~rec[n].verified)
          /\ (rec[n].worktree \/ rec[n].verified)' = (rec[n].worktree \/ rec[n].verified)
          /\ LoopAt(n)' = "teardown" /\ LoopOK(r) /\ LoopCarry(n)' = c
        BY <2>2, <2>3, MovesOnly
    <2>5. Loop(n)!Decide
        BY <2>3, <2>4 DEF Loop!Decide, Loop!Decides
    <2> QED BY <2>4, <2>5, Zenon DEF Loop!LoopNext
<1>3. CASE o.task \in {"prep", "issue", "parked", "teardown", "sweep"}
    <2>1. r = [o EXCEPT !.task = "raised", !.carry = "none"]
        BY <1>3, OfLoop DEF TaskRaises
    <2>2. Moved(n, r, "raised", "none")
        BY <1>1, <2>1 DEF Moved, NodeRecord
    <2>3. /\ LoopState(n)' = LoopState(n)
          /\ (rec[n].key /\ ~rec[n].verified)' = (rec[n].key /\ ~rec[n].verified)
          /\ (rec[n].worktree \/ rec[n].verified)' = (rec[n].worktree \/ rec[n].verified)
          /\ LoopAt(n)' = "raised" /\ LoopOK(r) /\ LoopCarry(n)' = "none"
        BY <1>1, <2>2, MovesOnly
    <2>4. LoopAt(n) \in {"start", "issue", "parked", "teardown", "sweep"}
        BY <1>1, <1>3, Seen DEF Shown, InLoop, Plainly
    <2>5. Loop(n)!Raise
        BY <2>3, <2>4 DEF Loop!Raise
    <2> QED BY <2>3, <2>5, Zenon DEF Loop!LoopNext
<1> QED BY <1>1, <1>2, <1>3, <1>4 DEF InLoop, Plainly

-----------------------------------------------------------------------------
\* The steps of a node's own task, window, answer, poll and failure.

\* A pass is final.
LEMMA OwnPassStays ==
    ASSUME EpicInv, NEW m \in Nodes, rec[m].verified,
           Task(m) \/ Window(m) \/ Answer(m) \/ Poll(m) \/ Fault(m)
    PROVE  rec'[m].verified
<1> DEFINE o == rec[m]
<1>1. o \in NodeRecord /\ o.verified = TRUE /\ \A r : Go(m, r) => rec'[m] = r
    BY DEF EpicInv, TypeOK, Go, NodeRecord
<1>2. ASSUME NEW q \in NodeRecord, q.verified = TRUE
      PROVE  /\ Killed(q).verified = TRUE /\ NextAttempt(q).verified = TRUE
             /\ \A offer : LandingPage(q, offer).verified = TRUE
             /\ \A granted : run_recovery(q, granted).verified = TRUE
    <2>1. Killed(q).verified = TRUE
        BY <1>2 DEF Killed, NodeRecord
    <2>2. NextAttempt(q).verified = TRUE
        BY <1>2, <2>1 DEF NextAttempt, NodeRecord
    <2>3. \A offer : LandingPage(q, offer).verified = TRUE
        BY <1>2 DEF LandingPage, NodeRecord
    <2>4. \A granted : run_recovery(q, granted).verified = TRUE
        BY <1>2, <2>3 DEF run_recovery, NodeRecord
    <2> QED BY <2>1, <2>2, <2>3, <2>4
<1>3. CASE Prepare(m)
    <2>1. [o EXCEPT !.worktree = TRUE] \in NodeRecord /\ [o EXCEPT !.worktree = TRUE].verified = TRUE
        BY <1>1 DEF NodeRecord
    <2> QED BY <1>1, <1>2, <1>3, <2>1 DEF Prepare
<1>4. CASE IssueKey(m) \/ AgentEnds(m) \/ NothingAsked(m) \/ AgentAsks(m) \/ CloseForPark(m) \/ Escalate(m)
           \/ Sweep(m) \/ Finish(m) \/ \E how \in {"retry", "passed", "killed"} : Decide(m, how)
    BY ZenonT(40), <1>1, <1>4 DEF IssueKey, AgentEnds, NothingAsked, AgentAsks, CloseForPark, Escalate, Sweep, Finish,
           Decide, NodeRecord
<1>5. CASE Unpark(m) \/ KillParked(m)
    BY <1>1, <1>2, <1>5 DEF Unpark, KillParked
<1>6. CASE Teardown(m)
    <2> DEFINE q == [o EXCEPT !.key = FALSE]
    <2>1. q \in NodeRecord /\ q.verified = TRUE
        BY <1>1 DEF NodeRecord
    <2> PICK r : r = rec'[m]
        OBVIOUS
    <2>2. r = CASE q.carry = "retry"  -> NextAttempt(q)
                [] q.carry = "killed" -> Killed(q)
                [] q.carry = "parked" -> [q EXCEPT !.task = "sweep"]
                [] q.carry = "raise"  -> [q EXCEPT !.task = "raised", !.carry = "none"]
                [] q.carry = "passed" -> [q EXCEPT !.task = "finish", !.carry = "none",
                                                   !.verified = TRUE, !.state = "PASSED"]
        BY <1>1, <1>6 DEF Teardown
    <2>3. q.carry \in {"retry", "passed", "killed", "parked", "raise"}
        BY <1>1, <1>6 DEF EpicInv, LocalOK, CarryOK, Teardown, At, NodeRecord
    <2>4. /\ [q EXCEPT !.task = "sweep"].verified = TRUE
          /\ [q EXCEPT !.task = "raised", !.carry = "none"].verified = TRUE
          /\ [q EXCEPT !.task = "finish", !.carry = "none", !.verified = TRUE,
                       !.state = "PASSED"].verified = TRUE
        BY <2>1 DEF NodeRecord
    <2> HIDE DEF q
    <2>5. r.verified = TRUE
        BY <1>2, <2>1, <2>2, <2>3, <2>4
    <2> QED BY <2>5
<1>7. CASE PageLapses(m) \/ LandingPageLapses(m)
           \/ \E choice \in {"RETRY", "KILL", "PAUSE_EPIC", "KILL_EPIC"} :
                 Press(m, choice) \/ PressRef(m, choice)
    BY ZenonT(40), <1>1, <1>7 DEF PageLapses, LandingPageLapses, Press, PressRef, NodeRecord
<1>8. CASE OpenPr(m) \/ RefConflict(m) \/ Enqueue(m) \/ Park(m) \/ Unland(m)
    BY ZenonT(40), <1>1, <1>8 DEF OpenPr, RefConflict, Enqueue, Park, Unland, NodeRecord
<1>9. CASE EnqueueRefused(m) \/ SyncRefused(m)
    BY ZenonT(40), <1>1, <1>2, <1>9 DEF EnqueueRefused, SyncRefused, NodeRecord
<1>10. CASE \E clean \in BOOLEAN : Sync(m, clean)
    BY ZenonT(40), <1>1, <1>2, <1>10 DEF Sync, NodeRecord
<1>11. CASE RecoveryIssueKey(m) \/ RecoveryAgentEnds(m)
            \/ \E how \in {"passed", "killed"} : RecoveryDecides(m, how)
    BY <1>1, <1>11 DEF RecoveryIssueKey, RecoveryAgentEnds, RecoveryDecides, NodeRecord
<1>12. CASE RecoveryTeardown(m)
    <2> DEFINE q == [o EXCEPT !.key = FALSE]
    <2>1. q \in NodeRecord /\ q.verified = TRUE
        BY <1>1 DEF NodeRecord
    <2> PICK r : r = rec'[m]
        OBVIOUS
    <2>2. r = CASE q.carry = "passed" -> [q EXCEPT !.task = "compare", !.carry = "none"]
                [] q.carry = "raise"  -> [q EXCEPT !.task = "raised", !.carry = "none"]
                [] OTHER              -> LandingPage(q, Offer(q))
        BY <1>1, <1>12 DEF RecoveryTeardown
    <2>3. /\ [q EXCEPT !.task = "compare", !.carry = "none"].verified = TRUE
          /\ [q EXCEPT !.task = "raised", !.carry = "none"].verified = TRUE
          /\ LandingPage(q, Offer(q)).verified = TRUE
        BY <1>2, <2>1 DEF NodeRecord
    <2> HIDE DEF q
    <2>4. r.verified = TRUE
        BY <2>2, <2>3
    <2> QED BY <2>4
<1>13. CASE \E identical \in BOOLEAN : Compare(m, identical)
    BY ZenonT(40), <1>1, <1>2, <1>13 DEF Compare, NodeRecord
<1>14. CASE RetryLanding(m) \/ \E choice \in {"KILL", "PAUSE_EPIC", "KILL_EPIC"} : EndLanding(m, choice)
    BY ZenonT(40), <1>1, <1>2, <1>14 DEF RetryLanding, EndLanding, NodeRecord
<1>15. CASE Poll(m) \/ PollStops(m)
    BY <1>1, <1>15 DEF Poll, PollSeesKill, PollEnds, PollDecides, PollRejects, PollStops, NodeRecord
<1>16. CASE TaskRaises(m)
    BY <1>1, <1>16 DEF TaskRaises, NodeRecord
<1>17. Stop(m) => KillParked(m) \/ PageLapses(m) \/ LandingPageLapses(m)
    BY DEF Stop
<1>18. Window(m) => Unpark(m) \/ PageLapses(m) \/ Press(m, "PAUSE_EPIC") \/ LandingPageLapses(m)
    BY DEF Window
<1>19. CASE Task(m)
    BY <1>3, <1>4, <1>5, <1>6, <1>7, <1>8, <1>9, <1>10, <1>11, <1>12, <1>13, <1>17, <1>19, Zenon
       DEF Task
<1>20. CASE Window(m)
    BY <1>5, <1>7, <1>18, <1>20
<1>21. CASE Answer(m)
    BY <1>7, <1>14, <1>21 DEF Answer
<1> QED BY <1>15, <1>16, <1>19, <1>20, <1>21 DEF Fault

LEMMA OwnShows ==
    ASSUME EpicInv, EpicInv', LoopsInv, NEW n \in Nodes, epic_state # "KILLED", epic_state' # "KILLED",
           ~rec[n].verified, Task(n) \/ Window(n) \/ Answer(n) \/ Poll(n) \/ Fault(n)
    PROVE  [Loop(n)!LoopNext]_(Loop(n)!loop) /\ LoopOK(rec'[n])
<1> PICK r : r = rec'[n]
    OBVIOUS
<1>1. Shown(n, r)
    BY DEF Shown
<1>2. /\ rec[n].task \in InLoop \cup {"none", "done", "raised"} /\ rec[n].poll = "none"
    BY <1>1, OfLoop DEF LoopOK
<1>3. CASE Prepare(n)
    BY <1>1, <1>3, PrepareShows, Zenon DEF Loop!LoopNext
<1>4. CASE IssueKey(n)
    BY <1>1, <1>4, IssueKeyShows, Zenon DEF Loop!LoopNext
<1>5. CASE AgentEnds(n) \/ Escalate(n) \/ TaskRaises(n)
    BY <1>1, <1>5, AgentEndsShows, EscalateShows, TaskRaisesShows, Zenon
<1>6. CASE NothingAsked(n) \/ AgentAsks(n)
    BY <1>1, <1>6, NothingAskedShows, AgentAsksShows, Zenon DEF Loop!LoopNext
<1>7. CASE CloseForPark(n)
    BY <1>1, <1>7, CloseForParkShows, Zenon DEF Loop!LoopNext
<1>8. CASE Unpark(n) \/ KillParked(n)
    BY <1>1, <1>8, UnparkShows, Zenon DEF Loop!LoopNext
<1>9. CASE \E how \in {"retry", "passed", "killed"} : Decide(n, how)
    <2>1. Loop(n)!Decide /\ LoopOK(r)
        BY <1>1, <1>9, DecideShows, Zenon
    <2> QED BY <2>1, Zenon DEF Loop!LoopNext
<1>10. CASE PageLapses(n) \/ \E choice \in {"RETRY", "KILL", "PAUSE_EPIC", "KILL_EPIC"} : Press(n, choice)
    <2>1. Loop(n)!Decide /\ LoopOK(r)
        BY <1>1, <1>10, PageShows, Zenon
    <2> QED BY <2>1, Zenon DEF Loop!LoopNext
<1>11. CASE Teardown(n)
    BY <1>11, TeardownShows, Zenon DEF Loop!LoopNext
<1>12. CASE Sweep(n)
    BY <1>1, <1>12, SweepShows, Zenon DEF Loop!LoopNext
<1>13. ~(Finish(n) \/ OpenPr(n) \/ RefConflict(n) \/ Enqueue(n) \/ EnqueueRefused(n) \/ Park(n)
         \/ Unland(n) \/ SyncRefused(n) \/ RecoveryIssueKey(n) \/ RecoveryAgentEnds(n)
         \/ RecoveryTeardown(n) \/ LandingPageLapses(n) \/ RetryLanding(n))
    BY <1>2 DEF InLoop, Plainly, At, Finish, OpenPr, RefConflict, Enqueue, EnqueueRefused, Park, Unland,
           SyncRefused, RecoveryIssueKey, RecoveryAgentEnds, RecoveryTeardown, LandingPageLapses,
           RetryLanding
<1>14. /\ \A how : ~RecoveryDecides(n, how) /\ ~Sync(n, how) /\ ~Compare(n, how)
       /\ \A choice : ~PressRef(n, choice) /\ ~EndLanding(n, choice)
    BY <1>2 DEF InLoop, Plainly, At, RecoveryDecides, Sync, Compare, PressRef, EndLanding
<1>15. ~Poll(n) /\ ~PollStops(n)
    BY <1>2 DEF Poll, PollSeesKill, PollEnds, PollDecides, PollRejects, Polling, PollStops
<1>16. Stop(n) => KillParked(n) \/ PageLapses(n) \/ LandingPageLapses(n)
    BY DEF Stop
<1>17. CASE Task(n)
    BY <1>3, <1>4, <1>5, <1>6, <1>7, <1>8, <1>9, <1>10, <1>11, <1>12, <1>13, <1>14, <1>16, <1>17,
       Zenon DEF Task
<1>18. CASE Window(n)
    BY <1>8, <1>10, <1>13, <1>18 DEF Window
<1>19. CASE Answer(n)
    BY <1>10, <1>13, <1>14, <1>19 DEF Answer
<1> QED BY <1>5, <1>15, <1>17, <1>18, <1>19 DEF Fault

-----------------------------------------------------------------------------
\* The scheduler's steps.

\* A step that leaves what the loop shows of a node as it was.
LEMMA SameShows ==
    ASSUME NEW n \in Nodes, epic_state # "KILLED", epic_state' # "KILLED", NEW o, NEW r,
           o = rec[n], r = rec'[n],
           r.task = o.task, r.carry = o.carry, r.state = o.state, r.key = o.key,
           r.worktree = o.worktree, r.landing = o.landing, r.verified = o.verified
    PROVE  UNCHANGED Loop(n)!loop /\ (LoopOK(o) => LoopOK(r))
<1>1. LoopAt(n)' = LoopAt(n)
    BY DEF LoopAt, LeftOver
<1>2. LoopCarry(n)' = LoopCarry(n) /\ LoopState(n)' = LoopState(n)
    BY <1>1 DEF LoopCarry, LoopState
<1>3. LoopOK(o) => LoopOK(r)
    BY DEF LoopOK
<1>4. /\ (rec[n].key /\ ~rec[n].verified)' = (rec[n].key /\ ~rec[n].verified)
      /\ (rec[n].worktree \/ rec[n].verified)' = (rec[n].worktree \/ rec[n].verified)
    OBVIOUS
<1> QED BY <1>1, <1>2, <1>3, <1>4, Zenon DEF Loop!loop

LEMMA DispatchShows ==
    ASSUME EpicInv, EpicInv', LoopsInv, Dispatch, NEW n \in Nodes,
           epic_state # "KILLED", epic_state' # "KILLED", ~rec[n].verified
    PROVE  UNCHANGED Loop(n)!loop /\ LoopOK(rec'[n])
<1> PICK o : o = rec[n]
    OBVIOUS
<1> PICK r : r = rec'[n]
    OBVIOUS
<1>1. PICK S \in SUBSET (ready_set \ in_flight) :
        rec' = [k \in Nodes |-> Dispatched(k, S)]
    BY DEF Dispatch, Dispatched
<1>2. r = Dispatched(n, S) /\ o \in NodeRecord /\ LoopOK(o) /\ o.landing = "NONE"
    BY <1>1 DEF EpicInv, TypeOK, LoopsInv, LoopOK
<1>3. CASE n \notin S
    BY <1>2, <1>3, UntouchedStays DEF Dispatched
<1>4. CASE n \in S
    <2>1. n \notin Recoverable /\ o.state = "PENDING" /\ o.task = "none"
        BY <1>2, <1>4 DEF Recoverable, ready_set, in_flight
    <2>2. r = [o EXCEPT !.task = "prep"]
        BY <1>2, <1>4, <2>1 DEF Dispatched
    <2>3. /\ r.task = "prep" /\ r.carry = o.carry /\ r.state = o.state /\ r.key = o.key
          /\ r.worktree = o.worktree /\ r.landing = o.landing /\ r.verified = o.verified /\ ~r.verified
        BY <1>2, <2>2 DEF NodeRecord
    <2>4. LoopOK(r)
        BY <1>2, <2>1, <2>3 DEF LoopOK, InLoop, Plainly
    <2>5. LoopAt(n) = "start" /\ LoopAt(n)' = "start"
        BY <2>1, <2>3, Seen, SeenNext
    <2>6. LoopCarry(n)' = LoopCarry(n) /\ LoopState(n)' = LoopState(n)
        BY <2>1, <2>3, Seen, SeenNext
    <2>7. /\ (rec[n].key /\ ~rec[n].verified)' = (rec[n].key /\ ~rec[n].verified)
          /\ (rec[n].worktree \/ rec[n].verified)' = (rec[n].worktree \/ rec[n].verified)
        BY <2>3
    <2> QED BY <2>4, <2>5, <2>6, <2>7, Zenon DEF Loop!loop
<1> QED BY <1>3, <1>4

LEMMA ReapShows ==
    ASSUME EpicInv, EpicInv', LoopsInv, NEW S \in SUBSET Finished, reap_finished(S), NEW n \in Nodes,
           epic_state # "KILLED", epic_state' # "KILLED", ~rec[n].verified
    PROVE  [Loop(n)!LoopNext]_(Loop(n)!loop) /\ LoopOK(rec'[n])
<1> PICK o : o = rec[n]
    OBVIOUS
<1> PICK r : r = rec'[n]
    OBVIOUS
<1>1. PICK s \in NodeState, t \in Tasks, c \in Carry : ReapsTo(n, S, s, t, c)
    BY ReapedIs
<1>2. o \in NodeRecord /\ LoopOK(o) /\ ~o.verified
    BY DEF EpicInv, TypeOK, LoopsInv
<1>3. r = [o EXCEPT !.state = s, !.task = t, !.carry = c]
    BY <1>1 DEF ReapsTo
<1>4. /\ r.state = s /\ r.task = t /\ r.carry = c /\ r.key = o.key /\ ~r.verified
      /\ r.worktree = o.worktree /\ r.landing = o.landing /\ r.verified = o.verified
    BY <1>2, <1>3 DEF NodeRecord
<1>5. /\ \/ n \in S /\ t = "none" /\ c = "none" /\ o.task \in {"done", "raised"}
         \/ n \notin S /\ t = o.task /\ c = o.carry
      /\ s = o.state \/ (s = "KILLED" /\ ((n \in S /\ o.task = "raised") \/ o.state = "PENDING"))
      /\ n \in S /\ o.task = "raised" => s = "KILLED"
    BY <1>1 DEF ReapsTo
<1>6. LoopOK(r)
    BY <1>2, <1>4, <1>5 DEF LoopOK, InLoop, Plainly
<1>7. LoopState(n) = o.state /\ LoopState(n)' = s
    BY <1>2, <1>4, Seen, SeenNext
<1>8. /\ (rec[n].key /\ ~rec[n].verified)' = (rec[n].key /\ ~rec[n].verified)
      /\ (rec[n].worktree \/ rec[n].verified)' = (rec[n].worktree \/ rec[n].verified)
    BY <1>2, <1>4
<1>9. CASE n \in S /\ o.task = "raised"
    <2>1. LoopAt(n) = "raised" /\ LoopAt(n)' = "over" /\ s = "KILLED"
        BY <1>2, <1>4, <1>5, <1>9, Seen, SeenNext
    <2>2. LoopCarry(n) = "none" /\ LoopCarry(n)' = "none"
        BY <2>1 DEF LoopCarry
    <2>3. Loop(n)!Reap
        BY <1>7, <1>8, <2>1, <2>2 DEF Loop!Reap
    <2> QED BY <1>6, <2>3, Zenon DEF Loop!LoopNext
<1>10. CASE n \in S /\ o.task = "done"
    <2>1. o.state \in {"WAITING_OPERATOR", "KILLED"} /\ s = o.state /\ t = "none"
        BY <1>2, <1>5, <1>10 DEF LoopOK
    <2>2. LoopAt(n) = "over" /\ LoopAt(n)' = "over"
        BY <1>2, <1>4, <1>10, <2>1, Seen, SeenNext
    <2>3. LoopCarry(n)' = LoopCarry(n)
        BY <2>2 DEF LoopCarry
    <2>4. UNCHANGED Loop(n)!loop
        BY <1>7, <1>8, <2>1, <2>2, <2>3, Zenon DEF Loop!loop
    <2> QED BY <1>6, <2>4
<1>11. CASE n \notin S /\ s = o.state
    <2>1. UNCHANGED Loop(n)!loop
        BY <1>2, <1>4, <1>5, <1>11, SameShows
    <2> QED BY <1>6, <2>1
<1>12. CASE n \notin S /\ s # o.state
    <2>1. o.state = "PENDING" /\ s = "KILLED" /\ t = o.task /\ c = o.carry
        BY <1>5, <1>12
    <2>2. o.task # "done" /\ o.task \in InLoop \cup {"none", "raised"}
        BY <1>2, <2>1 DEF LoopOK
    <2>3. CASE o.task = "none"
        <3>1. LoopAt(n) = "start" /\ LoopAt(n)' = "over"
            BY <1>2, <1>4, <2>1, <2>3, Seen, SeenNext
        <3>2. LoopCarry(n)' = LoopCarry(n)
            BY <3>1 DEF LoopCarry
        <3>3. Loop(n)!LockOut
            BY <1>7, <1>8, <2>1, <3>1, <3>2 DEF Loop!LockOut
        <3> QED BY <1>6, <3>3, Zenon DEF Loop!LoopNext
    <2>4. CASE o.task # "none"
        <3>1. LoopAt(n)' = LoopAt(n)
            BY <1>2, <1>4, <2>1, <2>2, <2>4, Seen, SeenNext DEF InLoop, Plainly
        <3>2. LoopCarry(n)' = LoopCarry(n)
            BY <1>4, <2>1, <3>1 DEF LoopCarry
        <3>3. Loop(n)!LockOut
            BY <1>7, <1>8, <2>1, <3>1, <3>2 DEF Loop!LockOut
        <3> QED BY <1>6, <3>3, Zenon DEF Loop!LoopNext
    <2> QED BY <2>3, <2>4
<1> QED BY <1>5, <1>9, <1>10, <1>11, <1>12

LEMMA kill_remainingShows ==
    ASSUME EpicInv, EpicInv', LoopsInv, kill_remaining, NEW n \in Nodes,
           epic_state # "KILLED", ~rec[n].verified
    PROVE  Loop(n)!LoopNext /\ LoopOK(rec'[n])
<1> PICK o : o = rec[n]
    OBVIOUS
<1> PICK r : r = rec'[n]
    OBVIOUS
<1>1. o \in NodeRecord /\ LoopOK(o) /\ ~o.verified
    BY DEF EpicInv, TypeOK, LoopsInv
<1>2. o.state \in {"PENDING", "RUNNING", "WAITING_OPERATOR", "KILLED"}
    BY <1>1 DEF LoopOK
<1>3. r = [o EXCEPT !.state = "KILLED"]
    <2>1. r = [o EXCEPT !.state = IF o.state \in TERMINAL_STATES THEN o.state ELSE "KILLED"]
        BY DEF kill_remaining
    <2> QED BY <1>2, <2>1 DEF TERMINAL_STATES
<1>4. /\ r.state = "KILLED" /\ r.task = o.task /\ r.carry = o.carry /\ r.key = o.key
      /\ r.worktree = o.worktree /\ r.landing = o.landing /\ r.verified = o.verified /\ ~r.verified
    BY <1>1, <1>3 DEF NodeRecord
<1>5. LoopOK(r)
    BY <1>1, <1>4 DEF LoopOK
<1>6. LoopAt(n)' = "over" /\ LoopCarry(n)' = "none" /\ LoopState(n)' = "KILLED"
    <2>1. epic_state' = "KILLED"
        BY DEF kill_remaining
    <2>2. LoopAt(n)' = "over"
        BY <1>4, <2>1 DEF LoopAt, LeftOver
    <2>3. LoopCarry(n)' = "none"
        BY <2>2 DEF LoopCarry
    <2>4. LoopState(n)' = "KILLED"
        BY <1>4 DEF LoopState
    <2> QED BY <2>2, <2>3, <2>4
<1>7. /\ (rec[n].key /\ ~rec[n].verified)' = (rec[n].key /\ ~rec[n].verified)
      /\ (rec[n].worktree \/ rec[n].verified)' = (rec[n].worktree \/ rec[n].verified)
    BY <1>4
<1>8. CASE o.task = "none" /\ o.state = "PENDING"
    <2>1. LoopAt(n) = "start" /\ LoopState(n) = "PENDING" /\ LoopCarry(n) = "none"
        BY <1>1, <1>8, Seen
    <2>2. Loop(n)!LockOut
        BY <1>6, <1>7, <2>1 DEF Loop!LockOut
    <2> QED BY <1>5, <2>2, Zenon DEF Loop!LoopNext
<1>9. CASE ~(o.task = "none" /\ o.state = "PENDING")
    <2>1. o.task # "none" => Lingering(o)
        BY DEF kill_remaining, EpicInv, KillInv, in_flight
    <2>2. Loop(n)!Abandoned
        <3>1. CASE o.task \in {"none", "done"}
            <4>1. LoopAt(n) = "over"
                BY <1>1, <1>9, <3>1, Seen
            <4> QED BY <4>1 DEF Loop!Abandoned
        <3>2. CASE o.task \in {"raised", "parkclose", "parked", "issue", "agent", "sweep"}
            <4>1. LoopAt(n) = o.task
                BY <1>1, <3>2, Seen DEF InLoop, Plainly
            <4> QED BY <3>2, <4>1 DEF Loop!Abandoned
        <3>3. CASE o.task = "teardown" /\ o.carry \in {"killed", "raise"}
            <4>1. LoopAt(n) = "teardown" /\ LoopCarry(n) = o.carry
                BY <1>1, <3>3, Seen DEF InLoop, Plainly
            <4> QED BY <3>3, <4>1 DEF Loop!Abandoned
        <3>4. o.landing = "NONE"
            BY <1>1 DEF LoopOK
        <3> QED BY <2>1, <3>1, <3>2, <3>3, <3>4 DEF Lingering
    <2>3. Loop(n)!kill_remaining
        BY <1>6, <1>7, <2>2 DEF Loop!kill_remaining
    <2> QED BY <1>5, <2>3, Zenon DEF Loop!LoopNext
<1> QED BY <1>8, <1>9

LEMMA SchedulerShows ==
    ASSUME EpicInv, EpicInv', LoopsInv, Scheduler, NEW n \in Nodes,
           epic_state # "KILLED", ~rec[n].verified
    PROVE  [Loop(n)!LoopNext]_(Loop(n)!loop) /\ LoopOK(rec'[n])
<1>1. rec[n] \in NodeRecord /\ rec[n].landing = "NONE" /\ LoopOK(rec[n])
    BY DEF EpicInv, TypeOK, LoopsInv, LoopOK
<1>2. CASE Dispatch
    <2>1. epic_state' # "KILLED"
        BY <1>2 DEF Dispatch
    <2> QED BY <1>2, <2>1, DispatchShows
<1>3. CASE WakeBusy
    <2>1. epic_state' # "KILLED" /\ Finished \in SUBSET Finished /\ reap_finished(Finished)
        BY <1>3 DEF WakeBusy
    <2> QED BY <2>1, ReapShows
<1>4. CASE drain_in_flight
    <2>1. epic_state' # "KILLED" /\ drainable \cap Finished \in SUBSET Finished
          /\ reap_finished(drainable \cap Finished)
        BY <1>4 DEF drain_in_flight
    <2> QED BY <2>1, ReapShows
<1>5. CASE WakeIdle \/ BeginDrain \/ ParkScheduler \/ WakePaused
    <2>1. epic_state' # "KILLED" /\ rec' = rec
        BY <1>5 DEF WakeIdle, BeginDrain, ParkScheduler, WakePaused
    <2>2. UNCHANGED Loop(n)!loop
        BY <2>1, UntouchedStays
    <2> QED BY <1>1, <2>1, <2>2
<1>6. CASE CancelPolls
    <2> PICK o : o = rec[n]
        OBVIOUS
    <2> PICK r : r = rec'[n]
        OBVIOUS
    <2>1. epic_state' # "KILLED" /\ r = [o EXCEPT !.poll = "none"]
        BY <1>6 DEF CancelPolls
    <2>2. /\ r.task = o.task /\ r.carry = o.carry /\ r.state = o.state /\ r.key = o.key
          /\ r.worktree = o.worktree /\ r.landing = o.landing /\ r.verified = o.verified
        BY <1>1, <2>1 DEF NodeRecord
    <2>3. UNCHANGED Loop(n)!loop /\ (LoopOK(o) => LoopOK(r))
        BY <2>1, <2>2, SameShows
    <2> QED BY <1>1, <2>3
<1>7. CASE \E m \in Nodes : kill_landings(m)
    <2>1. PICK m \in Nodes : kill_landings(m)
        BY <1>7
    <2>2. m # n
        BY <1>1, <2>1 DEF kill_landings, LANDING_TERMINAL
    <2>3. rec'[n] = rec[n] /\ epic_state' # "KILLED"
        BY <2>1, <2>2 DEF kill_landings, shell, EpicInv, TypeOK
    <2>4. UNCHANGED Loop(n)!loop
        BY <2>3, UntouchedStays
    <2> QED BY <1>1, <2>3, <2>4
<1>8. CASE kill_remaining
    BY <1>8, kill_remainingShows
<1> QED BY <1>2, <1>3, <1>4, <1>5, <1>6, <1>7, <1>8 DEF Scheduler

LEMMA DispatchPassStays ==
    ASSUME EpicInv, Dispatch, NEW n \in Nodes
    PROVE  rec'[n].verified = rec[n].verified
<1>1. PICK S \in SUBSET (ready_set \ in_flight) :
        rec' = [k \in Nodes |-> Dispatched(k, S)]
    BY DEF Dispatch, Dispatched
<1>2. PICK r : r = rec'[n]
    OBVIOUS
<1>3. r = Dispatched(n, S) /\ S \in SUBSET (ready_set \ in_flight)
    BY <1>1, <1>2
<1>4. r.verified = rec[n].verified
    BY <1>3, DispatchedIs
<1> QED BY <1>2, <1>4

\* A pass is final, whoever steps.
LEMMA PassStays ==
    ASSUME EpicInv, [Next]_vars, NEW n \in Nodes, rec[n].verified
    PROVE  rec'[n].verified
<1>1. rec[n] \in NodeRecord
    BY DEF EpicInv, TypeOK
<1>2. CASE \E m \in Nodes : Task(m) \/ Window(m) \/ Answer(m) \/ Poll(m) \/ Fault(m)
    <2>1. PICK m \in Nodes : Task(m) \/ Window(m) \/ Answer(m) \/ Poll(m) \/ Fault(m)
        BY <1>2
    <2>2. Others(m)
        BY <2>1, TaskIsOwn, OperatorIsOwn, PollIsOwn DEF Fault, EpicInv
    <2>3. m = n => rec'[n].verified
        BY <2>1, OwnPassStays
    <2> QED BY <2>2, <2>3 DEF Others
<1>3. CASE Dispatch
    BY <1>3, DispatchPassStays
<1>4. ASSUME NEW S \in SUBSET Finished, reap_finished(S)
      PROVE  rec'[n].verified
    <2>1. PICK s \in NodeState, t \in Tasks, c \in Carry : ReapsTo(n, S, s, t, c)
        BY <1>4, ReapedIs
    <2> QED BY <1>1, <2>1 DEF ReapsTo, NodeRecord
<1>5. CASE WakeBusy \/ drain_in_flight
    <2>1. CASE WakeBusy
        BY <1>4, <2>1 DEF WakeBusy
    <2>2. CASE drain_in_flight
        <3>1. drainable \cap Finished \in SUBSET Finished /\ reap_finished(drainable \cap Finished)
            BY <2>2 DEF drain_in_flight
        <3> QED BY <1>4, <3>1
    <2> QED BY <1>5, <2>1, <2>2
<1>6. CASE WakeIdle \/ BeginDrain \/ ParkScheduler \/ WakePaused
    BY <1>6 DEF WakeIdle, BeginDrain, ParkScheduler, WakePaused
<1>7. CASE CancelPolls \/ kill_remaining
    BY <1>1, <1>7 DEF CancelPolls, kill_remaining, NodeRecord
<1>8. CASE \E m \in Nodes : kill_landings(m)
    BY <1>1, <1>8 DEF kill_landings, NodeRecord, EpicInv, TypeOK
<1>9. CASE pause_epic \/ resume_epic \/ kill_epic \/ LeaseTaken \/ LeaseReturned \/ UNCHANGED vars
    BY <1>9 DEF pause_epic, resume_epic, kill_epic, LeaseTaken, LeaseReturned, vars
<1> QED BY <1>2, <1>3, <1>5, <1>6, <1>7, <1>8, <1>9 DEF Next, Scheduler

\* A node's own steps wait for the scheduler, and never report the epic killed.
LEMMA OwnSuspended ==
    ASSUME NEW m \in Nodes, Task(m) \/ Window(m) \/ Answer(m) \/ Poll(m) \/ Fault(m)
    PROVE  Suspended /\ epic_state' \in {epic_state, "PAUSED"}
<1>1. CASE Task(m)
    BY <1>1 DEF Task, Prepare, IssueKey, AgentEnds, NothingAsked, AgentAsks, Decide, Escalate, CloseForPark,
           Stop, KillParked, PageLapses, LandingPageLapses, Teardown, Sweep, Finish, OpenPr,
           RefConflict, Enqueue, EnqueueRefused, Park, Unland, SyncRefused, Sync,
           RecoveryIssueKey, RecoveryAgentEnds, RecoveryDecides, RecoveryTeardown, Compare,
           At, shell
<1>2. CASE Window(m) \/ Answer(m)
    BY <1>2 DEF Window, Answer, Unpark, PageLapses, LandingPageLapses, Press, PressRef,
           RetryLanding, EndLanding, At, shell
<1>3. CASE Poll(m) \/ Fault(m)
    BY <1>3 DEF Poll, Fault, PollSeesKill, PollEnds, PollDecides, PollRejects, PollStops,
           TaskRaises, Polling, shell
<1> QED BY <1>1, <1>2, <1>3

\* Only its own end reports a killed epic, and nothing runs behind it.
LEMMA EndIsLast ==
    ASSUME EpicInv, [Next]_vars
    PROVE  /\ epic_state = "KILLED" => UNCHANGED vars
           /\ epic_state' = "KILLED" => epic_state = "KILLED" \/ kill_remaining
<1>1. epic_state = "KILLED" => sched = "ended"
    BY DEF EpicInv, ShellInv
<1>3. CASE \E m \in Nodes : Task(m) \/ Window(m) \/ Answer(m) \/ Poll(m) \/ Fault(m)
    <2>1. Suspended /\ epic_state' \in {epic_state, "PAUSED"}
        BY <1>3, OwnSuspended
    <2> QED BY <1>1, <2>1 DEF Suspended, EpicInv, ShellInv
<1>4. CASE Scheduler
    <2>1. sched # "ended"
        BY <1>4 DEF Scheduler, Dispatch, WakeBusy, WakeIdle, BeginDrain, drain_in_flight,
               ParkScheduler, WakePaused, CancelPolls, kill_landings, kill_remaining
    <2>2. epic_state' \in {epic_state, "COMPLETED", "PAUSED", "RUNNING"} \/ kill_remaining
        BY <1>4 DEF Scheduler, Dispatch, WakeBusy, WakeIdle, BeginDrain, drain_in_flight,
               ParkScheduler, WakePaused, CancelPolls, kill_landings, shell
    <2> QED BY <1>1, <2>1, <2>2
<1>5. CASE pause_epic \/ resume_epic \/ kill_epic \/ LeaseTaken \/ LeaseReturned
    BY <1>1, <1>5 DEF pause_epic, resume_epic, kill_epic, LeaseTaken, LeaseReturned, Suspended, shell
<1>6. CASE UNCHANGED vars
    BY <1>6 DEF vars, shell
<1> QED BY <1>3, <1>4, <1>5, <1>6 DEF Next

\* Every step of the epic is, at every node, a step of its attempt loop or none.
LEMMA LoopsStep ==
    ASSUME EpicInv, EpicInv', LoopsInv, [Next]_vars, NEW n \in Nodes
    PROVE  [Loop(n)!LoopNext]_(Loop(n)!loop) /\ LoopOK(rec'[n])
<1>1. CASE rec[n].verified
    <2>1. rec'[n].verified
        BY <1>1, PassStays
    <2> QED BY <1>1, <2>1, PassedIsOver DEF LoopOK
<1>2. CASE epic_state = "KILLED"
    <2>1. rec' = rec /\ epic_state' = epic_state
        BY <1>2, EndIsLast DEF vars, shell
    <2>2. LoopAt(n)' = LoopAt(n)
        BY <2>1 DEF LoopAt, LeftOver
    <2>3. LoopCarry(n)' = LoopCarry(n) /\ LoopState(n)' = LoopState(n)
        BY <2>1, <2>2 DEF LoopCarry, LoopState
    <2>4. /\ (rec[n].key /\ ~rec[n].verified)' = (rec[n].key /\ ~rec[n].verified)
          /\ (rec[n].worktree \/ rec[n].verified)' = (rec[n].worktree \/ rec[n].verified)
        BY <2>1
    <2>5. UNCHANGED Loop(n)!loop
        BY <2>2, <2>3, <2>4, Zenon DEF Loop!loop
    <2> QED BY <2>1, <2>5 DEF LoopsInv
<1>3. CASE ~rec[n].verified /\ epic_state # "KILLED"
    <2>1. CASE Scheduler
        BY <1>3, <2>1, SchedulerShows
    <2>2. CASE \E m \in Nodes : Task(m) \/ Window(m) \/ Answer(m) \/ Poll(m) \/ Fault(m)
        <3>1. PICK m \in Nodes : Task(m) \/ Window(m) \/ Answer(m) \/ Poll(m) \/ Fault(m)
            BY <2>2
        <3>2. ~kill_remaining
            <4>1. Suspended
                BY <3>1, OwnSuspended
            <4> QED BY <4>1 DEF Suspended, kill_remaining
        <3>3. epic_state' # "KILLED"
            BY <1>3, <3>2, EndIsLast
        <3>4. CASE m = n
            BY <1>3, <3>1, <3>3, <3>4, OwnShows
        <3>5. CASE m # n
            <4>1. Others(m)
                BY <3>1, TaskIsOwn, OperatorIsOwn, PollIsOwn DEF Fault, EpicInv
            <4>2. rec'[n] = rec[n]
                BY <3>5, <4>1 DEF Others
            <4>3. UNCHANGED Loop(n)!loop
                BY <1>3, <3>3, <4>2, UntouchedStays
            <4> QED BY <4>2, <4>3 DEF LoopsInv
        <3> QED BY <3>4, <3>5
    <2>3. CASE pause_epic \/ resume_epic \/ kill_epic \/ LeaseTaken \/ LeaseReturned \/ UNCHANGED vars
        <3>1. rec' = rec /\ epic_state' = epic_state
            BY <2>3 DEF pause_epic, resume_epic, kill_epic, LeaseTaken, LeaseReturned, vars, shell
        <3>2. UNCHANGED Loop(n)!loop
            BY <1>3, <3>1, UntouchedStays
        <3> QED BY <3>1, <3>2 DEF LoopsInv
    <2> QED BY <2>1, <2>2, <2>3 DEF Next
<1> QED BY <1>1, <1>2, <1>3

\* Every node's attempts are the attempt loop, whatever the epic does around them.
THEOREM EpicImplementsAttemptLoops == Spec => AttemptLoopsHold
<1> DEFINE Starts == \A n \in Nodes : Loop(n)!LoopInit
           Steps  == \A n \in Nodes : [Loop(n)!LoopNext]_(Loop(n)!loop)
<1>1. Init => Starts /\ LoopsInv
    <2> SUFFICES ASSUME Init, NEW n \in Nodes PROVE Loop(n)!LoopInit /\ LoopOK(rec[n])
        BY DEF LoopsInv
    <2>1. rec[n] = NewNode /\ epic_state = "RUNNING"
        BY DEF Init
    <2>2. LoopAt(n) = "start"
        BY <2>1 DEF LoopAt, LeftOver, NewNode
    <2>3. LoopCarry(n) = "none" /\ LoopState(n) = "PENDING"
        BY <2>1, <2>2 DEF LoopCarry, LoopState, NewNode
    <2>4. /\ (rec[n].key /\ ~rec[n].verified) = FALSE
          /\ (rec[n].worktree \/ rec[n].verified) = FALSE
        BY <2>1 DEF NewNode
    <2>5. LoopOK(rec[n])
        BY <2>1 DEF NewNode, LoopOK, InLoop, Plainly
    <2> QED BY <2>2, <2>3, <2>4, <2>5 DEF Loop!LoopInit
<1>2. LoopsInv /\ EpicInv /\ EpicInv' /\ [Next]_vars => LoopsInv' /\ Steps
    BY LoopsStep DEF LoopsInv
<1>3. Init /\ [][Next]_vars /\ []EpicInv => Starts /\ [][Steps]_vars
    BY <1>1, <1>2, PTL
<1> QED BY <1>3, EpicInvariant, PTL DEF Spec, AttemptLoopsHold
=============================================================================
