------------------------------ MODULE MergeQueue -----------------------------
(***************************************************************************)
(* One node's landing against the forge (factory/mergequeue, the activities *)
(* in merge_activities.py, and _land, _poll_landing, _run_recovery and      *)
(* _reenqueue of the epic's workflow).  The forge has a trunk its siblings  *)
(* move, proposals people may close, and checks; what the workflow knows of *)
(* it is the snapshot it last took.                                         *)
(*                                                                         *)
(* A tree is the node's work on a base.  EpicWorkflow schedules landings    *)
(* and bounds their recoveries; here is what they are judged by.            *)
(***************************************************************************)
EXTENDS Naturals, FiniteSets, Sequences

CONSTANTS
    Works,                 \* what the node's branch may contain besides its base
    MaxTrunk,              \* bound: siblings that land meanwhile
    MaxProposals,          \* bound: pull requests opened for the branch
    max_recovery_cycles, max_free_rebases    \* LandingConfig

VARIABLES
    trunk,        \* how many siblings have landed
    works,        \* which works are bad, which conflict, and the trunk each breaks on
    prs,          \* the branch's proposals, oldest first
    head,         \* the branch on the remote
    tree,         \* the worktree
    landing,      \* the node's Landing
    seen,         \* the snapshot the poll works on
    at,           \* where the workflow is
    asked,        \* history: an operator's RETRY since the last rejection
    rejects,      \* history: the trees the queue turned down
    futile,       \* history: one of them was enqueued again and nobody had said so
    flaked        \* history: the failure last seen was nobody's

qvars == <<trunk, works, prs, head, tree, landing, seen, at, asked, rejects, futile, flaked>>

Trunks == 0..MaxTrunk
Tree == [work : Works, base : Trunks]
Unknown == MaxTrunk + 1     \* a base the forge does not report
None == [work |-> "none", base |-> Unknown]
Proposal == [state : {"OPEN", "CLOSED", "MERGED"}, armed : BOOLEAN]
Outcomes == {"MERGED", "DEQUEUED_BY_HUMAN", "CONFLICT", "CHECKS_FAILED", "STALLED", "waiting"}
Snapshot == [state : {"OPEN", "CLOSED", "MERGED"}, in_conflict : BOOLEAN, failing : BOOLEAN,
             base_sha : 0..Unknown, pending_past_stall : BOOLEAN]
Unseen == [state |-> "OPEN", in_conflict |-> FALSE, failing |-> FALSE, base_sha |-> Unknown,
           pending_past_stall |-> FALSE]
Landing == [state : {"PR_OPEN", "ENQUEUED", "MERGED", "REJECTED", "KILLED"},
            pr_number : 0..MaxProposals, outcome : Outcomes,
            enqueued_tip : Tree \cup {None}, enqueued_base : Trunks,
            rejection_cause : {"none", "BASE_MOVED", "NODE_CODE"},
            recovery_cycles : 0..max_recovery_cycles, free_rebases : 0..max_free_rebases]
Places == {"land", "enqueue", "riding", "apply", "rejected", "conflicted", "attempt",
           "compare", "reland", "reenqueue", "page", "futile_page", "ended"}

QueueTypeOK ==
    /\ trunk \in Trunks /\ prs \in Seq(Proposal) /\ Len(prs) <= MaxProposals
    /\ head \in Tree \cup {None} /\ tree \in Tree /\ landing \in Landing /\ seen \in Snapshot
    /\ at \in Places /\ {asked, futile, flaked} \subseteq BOOLEAN
    /\ rejects \subseteq Tree /\ works.bad \subseteq Works /\ works.conflicts \subseteq Works

QueueInit ==
    /\ trunk = 0 /\ prs = <<>> /\ head = None
    /\ works \in [bad : SUBSET Works, conflicts : SUBSET Works, breaks : [Works -> 1..(MaxTrunk + 1)]]
    /\ tree \in [work : Works, base : {0}]
    /\ landing = [state |-> "PR_OPEN", pr_number |-> 0, outcome |-> "waiting",
                  enqueued_tip |-> None, enqueued_base |-> 0,
                  rejection_cause |-> "none", recovery_cycles |-> 0, free_rebases |-> 0]
    /\ seen = Unseen /\ at = "land" /\ asked = FALSE
    /\ rejects = {} /\ futile = FALSE /\ flaked = FALSE

-----------------------------------------------------------------------------
(* The forge *)

\* What the checks would say of a tree once it is on a given trunk.
Fails(t, onto) == t.work \in works.bad \/ works.breaks[t.work] <= onto
InConflict == head # None /\ head.work \in works.conflicts /\ head.base < trunk
OpenProposals == {i \in DOMAIN prs : prs[i].state = "OPEN"}
workflow_stays == UNCHANGED <<works, tree, landing, seen, at, asked, rejects, futile, flaked>>

SiblingLands == trunk < MaxTrunk /\ trunk' = trunk + 1 /\ workflow_stays /\ UNCHANGED <<prs, head>>

\* The queue lands what was asked of it once its checks are green on the trunk.
ForgeLands ==
    \E i \in OpenProposals :
        /\ prs[i].armed /\ ~InConflict /\ ~Fails(head, trunk)
        /\ prs' = [prs EXCEPT ![i] = [state |-> "MERGED", armed |-> FALSE]]
        /\ workflow_stays /\ UNCHANGED <<trunk, head>>

HumanCloses ==
    \E i \in OpenProposals :
        /\ Len(prs) < MaxProposals
        /\ prs' = [prs EXCEPT ![i] = [state |-> "CLOSED", armed |-> FALSE]]
        /\ workflow_stays /\ UNCHANGED <<trunk, head>>

-----------------------------------------------------------------------------
(* What the workflow asks of it *)

\* The branch is pushed, then its open proposal is found, or one is opened.
pushed == head' = tree
find_proposal == IF OpenProposals = {} THEN Len(prs) + 1 ELSE CHOOSE i \in OpenProposals : TRUE
proposed == prs' = IF OpenProposals # {} THEN prs
                   ELSE Append(prs, [state |-> "OPEN", armed |-> FALSE])
request_landing(i) == prs[i].state = "OPEN" /\ prs' = [prs EXCEPT ![i].armed = TRUE]
history == <<rejects, futile, flaked>>

\* A push the remote turns down pages: pushed again, or the landing is given up.
_open_landing(next) ==
    \/ /\ pushed /\ proposed /\ Len(prs') <= MaxProposals /\ at' = next
       /\ UNCHANGED <<trunk, works, tree, seen, asked, history>>
    \/ /\ at' = "ended" /\ landing' = [landing EXCEPT !.state = "KILLED"]
       /\ UNCHANGED <<trunk, works, prs, head, tree, seen, asked, history>>

_land ==
    /\ at = "land" /\ _open_landing("enqueue")
    /\ at' = "enqueue" => landing' = [landing EXCEPT !.pr_number = find_proposal]

\* From here the poll watches it, by the number the landing was opened with and
\* the base the work was last verified on.
Ridden == [landing EXCEPT !.enqueued_tip = head, !.enqueued_base = tree.base, !.state = "ENQUEUED"]

enqueue_landing ==
    /\ at = "enqueue"
    /\ \/ request_landing(landing.pr_number) /\ at' = "riding" /\ landing' = Ridden
       \/ /\ UNCHANGED prs /\ at' = "ended"
          /\ landing' = [landing EXCEPT !.state = "KILLED", !.outcome = "DEQUEUED_BY_HUMAN"]
    /\ UNCHANGED <<trunk, works, head, tree, seen, asked, history>>

\* Checks fail for what is in the tree on this trunk, or for no reason at all.
observe_proposal ==
    /\ at = "riding" /\ at' = "apply"
    /\ \E flake, late \in BOOLEAN, base \in {trunk, Unknown} :
        /\ seen' = [state |-> prs[landing.pr_number].state, in_conflict |-> InConflict,
                    failing |-> ~InConflict /\ (Fails(head, trunk) \/ flake),
                    base_sha |-> base, pending_past_stall |-> late]
        /\ flaked' = flake
    /\ UNCHANGED <<trunk, works, prs, head, tree, landing, asked, rejects, futile>>

\* In this order: what is done is done, and a wait comes last.
classify(snapshot) ==
    CASE snapshot.state = "MERGED" -> "MERGED"
      [] snapshot.state = "CLOSED" -> "DEQUEUED_BY_HUMAN"
      [] snapshot.state = "OPEN" /\ snapshot.in_conflict -> "CONFLICT"
      [] snapshot.state = "OPEN" /\ ~snapshot.in_conflict /\ snapshot.failing -> "CHECKS_FAILED"
      [] OTHER -> IF snapshot.pending_past_stall THEN "STALLED" ELSE "waiting"

base_moved(enqueued, observed) == observed # Unknown /\ observed # enqueued

\* Variant: only a conflict is the base's doing.
rejection_cause_by_outcome(outcome, observed) ==
    IF outcome = "CONFLICT" THEN "BASE_MOVED" ELSE "NODE_CODE"

rejection_cause(outcome, observed) ==
    IF outcome = "CONFLICT" \/ (outcome = "CHECKS_FAILED" /\ base_moved(landing.enqueued_base, observed))
    THEN "BASE_MOVED" ELSE "NODE_CODE"

_poll_landing ==
    /\ at = "apply"
    /\ LET outcome == classify(seen)
       IN  /\ CASE outcome = "waiting" -> at' = "riding" /\ UNCHANGED <<landing, rejects>>
                [] outcome = "MERGED" ->
                     /\ at' = "ended" /\ UNCHANGED rejects
                     /\ landing' = [landing EXCEPT !.outcome = outcome, !.state = "MERGED"]
                [] outcome \in {"CONFLICT", "CHECKS_FAILED"} ->
                     /\ at' = "rejected" /\ rejects' = rejects \cup {landing.enqueued_tip}
                     /\ landing' = [landing EXCEPT !.outcome = outcome, !.state = "REJECTED",
                                        !.rejection_cause = rejection_cause(outcome, seen.base_sha)]
                [] OTHER ->
                     /\ at' = "ended" /\ UNCHANGED rejects
                     /\ landing' = [landing EXCEPT !.outcome = outcome, !.state = "KILLED"]
           /\ asked' = (asked /\ at' # "rejected")
    /\ UNCHANGED <<trunk, works, prs, head, tree, seen, futile, flaked>>

-----------------------------------------------------------------------------
(* Recovery *)

remote == <<trunk, works, prs, head>>
free == landing.rejection_cause = "BASE_MOVED" /\ landing.free_rebases < max_free_rebases
CyclesLeft == landing.recovery_cycles < max_recovery_cycles
Synced == [tree EXCEPT !.base = trunk]
Conflicts == tree.base # trunk /\ tree.work \in works.conflicts
Charge == [landing EXCEPT !.recovery_cycles = @ + 1]

\* A moved base costs nothing while it merges clean; anything else spends a
\* cycle, or is the operator's to decide.  The sync itself may be refused.
_run_recovery ==
    /\ at = "rejected"
    /\ \/ /\ free /\ ~Conflicts /\ tree' = Synced
          /\ at' = "compare" /\ landing' = [landing EXCEPT !.free_rebases = @ + 1]
       \/ /\ (~free \/ Conflicts) /\ CyclesLeft /\ tree' = Synced
          /\ at' = "attempt" /\ landing' = Charge
       \/ /\ (~free \/ Conflicts) /\ ~CyclesLeft
          /\ at' = "page" /\ UNCHANGED <<tree, landing>>
       \/ /\ (free \/ CyclesLeft)
          /\ at' = "page" /\ landing' = (IF free THEN landing ELSE Charge) /\ UNCHANGED tree
    /\ UNCHANGED <<remote, seen, asked, history>>

\* The attempt may change the work or find nothing to change; what passes goes
\* on, what does not pages.
_recovery_attempt ==
    /\ at = "attempt" /\ at' \in {"compare", "page"}
    /\ \E w \in Works : tree' = [tree EXCEPT !.work = w]
    /\ UNCHANGED <<remote, landing, seen, asked, history>>

\* What the queue turned down is compared with the base of the sync, which is
\* the same tree only if what the siblings landed amounts to it.
compare_trees ==
    /\ at = "compare"
    /\ \E identical \in {FALSE, tree.base # landing.enqueued_tip.base} :
          at' = IF identical THEN "futile_page" ELSE "reland"
    /\ UNCHANGED <<remote, tree, landing, seen, asked, history>>

\* An answer other than RETRY ends the landing.
_apply_landing_resolution ==
    /\ at \in {"page", "futile_page"} /\ at' = "ended" /\ landing' = [landing EXCEPT !.state = "KILLED"]
    /\ UNCHANGED <<remote, tree, seen, asked, history>>

RetryFutile ==
    /\ at = "futile_page" /\ at' = "reland" /\ asked' = TRUE
    /\ UNCHANGED <<remote, tree, landing, seen, history>>

\* RETRY is offered while a cycle is left, and granted whatever the cause.
Retry ==
    /\ at = "page" /\ CyclesLeft /\ asked' = TRUE /\ landing' = Charge
    /\ \/ at' = "attempt" /\ tree' = Synced
       \/ at' = "page" /\ UNCHANGED tree
    /\ UNCHANGED <<remote, seen, history>>

_reenqueue == at = "reland" /\ _open_landing("reenqueue") /\ (at' = "reenqueue" => UNCHANGED landing)

\* Variant: the base recorded is the one the landing started from.
EnqueueAgain_old_base ==
    /\ at = "reenqueue"
    /\ \/ /\ \E i \in OpenProposals : request_landing(i)
          /\ at' = "riding" /\ landing' = [Ridden EXCEPT !.enqueued_base = landing.enqueued_base]
          /\ futile' = (futile \/ (head \in rejects /\ ~asked))
       \/ at' = "page" /\ UNCHANGED <<prs, landing, futile>>
    /\ UNCHANGED <<trunk, works, head, tree, seen, asked, rejects, flaked>>

EnqueueAgain ==
    /\ at = "reenqueue"
    /\ \/ /\ \E i \in OpenProposals : request_landing(i)
          /\ at' = "riding" /\ landing' = Ridden
          /\ futile' = (futile \/ (head \in rejects /\ ~asked))
       \/ at' = "page" /\ UNCHANGED <<prs, landing, futile>>
    /\ UNCHANGED <<trunk, works, head, tree, seen, asked, rejects, flaked>>

QueueNext ==
    \/ SiblingLands \/ ForgeLands \/ HumanCloses
    \/ _land \/ enqueue_landing \/ observe_proposal \/ _poll_landing
    \/ _run_recovery \/ _recovery_attempt \/ compare_trees \/ _apply_landing_resolution
    \/ RetryFutile \/ Retry \/ _reenqueue \/ EnqueueAgain

QueueSpec == QueueInit /\ [][QueueNext]_qvars

-----------------------------------------------------------------------------
(* Properties *)

\* A rejection is put down to the node's code only if what was enqueued fails on
\* the very base it was verified on, or the failure was a flake, or the forge did
\* not say what it ran on; and to the base only if the trunk has moved on from it.
CauseIsTrue ==
    landing.state = "REJECTED" /\ at \in {"rejected", "attempt", "page"} =>
        /\ landing.rejection_cause = "NODE_CODE" =>
               \/ Fails(landing.enqueued_tip, landing.enqueued_base)
               \/ flaked \/ seen.base_sha = Unknown
        /\ landing.rejection_cause = "BASE_MOVED" => trunk # landing.enqueued_tip.base

\* A tree the queue has turned down is not put back by a recovery before an
\* operator has judged its failure a flake.
FutileTreeIsPaged == ~futile
=============================================================================
