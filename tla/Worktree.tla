------------------------------ MODULE Worktree ------------------------------
(***************************************************************************)
(* One node's work in git: factory/workgraph/worktree.py, as the           *)
(* activities and `ergane node reset` call it, and the proposal that       *)
(* factory/activities/merge_activities.py opens for it.                    *)
(*                                                                         *)
(* A commit is a number and git.anc[c] is the commits it reaches, itself   *)
(* among them; 0 is "none".  An operation is the sequence of the states    *)
(* its git commands leave behind; a command that is refused or times out,  *)
(* or a worker that dies, leaves it at any of them, and Temporal or the    *)
(* operator runs the operation again.  One operation runs at a time.       *)
(***************************************************************************)
EXTENDS Naturals, Sequences, FiniteSets

CONSTANTS
    Tolerance,       \* STALE_BASE_TOLERANCE_COMMITS
    MaxCommits       \* bound: commits ever made

ASSUME WorktreeAssumption == Tolerance \in Nat /\ MaxCommits \in Nat \ {0}

VARIABLES
    git,        \* the target's clone, its origin and the node's directory
    answer,     \* what the last operation said
    made        \* history: the commits the factory made for the node

wvars == <<git, answer, made>>

Commits == 1..MaxCommits
Ref == 0..MaxCommits

Clone == [anc : Seq(SUBSET Commits), trunk : Commits,
          dir : BOOLEAN, dirty : BOOLEAN, merging : Ref, sealed : BOOLEAN,   \* the directory
          base : Ref,                                                        \* its sidecar
          branch : Ref, archives : SUBSET Commits, salvages : SUBSET Commits,
          origin : Ref, kept : SUBSET Commits,                               \* on origin
          proposals : 0..2]

WorktreeTypeOK ==
    /\ git \in Clone /\ Len(git.anc) <= MaxCommits /\ made \subseteq Commits
    /\ answer \in {"none", "prepared", "refused", "salvaged", "reset", "landing", "ref conflict"}

WorktreeInit ==
    /\ git = [anc |-> <<{1}>>, trunk |-> 1, dir |-> FALSE, dirty |-> FALSE, merging |-> 0,
              sealed |-> FALSE, base |-> 0, branch |-> 0, archives |-> {}, salvages |-> {},
              origin |-> 0, kept |-> {}, proposals |-> 0]
    /\ answer = "none" /\ made = {}

-----------------------------------------------------------------------------
(* git *)

Reaches(g, a, c) == c \in g.anc[a]
Holds(g, refs, c) == \E a \in refs \ {0} : Reaches(g, a, c)
Room(g) == Len(g.anc) < MaxCommits
Newest(g) == Len(g.anc)

\* A commit of all there is in the tree; a merge in progress is concluded by it.
Committed(g) ==
    LET new == Len(g.anc) + 1
        reached == g.anc[g.branch] \cup (IF g.merging = 0 THEN {} ELSE g.anc[g.merging])
    IN  [g EXCEPT !.anc = Append(@, reached \cup {new}), !.branch = new,
                  !.dirty = FALSE, !.merging = 0]

\* Variant: a tree is removed as it stands.
ArchiveStages_unsaved(g) ==
    LET bare == [g EXCEPT !.dir = FALSE, !.dirty = FALSE, !.merging = 0, !.sealed = FALSE]
        moved == IF bare.branch \in {0} \cup bare.archives THEN bare
                 ELSE [bare EXCEPT !.archives = @ \cup {bare.branch}, !.branch = 0]
    IN  <<bare, moved, [moved EXCEPT !.base = 0]>>

\* _archive_node: the dirt is committed, the tree removed, the branch renamed
\* after its tip - unless that name is taken, by the same tip - and the sidecar
\* dropped.
ArchiveStages(g) ==
    LET saved == IF g.dir /\ g.dirty THEN Committed(g) ELSE g
        bare == [saved EXCEPT !.dir = FALSE, !.merging = 0, !.sealed = FALSE]
        moved == IF bare.branch \in {0} \cup bare.archives THEN bare
                 ELSE [bare EXCEPT !.archives = @ \cup {bare.branch}, !.branch = 0]
    IN  <<saved, bare, moved, [moved EXCEPT !.base = 0]>>

Behind(g, base) == Cardinality(g.anc[g.trunk] \ g.anc[base])
Current(g, base) == Reaches(g, g.trunk, base) /\ Behind(g, base) <= Tolerance

Last(stages) == stages[Len(stages)]
After(g, stages) == IF stages = <<>> THEN g ELSE Last(stages)

-----------------------------------------------------------------------------
(* ensure *)

\* Variant: a branch that is there is checked out, whatever it was cut from.
StrayBranch_kept(g) == <<>>

\* What precedes the rebuilding of a tree, by the pin the sidecar holds and by
\* the branch: each archive empties the ground for the next.
StaleTree(g) == IF g.dir /\ g.base # 0 /\ ~Current(g, g.base) THEN ArchiveStages(g) ELSE <<>>
LostPin(g) == IF ~g.dir /\ g.base # 0 /\ ~Reaches(g, g.trunk, g.base) THEN ArchiveStages(g) ELSE <<>>
Pin(g) == IF g.base # 0 THEN g.base ELSE g.trunk
StrayBranch(g) ==
    IF ~g.dir /\ g.branch # 0 /\ ~Reaches(g, g.branch, Pin(g)) THEN ArchiveStages(g) ELSE <<>>

\* The surviving tree, the surviving branch, or a new branch - which git
\* refuses to make when there is one.
Attached(g, pin) ==
    IF g.dir THEN <<[g EXCEPT !.base = IF @ = 0 THEN g.branch ELSE @]>>
    ELSE LET out == [g EXCEPT !.dir = TRUE, !.branch = IF @ = 0 THEN pin ELSE @]
         IN  <<out, [out EXCEPT !.base = pin]>>

EnsureStages(g) ==
    LET first == StaleTree(g)         g1 == After(g, first)
        second == LostPin(g1)         g2 == After(g1, second)
        third == StrayBranch(g2)      g3 == After(g2, third)
        wedged == third # <<>> /\ g3.branch # 0
    IN  [stages |-> first \o second \o third \o (IF wedged THEN <<g3>> ELSE Attached(g3, Pin(g2))),
         refused |-> wedged]

\* A run of an operation: through to its end, or to where it broke off.
Run(stages, said) ==
    \/ git' = After(git, stages) /\ answer' = said
    \/ \E k \in 0..Len(stages) :
          git' = (IF k = 0 THEN git ELSE stages[k]) /\ answer' = "none"

FactoryMade == made' = made \cup (1..Newest(git') \ 1..Newest(git))

ensure ==
    /\ Room(git)
    /\ LET e == EnsureStages(git) IN Run(e.stages, IF e.refused THEN "refused" ELSE "prepared")
    /\ FactoryMade

-----------------------------------------------------------------------------
(* The agent, and the end of its attempt *)

AgentWorks ==
    /\ git.dir /\ git.base # 0
    /\ \/ git' = [git EXCEPT !.dirty = TRUE, !.sealed = FALSE] /\ UNCHANGED made
       \/ Room(git) /\ git' = [Committed(git) EXCEPT !.sealed = FALSE] /\ UNCHANGED made
       \/ \* an amended commit is the agent's to lose, where no other ref names it
          /\ Room(git) /\ ~Reaches(git, git.base, git.branch) /\ git.merging = 0
          /\ git' = [git EXCEPT !.anc = Append(@, (git.anc[git.branch] \ {git.branch}) \cup {Len(@) + 1}),
                                !.branch = Newest(git) + 1, !.dirty = FALSE, !.sealed = FALSE]
          /\ made' = {c \in made : Holds(git', {git'.branch} \cup git'.archives \cup git'.salvages, c)}
    /\ answer' = "none"

Pushable(g) == g.origin = 0 \/ Reaches(g, g.branch, g.origin)

\* salvage_worktree: the commit, its ref and the mirror; the last two may fail
\* and say nothing.  A salvage that was made already is not made again.
salvage ==
    /\ git.dir /\ Room(git)
    /\ LET g == IF git.sealed /\ ~git.dirty THEN git ELSE [Committed(git) EXCEPT !.sealed = TRUE]
       IN  \E named, pushed \in BOOLEAN :
              /\ pushed => Pushable(g)
              /\ git' = [g EXCEPT !.salvages = IF named THEN @ \cup {g.branch} ELSE @,
                                  !.origin = IF pushed THEN g.branch ELSE @]
    /\ answer' = "salvaged" /\ FactoryMade

\* remove: whatever is not committed goes with the tree.
remove ==
    /\ Run(<<[git EXCEPT !.dir = FALSE, !.dirty = FALSE, !.merging = 0, !.sealed = FALSE],
             [git EXCEPT !.dir = FALSE, !.dirty = FALSE, !.merging = 0, !.sealed = FALSE, !.base = 0]>>,
           "none")
    /\ UNCHANGED made

-----------------------------------------------------------------------------
(* Landing *)

\* sync_with_target: nothing to merge, a merge commit, or a merge that stops in
\* conflict and stays in the tree.
sync_with_target ==
    /\ git.dir /\ Room(git) /\ git.merging = 0
    /\ IF Reaches(git, git.branch, git.trunk) THEN UNCHANGED git
       ELSE \/ ~git.dirty /\ git' = Committed([git EXCEPT !.merging = git.trunk])
            \/ git' = [git EXCEPT !.dirty = TRUE, !.merging = git.trunk]
    /\ answer' = "none" /\ FactoryMade

\* Variant: the proposal is opened without looking for one.
open_landing_pr_blind ==
    /\ git.dir
    /\ IF ~Pushable(git) THEN answer' = "ref conflict" /\ UNCHANGED git
       ELSE LET pushed == [git EXCEPT !.origin = git.branch]
            IN  Run(<<pushed, [pushed EXCEPT !.proposals = IF @ = 2 THEN 2 ELSE @ + 1]>>, "landing")
    /\ UNCHANGED made

\* open_landing_pr: a plain push, then the open proposal of this branch, or one
\* more.  A break after the proposal is made is found open the next time.
open_landing_pr ==
    /\ git.dir
    /\ IF ~Pushable(git) THEN answer' = "ref conflict" /\ UNCHANGED git
       ELSE LET pushed == [git EXCEPT !.origin = git.branch]
            IN  Run(<<pushed, [pushed EXCEPT !.proposals = IF @ = 0 THEN 1 ELSE @]>>, "landing")
    /\ UNCHANGED made

\* The landing branch moves: somebody's proposal lands, or it is rewritten.
TrunkMoves ==
    /\ Room(git)
    /\ LET new == Newest(git) + 1
       IN  \E kept \in {git.anc[git.trunk], {}} :
              git' = [git EXCEPT !.anc = Append(@, kept \cup {new}), !.trunk = new]
    /\ answer' = "none" /\ UNCHANGED made

\* The proposal is closed, merged or not.
ProposalEnds ==
    /\ git.proposals > 0 /\ git' = [git EXCEPT !.proposals = @ - 1]
    /\ answer' = "none" /\ UNCHANGED made

-----------------------------------------------------------------------------
(* reset, and the way out of a ref conflict *)

\* Variant: teardown ran, so the branch goes.
ClearStages_unheld(g) ==
    IF g.origin = 0 THEN {<<>>} ELSE {<<[g EXCEPT !.origin = 0, !.proposals = 0]>>}

\* _clear_remote_branch: the tip has to be held by an archive, the archive to
\* be on origin, and only then the branch goes; each refusal is an answer.
ClearStages(g) ==
    IF g.origin = 0 \/ ~Holds(g, g.archives, g.origin) THEN {<<>>}
    ELSE {LET kept == [g EXCEPT !.kept = @ \cup {a}]
          IN  <<kept, [kept EXCEPT !.origin = 0, !.proposals = 0]>> :
             a \in {a \in g.archives : Reaches(g, a, g.origin)}}

\* Where the remote half breaks off, reset still ends.
reset ==
    /\ Room(git)
    /\ LET archived == IF git.dir \/ git.branch # 0 THEN ArchiveStages(git) ELSE <<>>
           g == After(git, archived)
       IN  \E clear \in ClearStages(g) :
              \/ Run(archived, "none")
              \/ \E k \in 0..Len(clear) :
                    /\ git' = [IF k = 0 THEN g ELSE clear[k] EXCEPT !.base = 0]
                    /\ answer' = "reset"
    /\ FactoryMade

\* The operator follows the remedy of a ref conflict, having looked.
DeletesRemoteBranch ==
    /\ git.origin # 0 /\ Holds(git, git.kept, git.origin)
    /\ git' = [git EXCEPT !.origin = 0, !.proposals = 0]
    /\ answer' = "none" /\ UNCHANGED made

WorktreeNext ==
    \/ ensure \/ AgentWorks \/ salvage \/ remove
    \/ sync_with_target \/ open_landing_pr \/ TrunkMoves \/ ProposalEnds
    \/ reset \/ DeletesRemoteBranch

WorktreeSpec == WorktreeInit /\ [][WorktreeNext]_wvars

-----------------------------------------------------------------------------
(* Properties *)

\* No commit the factory made for the node is ever out of reach of a ref of the
\* clone, wherever archive, rebuild and reset break off.
WorkStaysReachable ==
    \A c \in made : Holds(git, {git.branch} \cup git.archives \cup git.salvages, c)

\* The tree an agent works in was cut from the commit its diff is read against.
CutFromItsPin == git.dir /\ git.base # 0 => Reaches(git, git.branch, git.base)

CommitsDirt == git.dirty /\ ~git'.dirty /\ ~remove => Newest(git') > Newest(git)
MovesOriginForward ==
    git.origin # git'.origin =>
        IF git'.origin # 0 THEN git.origin = 0 \/ Reaches(git', git'.origin, git.origin)
        ELSE Holds(git', git'.kept, git.origin)

\* Dirt leaves the tree as a commit or by `remove`, nowhere else.
DirtIsCommitted == [][CommitsDirt]_wvars

\* The branch on origin is never forced: it moves on to a commit that reaches
\* it, or goes when origin keeps all it held.
OriginOnlyMovesForward == [][MovesOriginForward]_wvars

\* However often opening a landing breaks off, its branch has one proposal.
OneProposal == git.proposals <= 1

\* No commit made for a node goes out of reach, the tree was cut from the commit
\* its diff is read against, and its branch has one proposal, wherever archive,
\* rebuild and reset break off (worktree.py, merge_activities.py).
WorkIsKept == WorkStaysReachable /\ CutFromItsPin /\ OneProposal

\* "Idempotent: a second call finds nothing to do": what a reset leaves is no
\* branch, no tree and no sidecar.
ResetLeavesNothing == answer = "reset" => git.branch = 0 /\ ~git.dir /\ git.base = 0

\* "A recorded pin is reused only when it passes two checks"
RecordedPinIsCurrent ==
    [][answer' = "prepared" /\ git.base # 0 /\ git'.base = git.base => Current(git', git.base)]_wvars
=============================================================================
