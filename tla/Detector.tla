------------------------------- MODULE Detector -------------------------------
(***************************************************************************)
(* The boundary detector (factory/workgraph/detector.py): the target       *)
(* repository and the evidence stores are recorded before an agent runs    *)
(* and compared when it has ended, and what it changed outside its         *)
(* worktree is filed.  The operator works in the same repository, other    *)
(* attempts run at the same time, and the worker may die with its agent.   *)
(***************************************************************************)
EXTENDS Integers, FiniteSets

CONSTANTS
    Paths,          \* paths of the target repository
    Attempts,       \* attempts running at the same time
    MaxContent,     \* bound: versions of a path's content (0: no such file)
    MaxWrites,      \* bound: writes of the operator and of agents
    MaxCommits,     \* bound: commits of the operator
    MaxFaults       \* bound: reads of git that fail, workers that die

VARIABLES
    tree,           \* the working tree: content of each path
    commits,        \* the tree of each commit; HEAD is the last
    store,          \* 1: an evidence store is as it was; 0: gone, or smaller under the runtime root
    step,           \* where each attempt is
    read,           \* what capture_start or compare_and_report has read so far
    snapshot,       \* the start snapshot on disk, outside the runtime root
    found,          \* the finding compare_and_report has built
    escaped,        \* paths each attempt wrote since its snapshot and left so
    touched,        \* paths somebody wrote after the attempt's start and did not commit
    blind,          \* a read of the attempt failed, or HEAD moved between its reads
    writes, faults

dvars == <<tree, commits, store, step, read, snapshot, found,
           escaped, touched, blind, writes, faults>>

Tree == [Paths -> 0..MaxContent]
EmptyTree == [p \in Paths |-> 0]
None == [tracked |-> EmptyTree, head |-> 0, store |-> 0]
Snapshots == [tracked : Tree, head : 0..MaxCommits + 1, store : 0..1]
NoFinding == [tracked |-> {}, lost |-> FALSE, missing |-> FALSE]
head == Cardinality(DOMAIN commits)

DetectorTypeOK ==
    /\ tree \in Tree /\ store \in 0..1
    /\ head \in 1..MaxCommits + 1 /\ \A c \in DOMAIN commits : commits[c] \in Tree
    /\ step \in [Attempts -> {"idle", "reading", "running", "comparing", "filing", "done"}]
    /\ read \in [Attempts -> Snapshots] /\ snapshot \in [Attempts -> Snapshots]
    /\ found \in [Attempts -> [tracked : SUBSET Paths, lost : BOOLEAN, missing : BOOLEAN]]
    /\ escaped \in [Attempts -> SUBSET Paths] /\ touched \in [Attempts -> SUBSET Paths]
    /\ blind \in [Attempts -> BOOLEAN] /\ writes \in 0..MaxWrites /\ faults \in 0..MaxFaults

DetectorInit ==
    /\ tree = [p \in Paths |-> 1] /\ commits = [c \in {1} |-> tree] /\ store = 1
    /\ step = [a \in Attempts |-> "idle"]
    /\ read = [a \in Attempts |-> None] /\ snapshot = [a \in Attempts |-> None]
    /\ found = [a \in Attempts |-> NoFinding]
    /\ escaped = [a \in Attempts |-> {}] /\ touched = [a \in Attempts |-> {}]
    /\ blind = [a \in Attempts |-> FALSE] /\ writes = 0 /\ faults = 0

-----------------------------------------------------------------------------
(* The reads and the comparison *)

\* What a read of the working tree may return, and whether it failed: no HEAD
\* reads as an empty tree, no difference to HEAD as HEAD's.
_tracked_state ==
    {[tracked |-> tree, failed |-> FALSE]}
        \cup IF faults < MaxFaults THEN {[tracked |-> EmptyTree, failed |-> TRUE], [tracked |-> commits[head], failed |-> TRUE]} ELSE {}

_committed_state(h) == commits[h]

changed(before, after) == {p \in Paths : before[p] # after[p]}

\* Only a store that is gone or smaller is a loss.
_is_loss(before, after) == after < before

\* Variant: what a commit carried is left out whole, whatever was written on it.
charged_uncarried(start, end, h) ==
    {p \in changed(start.tracked, end) :
        ~ (start.head # 0 /\ h # start.head /\ _committed_state(start.head)[p] # _committed_state(h)[p])}

\* Variant: a move of HEAD is not looked at.
charged_headless(start, end, h) == changed(start.tracked, end)

\* The paths an attempt answers for: when HEAD moved meanwhile, those whose
\* content is not what the new HEAD names.
charged(start, end, h) ==
    {p \in changed(start.tracked, end) :
        (start.head # 0 /\ h # start.head) => end[p] # _committed_state(h)[p]}

-----------------------------------------------------------------------------
(* An attempt *)

\* capture_start reads the working tree,
BeginCapture(a) ==
    /\ step[a] = "idle"
    /\ \E t \in _tracked_state :
          /\ read' = [read EXCEPT ![a] = [tracked |-> t.tracked, head |-> head, store |-> store]]
          /\ blind' = [blind EXCEPT ![a] = t.failed]
          /\ faults' = faults + (IF t.failed THEN 1 ELSE 0)
    /\ step' = [step EXCEPT ![a] = "reading"]
    /\ escaped' = [escaped EXCEPT ![a] = {}] /\ touched' = [touched EXCEPT ![a] = {}]
    /\ UNCHANGED <<tree, commits, store, snapshot, found, writes>>

\* then HEAD and the stores, and writes the snapshot; the agent is launched.
capture_start(a) ==
    /\ step[a] = "reading"
    /\ snapshot' = [snapshot EXCEPT ![a] = [read[a] EXCEPT !.head = head, !.store = store]]
    /\ blind' = [blind EXCEPT ![a] = @ \/ read[a].head # head]
    /\ step' = [step EXCEPT ![a] = "running"]
    /\ UNCHANGED <<tree, commits, store, read, found, escaped, touched, writes, faults>>

\* A write lands at p: it is the writer's, and for every attempt in between a
\* change that nobody committed.
Wrote(a, p, v) ==
    /\ writes < MaxWrites /\ v # tree[p]
    /\ tree' = [tree EXCEPT ![p] = v] /\ writes' = writes + 1
    /\ escaped' = [b \in Attempts |-> IF b = a THEN escaped[b] \cup {p} ELSE escaped[b] \ {p}]
    /\ touched' = [b \in Attempts |-> touched[b] \cup {p}]

Escape(a) ==
    /\ step[a] = "running"
    /\ \E p \in Paths, v \in 0..MaxContent : Wrote(a, p, v)
    /\ UNCHANGED <<commits, store, step, read, snapshot, found, blind, faults>>

\* The agent removes or truncates a store, or the snapshot itself.
Destroys(a) ==
    /\ step[a] = "running" /\ writes < MaxWrites /\ writes' = writes + 1
    /\ \/ store > 0 /\ store' = 0 /\ UNCHANGED snapshot
       \/ snapshot' = [snapshot EXCEPT ![a] = None] /\ UNCHANGED store
    /\ UNCHANGED <<tree, commits, step, read, found, escaped, touched, blind, faults>>

\* The worker dies with its agent; the activity's next execution starts over.
WorkerDies(a) ==
    /\ step[a] # "done" /\ step[a] # "idle" /\ faults < MaxFaults /\ faults' = faults + 1
    /\ step' = [step EXCEPT ![a] = "idle"] /\ found' = [found EXCEPT ![a] = NoFinding]
    /\ UNCHANGED <<tree, commits, store, read, snapshot, escaped, touched, blind, writes>>

\* The agent's process group cannot be proved dead: nothing is compared.
Retained(a) ==
    /\ step[a] = "running" /\ step' = [step EXCEPT ![a] = "done"]
    /\ UNCHANGED <<tree, commits, store, read, snapshot, found, escaped, touched, blind, writes, faults>>

\* The agent has ended: without its snapshot that is what is filed; else the
\* working tree and the stores are read,
BeginCompare(a) ==
    /\ step[a] = "running"
    /\ \/ /\ snapshot[a] = None
          /\ found' = [found EXCEPT ![a] = [NoFinding EXCEPT !.missing = TRUE]]
          /\ step' = [step EXCEPT ![a] = "filing"] /\ UNCHANGED <<read, blind, faults>>
       \/ /\ snapshot[a] # None
          /\ \E t \in _tracked_state :
                /\ read' = [read EXCEPT ![a] = [tracked |-> t.tracked, head |-> head, store |-> store]]
                /\ blind' = [blind EXCEPT ![a] = @ \/ t.failed]
                /\ faults' = faults + (IF t.failed THEN 1 ELSE 0)
          /\ step' = [step EXCEPT ![a] = "comparing"] /\ UNCHANGED found
    /\ UNCHANGED <<tree, commits, store, snapshot, escaped, touched, writes>>

\* then HEAD, and a finding is built of what is left to charge.
_build_finding(a) ==
    /\ step[a] = "comparing"
    /\ LET f == [tracked |-> charged(snapshot[a], read[a].tracked, head),
                 lost |-> _is_loss(snapshot[a].store, read[a].store), missing |-> FALSE]
       IN /\ found' = [found EXCEPT ![a] = f]
          /\ step' = [step EXCEPT ![a] = IF f = NoFinding THEN "done" ELSE "filing"]
          /\ snapshot' = [snapshot EXCEPT ![a] = IF f = NoFinding THEN None ELSE @]
    /\ UNCHANGED <<tree, commits, store, read, escaped, touched, blind, writes, faults>>

\* Every finding has the one key: findings.json holds the last and the
\* row in doctor.db is counted up, when it can be reached; the snapshot goes.
_persist_finding(a) ==
    /\ step[a] = "filing" /\ step' = [step EXCEPT ![a] = "done"]
    /\ snapshot' = [snapshot EXCEPT ![a] = None]
    /\ UNCHANGED <<tree, commits, store, read, found, escaped, touched, blind, writes, faults>>

-----------------------------------------------------------------------------
(* The operator, in the same repository *)

Edits ==
    /\ \E p \in Paths, v \in 0..MaxContent, a \in {"operator"} : Wrote(a, p, v)
    /\ UNCHANGED <<commits, store, step, read, snapshot, found, blind, faults>>

\* A commit of some paths that no attempt has written since.
Commits ==
    /\ head <= MaxCommits
    /\ \E P \in SUBSET {p \in Paths : tree[p] # commits[head][p]} :
          /\ P # {} /\ \A a \in Attempts : P \cap escaped[a] = {}
          /\ commits' = [c \in 1..head + 1 |-> IF c <= head THEN commits[c] ELSE [p \in Paths |-> IF p \in P THEN tree[p] ELSE commits[head][p]]]
          /\ touched' = [a \in Attempts |-> touched[a] \ P]
    /\ UNCHANGED <<tree, store, step, read, snapshot, found, escaped, blind, writes, faults>>

DetectorNext ==
    \/ \E a \in Attempts : \/ BeginCapture(a) \/ capture_start(a) \/ Escape(a) \/ Destroys(a) \/ WorkerDies(a) \/ Retained(a)
                           \/ BeginCompare(a) \/ _build_finding(a) \/ _persist_finding(a)
    \/ Edits \/ Commits

DetectorSpec == DetectorInit /\ [][DetectorNext]_dvars

-----------------------------------------------------------------------------
(* Properties *)

Compared(a) == step[a] = "comparing" /\ step'[a] \in {"filing", "done"} /\ ~blind[a]

FilesEscape(a) ==
    \A p \in escaped[a] :
        tree[p] \notin {snapshot[a].tracked[p], commits[head][p]} => p \in found'[a].tracked
ChargesOwn(a) == read[a].head = head => found'[a].tracked \subseteq touched[a]

\* A path an attempt wrote outside its worktree, and that is now neither what it
\* was at the start nor what HEAD names, is in its finding, also when the operator
\* edits and commits in the same repository (compare_and_report).
EscapeIsFiled == [][\A a \in Attempts : Compared(a) => FilesEscape(a)]_dvars

\* No attempt answers for a path on which, since its start, nothing was written
\* that the operator has not committed; unless HEAD moved between two reads
\* (compare_and_report's second class).
CommitsAreNotCharged == [][\A a \in Attempts : Compared(a) => ChargesOwn(a)]_dvars
=============================================================================
