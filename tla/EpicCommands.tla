---------------------------- MODULE EpicCommands ----------------------------
(***************************************************************************)
(* The operator's commands over one epic (factory/cli/nouns/build.py) and  *)
(* the checks made before it is started (factory/workgraph/preflight.py),  *)
(* against what the epic itself does to the node worktrees, the node       *)
(* branches on the remote and the proxy's keys.  A command reads, thinks   *)
(* and acts; the epic and other commands go on in between.                 *)
(***************************************************************************)
EXTENDS Integers, FiniteSets

CONSTANTS
    Nodes,        \* the nodes of the epic's compiled graph
    Commands,     \* commands that may run at once
    MaxVerbs      \* bound: commands begun

VARIABLES
    site,         \* what lies around for each node: its worktree, its remote branch, its first key
    setting,      \* the landing branch is declared, the proxy serves the aliases, the worker runs this code
    epic,         \* the workflow: what it is, and where its nodes are
    ops,          \* the commands
    begun,        \* how many were begun
    refused       \* nodes whose first attempt met what the preflight is there to rule out

cvars == <<site, setting, epic, ops, begun, refused>>

Trees == {"none", "ours", "foreign"}
Heads == {"none", "landed", "stray"}
NodeStates == {"absent", "pending", "preparing", "working", "waiting", "ended"}
Idle == [at |-> "idle", verb |-> "none", findings |-> FALSE, blind |-> FALSE, stale |-> FALSE, waiting |-> {}, todo |-> {}]

CommandsTypeOK ==
    /\ site \in [Nodes -> [tree : Trees, head : Heads, key : BOOLEAN]]
    /\ setting \in [declared : BOOLEAN, served : BOOLEAN, skewed : BOOLEAN]
    /\ epic \in [status : {"none", "running", "closed"}, node : [Nodes -> NodeStates], first : [Nodes -> BOOLEAN], sure : BOOLEAN]
    /\ \A c \in Commands :
           /\ ops[c].at \in {"idle", "compile", "confirm", "repository", "proxy", "skew", "begin", "describe", "query", "local", "forge", "signal"}
           /\ ops[c].verb \in {"none", "start", "ship", "reset", "answer"}
           /\ ops[c].todo \subseteq Nodes /\ ops[c].waiting \subseteq Nodes
    /\ begun \in 0..MaxVerbs /\ refused \subseteq Nodes

CommandsInit ==
    /\ \E n \in Nodes, left \in [tree : Trees, head : Heads, key : BOOLEAN] :
          site = [m \in Nodes |-> IF m = n THEN left ELSE [tree |-> "none", head |-> "none", key |-> FALSE]]
    /\ \E wrong \in {"nothing", "declared", "served", "skewed"} :
          setting = [declared |-> wrong # "declared", served |-> wrong # "served", skewed |-> wrong = "skewed"]
    /\ epic = [status |-> "none", node |-> [n \in Nodes |-> "absent"], first |-> [n \in Nodes |-> TRUE], sure |-> TRUE]
    /\ ops = [c \in Commands |-> Idle] /\ begun = 0 /\ refused = {}

At(c, place) == ops[c].at = place
Onward(c, place) == ops' = [ops EXCEPT ![c].at = place]
Over(c) == ops' = [ops EXCEPT ![c] = Idle]
Running == epic.status = "running"
\* What other commands have read is older than what happens now.
Stale(o) == [c \in Commands |-> IF o[c].at = "idle" THEN o[c] ELSE [o[c] EXCEPT !.stale = TRUE]]

-----------------------------------------------------------------------------
(* The epic, as the commands see it *)

Move(n, to) == epic' = [epic EXCEPT !.node[n] = to, !.first[n] = @ /\ epic.node[n] # "working"]
Meets(n) == refused' = IF epic.first[n] /\ epic.sure THEN refused \cup {n} ELSE refused
Epic == ops' = Stale(ops) /\ UNCHANGED <<setting, begun>>

Dispatched(n) ==
    /\ Running /\ epic.node[n] = "pending"
    /\ Move(n, "preparing") /\ UNCHANGED <<site, refused>> /\ Epic

\* A worktree of another clone ends the node; a live key of that name pages.
Prepared(n) ==
    /\ Running /\ epic.node[n] = "preparing"
    /\ IF site[n].tree = "foreign" THEN Move(n, "ended") /\ Meets(n) /\ UNCHANGED site
       ELSE IF site[n].key /\ epic.first[n]
       THEN Move(n, "waiting") /\ Meets(n) /\ site' = [site EXCEPT ![n].tree = "ours"]
       ELSE Move(n, "working") /\ UNCHANGED refused /\ site' = [site EXCEPT ![n].tree = "ours", ![n].key = TRUE]
    /\ Epic

\* The first push meets what an earlier epic left; later ones its own.
Pushes(n) ==
    /\ Running /\ epic.node[n] = "working"
    /\ IF epic.first[n] /\ site[n].head = "stray"
       THEN Meets(n) /\ Move(n, "waiting") /\ site' = [site EXCEPT ![n].key = FALSE]
       ELSE /\ UNCHANGED refused
            /\ \/ Move(n, "waiting") /\ site' = [site EXCEPT ![n].head = "stray", ![n].key = FALSE]
               \/ Move(n, "ended") /\ site' = [site EXCEPT ![n] = [tree |-> "none", head |-> "landed", key |-> FALSE]]
    /\ Epic

\* Nothing was committed, or the key could not be revoked.
Pages(n) ==
    /\ Running /\ epic.node[n] = "working"
    /\ Move(n, "waiting") /\ \E k \in BOOLEAN : site' = [site EXCEPT ![n].key = k]
    /\ UNCHANGED refused /\ Epic

Answered(n) ==
    /\ Running /\ epic.node[n] = "waiting"
    /\ \E to \in {"working", "ended"} :
          /\ epic' = [epic EXCEPT !.node[n] = to, !.first[n] = FALSE]
          /\ site' = [site EXCEPT ![n].tree = IF to = "working" THEN "ours" ELSE @]
    /\ UNCHANGED refused /\ Epic

Closes ==
    /\ Running
    /\ \/ \A n \in Nodes : epic.node[n] = "ended"
       \/ \A n \in Nodes : epic.node[n] \notin {"preparing", "working"}       \* kill_epic, its attempts ended
    /\ epic' = [epic EXCEPT !.status = "closed", !.node = [n \in Nodes |-> "ended"]]
    /\ UNCHANGED <<site, refused>> /\ Epic

-----------------------------------------------------------------------------
(* start and ship *)

Begin(c, verb, place) ==
    /\ At(c, "idle") /\ begun < MaxVerbs
    /\ begun' = begun + 1 /\ ops' = [ops EXCEPT ![c] = [Idle EXCEPT !.verb = verb, !.at = place]]
    /\ UNCHANGED <<site, setting, epic, refused>>

start_command(c) == Begin(c, "start", "repository")
ship_command(c) == Begin(c, "ship", "compile")
Quiet == UNCHANGED <<site, setting, epic, begun, refused>>

\* Validated, compiled, shown; the operator confirms or not.
_compiled(c) == At(c, "compile") /\ (Onward(c, "confirm") \/ Over(c)) /\ Quiet
_confirm_dispatch(c) == At(c, "confirm") /\ (Onward(c, "repository") \/ Over(c)) /\ Quiet

worktree_ownership_findings == {n \in Nodes : site[n].tree = "foreign"}
remote_branch_findings == {n \in Nodes : site[n].head = "stray"}
landing_branch_findings == IF setting.declared THEN {} ELSE Nodes

\* Variant: only what the worktrees and the manifest tell.
landing_readiness_preflight_local(unknown) == worktree_ownership_findings \cup landing_branch_findings

\* Branches the clone has no commit of are passed over, and all of them when
\* the remote cannot be reached.
landing_readiness_preflight(unknown) ==
    worktree_ownership_findings \cup landing_branch_findings \cup (remote_branch_findings \ unknown)

_run_preflight_repository(c) ==
    /\ At(c, "repository")
    /\ \E unknown \in {{}, remote_branch_findings} :
          ops' = [ops EXCEPT ![c].at = "proxy", ![c].findings = landing_readiness_preflight(unknown) # {},
                             ![c].blind = unknown # {}, ![c].stale = FALSE]
    /\ Quiet

\* Variant: which aliases are served, and not which keys are live.
alias_findings_served == ~setting.served

alias_findings == ~setting.served \/ \E n \in Nodes : site[n].key

check_aliases(c) ==
    /\ At(c, "proxy")
    /\ \/ (ops[c].findings \/ alias_findings) /\ Over(c)
       \/ ~ops[c].findings /\ ~alias_findings /\ Onward(c, "skew")
       \/ Over(c)                                  \* the proxy did not answer
    /\ Quiet

\* The worker's revision is read from an open epic; what cannot be read refuses nothing.
_worker_advertisement(c) ==
    /\ At(c, "skew")
    /\ \/ setting.skewed /\ Over(c)
       \/ Onward(c, "begin")                         \* alike, or not to be read
    /\ Quiet

\* Temporal holds one running workflow of an id.
_start_epic(c) ==
    /\ At(c, "begin")
    /\ IF Running THEN UNCHANGED epic /\ Over(c)
       ELSE /\ epic' = [status |-> "running", node |-> [n \in Nodes |-> "pending"], first |-> [n \in Nodes |-> TRUE],
                        sure |-> ~ops[c].stale /\ ~ops[c].blind]
            /\ ops' = [Stale(ops) EXCEPT ![c] = Idle]
    /\ UNCHANGED <<site, setting, begun, refused>>

-----------------------------------------------------------------------------
(* reset: one reading of the epic, then each node's worktree and its branch *)

_reset_epic(c) == Begin(c, "reset", "describe")

_describe(c) ==
    /\ At(c, "describe")
    /\ \/ ops' = [ops EXCEPT ![c].at = IF Running THEN "query" ELSE "local", ![c].todo = Nodes, ![c].stale = FALSE]
       \/ Over(c)                                  \* Temporal did not answer
    /\ Quiet

nodes_at_work == {n \in Nodes : epic.node[n] = "working"}
nodes_awaiting_operator == {n \in Nodes : epic.node[n] = "waiting"}

\* Variant: that somebody is waited for is enough.
reset_refusal_unless_waited_for == nodes_awaiting_operator = {}

reset_refusal == nodes_at_work # {} \/ nodes_awaiting_operator = {}

\* An epic that does not answer is not reset.
_query(c) ==
    /\ At(c, "query")
    /\ \/ reset_refusal /\ Over(c)
       \/ ~reset_refusal /\ ops' = [ops EXCEPT ![c].at = "local", ![c].waiting = nodes_awaiting_operator, ![c].stale = FALSE]
       \/ Over(c)
    /\ Quiet

\* The worktree and the local branch are archived; the remote head goes when it
\* can be reached.  Another clone's worktree raises, and leaves the rest undone.
_reset_local(c) ==
    /\ At(c, "local")
    /\ \E n \in ops[c].todo, h \in BOOLEAN :
          IF site[n].tree = "foreign" THEN UNCHANGED site /\ ops' = [Stale(ops) EXCEPT ![c] = Idle]
          ELSE /\ site' = [site EXCEPT ![n].tree = "none", ![n].head = IF h THEN "none" ELSE @]
               /\ ops' = [c2 \in Commands |-> IF c2 = c THEN [ops[c] EXCEPT !.at = "forge", !.todo = @ \ {n}] ELSE Stale(ops)[c2]]
    /\ UNCHANGED <<setting, epic, begun, refused>>

\* The proposal is closed and the head retired, when there is a forge.
_forge_reset_lines(c) ==
    /\ At(c, "forge")
    /\ \E n \in Nodes \ ops[c].todo, h \in BOOLEAN :
          /\ site' = [site EXCEPT ![n].head = IF h THEN "none" ELSE @]
          /\ ops' = [c2 \in Commands |-> IF c2 = c THEN (IF ops[c].todo = {} THEN Idle ELSE [ops[c] EXCEPT !.at = "local"])
                                         ELSE Stale(ops)[c2]]
    /\ UNCHANGED <<setting, epic, begun, refused>>

-----------------------------------------------------------------------------
(* answer and resolve: the record is read, and the workflow it names signalled *)

_answer(c) ==
    /\ At(c, "idle") /\ begun < MaxVerbs /\ begun' = begun + 1
    /\ \E n \in nodes_awaiting_operator :
          ops' = [ops EXCEPT ![c] = [Idle EXCEPT !.verb = "answer", !.at = "signal", !.waiting = {n}]]
    /\ UNCHANGED <<site, setting, epic, refused>>

\* A node that waits no more is none the wiser, nor is an epic that is over.
_signal(c) ==
    /\ At(c, "signal")
    /\ \E n \in ops[c].waiting, to \in {"working", "ended"} :
          IF Running /\ epic.node[n] = "waiting"
          THEN /\ epic' = [epic EXCEPT !.node[n] = to, !.first[n] = FALSE]
               /\ site' = [site EXCEPT ![n].tree = IF to = "working" THEN "ours" ELSE @]
               /\ ops' = [Stale(ops) EXCEPT ![c] = Idle]
          ELSE UNCHANGED <<epic, site>> /\ Over(c)
    /\ UNCHANGED <<setting, begun, refused>>

CommandsNext ==
    \/ \E n \in Nodes : Dispatched(n) \/ Prepared(n) \/ Pushes(n) \/ Pages(n) \/ Answered(n)
    \/ Closes
    \/ \E c \in Commands :
          \/ start_command(c) \/ ship_command(c) \/ _compiled(c) \/ _confirm_dispatch(c)
          \/ _run_preflight_repository(c) \/ check_aliases(c) \/ _worker_advertisement(c) \/ _start_epic(c)
          \/ _reset_epic(c) \/ _describe(c) \/ _query(c) \/ _reset_local(c) \/ _forge_reset_lines(c)
          \/ _answer(c) \/ _signal(c)

CommandsSpec == CommandsInit /\ [][CommandsNext]_cvars

-----------------------------------------------------------------------------
(* Properties *)

\* Whatever earlier epics, kills and resets have left behind, the first attempt
\* of a node does not meet another clone's worktree, a live key of its name or a
\* branch it cannot push over, when the start that began its epic could read
\* everything and nothing moved until it did (_run_preflight).
FirstAttemptsGoThrough == refused = {}

TakesNoWorkingTree ==
    \A n \in Nodes : (site[n].tree = "ours" /\ site'[n].tree = "none" /\ epic' = epic) =>
        \/ epic.node[n] # "working"
        \/ \E c \in Commands : At(c, "local") /\ ops[c].stale

\* A reset takes no worktree from under an agent that was there when it read the
\* epic: only what moves after that reading can be (reset_refusal).
SparesTheWorking == [][TakesNoWorkingTree]_cvars

\* Nor one that is being prepared.  Violated: a node that has been dispatched and
\* has no key yet reads PENDING, and another that waits lets the reset go on.
SparesThePreparing ==
    [][\A n \in Nodes : (site[n].tree = "ours" /\ site'[n].tree = "none" /\ epic' = epic) =>
           \/ epic.node[n] # "preparing"
           \/ \E c \in Commands : At(c, "local") /\ ops[c].stale]_cvars

=============================================================================
