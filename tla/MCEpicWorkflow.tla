--------------------------- MODULE MCEpicWorkflow ---------------------------
(***************************************************************************)
(* EpicWorkflow for TLC: small graphs, and dials and bounds at which every *)
(* path is taken.                                                          *)
(***************************************************************************)
EXTENDS EpicWorkflow

NoEdge == [n \in Nodes |-> {}]

\* One slot, no budgets, a quiet world: what the scenarios below vary.
Plain ==
    [depends_on           |-> NoEdge,
     depends_on_merged    |-> NoEdge,
     max_concurrent_nodes |-> 1,
     subscription         |-> {},
     max_subscription     |-> 1,
     codex_owner          |-> FALSE,
     max_recovery_cycles  |-> 0,
     max_free_rebases     |-> 0,
     halt_after_pass      |-> FALSE,
     faults               |-> {},
     conflicts            |-> FALSE,
     attempts             |-> 1,
     questions            |-> 0,
     pauses               |-> 0,
     stale                |-> 0]

\* Node 2 waits for node 1 to merge; a cycle and a rebase each, a question each,
\* a pause, stale refs.
Landings ==
    [Plain EXCEPT !.depends_on_merged = [NoEdge EXCEPT ![2] = {1}],
                  !.max_recovery_cycles = 1, !.max_free_rebases = 1,
                  !.conflicts = TRUE, !.stale = 1]
Parks ==
    [Plain EXCEPT !.depends_on_merged = [NoEdge EXCEPT ![2] = {1}],
                  !.max_concurrent_nodes = 2, !.attempts = 2, !.questions = 1, !.pauses = 1]
Crashes ==
    [Plain EXCEPT !.depends_on = [NoEdge EXCEPT ![2] = {1}], !.max_recovery_cycles = 1,
                  !.max_concurrent_nodes = 2,
                  !.subscription = Nodes, !.max_subscription = 2, !.codex_owner = TRUE,
                  !.faults = {"prep", "issue", "agent", "finish", "push", "sync", "rverify", "unland"}]

PairPlans == {Landings, Parks, Crashes}

\* Two slots and one subscription seat: 2 behind 1's merge, 3 behind its
\* verification.  A chain of three, whose last node asks for the Codex owner.  Three
\* free nodes competing for two slots, two of them for the one owner, on an epic
\* that halts after the pass.
Fork ==
    [Plain EXCEPT !.depends_on = [NoEdge EXCEPT ![3] = {1}],
                  !.depends_on_merged = [NoEdge EXCEPT ![2] = {1}],
                  !.max_concurrent_nodes = 2, !.subscription = {2, 3}, !.questions = 1]
Line ==
    [Plain EXCEPT !.depends_on_merged = [NoEdge EXCEPT ![2] = {1}, ![3] = {2}],
                  !.subscription = {3}, !.codex_owner = TRUE,
                  !.pauses = 1, !.max_recovery_cycles = 1]
Halting ==
    [Plain EXCEPT !.max_concurrent_nodes = 2, !.subscription = {1, 2},
                  !.max_subscription = 2, !.codex_owner = TRUE, !.halt_after_pass = TRUE]

TrioPlans == {Fork, Line, Halting}
=============================================================================
