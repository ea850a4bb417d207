---------------------------- MODULE Derivation ----------------------------
(***************************************************************************)
(* From a specification to the graph that is built: the declared edges     *)
(* and their checks (factory/workgraph/derive.py), the edges inferred      *)
(* between stories whose tasks name the same file (contention.py), what    *)
(* has already landed (landed.py) and the graph of what remains            *)
(* (delta.py).  The graph is then run: a node starts once the stories it   *)
(* depends on are verified, or merged, as the edge says.                   *)
(***************************************************************************)
EXTENDS Integers, FiniteSets, SequencesExt

CONSTANT StoryCount   \* the stories are numbered in the order the spec declares them

Stories == 1..StoryCount
Pairs == {<<a, b>> \in Stories \X Stories : a # b}

VARIABLES
    declared,     \* the declared edges, story by story
    graph,        \* the compiled graph
    shared,       \* pairs of stories whose task slices name a common file
    waived,       \* pairs declared safe to run together
    baseline,     \* what the default branch says of each story
    stage, fate   \* where the derivation is; how far each node has come

gvars == <<declared, graph, shared, waived, baseline, stage, fate>>

NoEdges == [s \in Stories |-> {}]
Full == [nodes |-> Stories, verified |-> NoEdges, merged |-> NoEdges]
Landings == {"none", "same", "changed", "moved", "unpinned"}

DerivationTypeOK ==
    /\ declared \in [covers : SUBSET Stories, edge : [Pairs -> SUBSET {"verified", "merged"}], selfish : SUBSET Stories]
    /\ graph.nodes \subseteq Stories
    /\ graph.verified \in [Stories -> SUBSET Stories] /\ graph.merged \in [Stories -> SUBSET Stories]
    /\ shared \subseteq Pairs /\ waived \subseteq Pairs
    /\ baseline \in [Stories -> Landings]
    /\ stage \in {"spec", "nodes", "full", "rest", "refused"}
    /\ fate \in [Stories -> {"pending", "running", "verified", "merged"}]

DerivationInit ==
    /\ declared \in [covers : {Stories, Stories \ {StoryCount}}, edge : [Pairs -> SUBSET {"verified", "merged"}],
                     selfish : {{}, {StoryCount}}]
    /\ graph = Full /\ shared = {} /\ waived = {} /\ stage = "spec"
    /\ baseline = [s \in Stories |-> "none"]
    /\ fate = [s \in Stories |-> "pending"]

-----------------------------------------------------------------------------
(* Graphs, as functions from a story to the stories it waits for *)

\* Everything reached from a story, itself included.
_reachable(adjacency, start) ==
    LET within[n \in 0..StoryCount] ==
            IF n = 0 THEN {start} ELSE within[n - 1] \cup UNION {adjacency[x] : x \in within[n - 1]}
    IN  within[StoryCount]

_path(adjacency, start, goal) == goal \in _reachable(adjacency, start)

\* Whether the waiter can only start once the target has merged.
\* Variant: any wait is taken for one on a merge.
_merge_ordered_anyhow(adjacency, merged, waiter, target) == _path(adjacency, waiter, target)

_merge_ordered(adjacency, merged, waiter, target) ==
    \E n \in _reachable(adjacency, waiter) : target \in merged[n]

Edges(g) == [s \in Stories |-> g.verified[s] \cup g.merged[s]]
find_cycle(adjacency) == \E s \in Stories : \E d \in adjacency[s] : _path(adjacency, d, s)

-----------------------------------------------------------------------------
(* The declared graph *)

Declared(kind) == [s \in Stories |-> {d \in Stories \ {s} : kind \in declared.edge[<<s, d>>]}]

\* The declarations are checked one by one, then against each other.
_check_edges == declared.selfish = {}
Coverage == declared.covers = Stories
Overlap == \E p \in Pairs : declared.edge[p] = {"verified", "merged"}
_cross_validate ==
    Coverage /\ _check_edges /\ ~Overlap
        /\ ~find_cycle([s \in Stories |-> Declared("verified")[s] \cup Declared("merged")[s]])

Refuse == stage' = "refused" /\ UNCHANGED <<declared, graph, shared, waived, baseline, fate>>
Blank == [covers |-> Stories, edge |-> [p \in Pairs |-> {}], selfish |-> {}]

derive_workgraph ==
    /\ stage = "spec"
    /\ \/ ~_cross_validate /\ Refuse
       \/ /\ _cross_validate
          /\ graph' = [Full EXCEPT !.verified = Declared("verified"), !.merged = Declared("merged")]
          /\ declared' = Blank                    \* the graph says as much
          /\ stage' = "nodes" /\ UNCHANGED <<shared, waived, baseline, fate>>

-----------------------------------------------------------------------------
(* The inferred edges *)

Both(a, b, pairs) == <<a, b>> \in pairs \/ <<b, a>> \in pairs

_declared_between(a, b) ==
    \/ b \in Edges(graph)[a] \/ a \in Edges(graph)[b]
    \/ Both(a, b, waived)

\* The pairs in the order they are looked at: each later story against the
\* nearest earlier one first.
Looked ==
    LET before(p, q) == p[1] < q[1] \/ (p[1] = q[1] /\ p[2] > q[2])
    IN  SetToSortSeq({p \in Pairs : p[2] < p[1]}, before)

\* Variant: whether the edge closes a cycle is not asked.
Infer_blindly(acc, later, earlier) ==
    IF \/ ~Both(later, earlier, shared) \/ _declared_between(earlier, later)
       \/ _merge_ordered(Edges(acc), acc.merged, later, earlier)
       \/ _merge_ordered(Edges(acc), acc.merged, earlier, later)
    THEN acc
    ELSE [acc EXCEPT !.merged[later] = @ \cup {earlier}]

\* The later of two sharers waits for the earlier one's merge, unless they are
\* ordered already; a wait the other way round refuses the specification.
Infer(acc, later, earlier) ==
    IF \/ ~Both(later, earlier, shared) \/ _declared_between(earlier, later)
       \/ _merge_ordered(Edges(acc), acc.merged, later, earlier)
       \/ _merge_ordered(Edges(acc), acc.merged, earlier, later)
    THEN acc
    ELSE IF _path(Edges(acc), earlier, later)
         THEN [acc EXCEPT !.nodes = {}]
         ELSE [acc EXCEPT !.merged[later] = @ \cup {earlier}]

infer_contention_edges == FoldLeft(LAMBDA acc, p : Infer(acc, p[1], p[2]), graph, Looked)

\* The tasks are written: which slices name a common file, and what is waived.
slice_files ==
    /\ stage = "nodes" /\ shared = {}
    /\ \E pairs \in SUBSET {p \in Pairs : p[2] < p[1]} :
          /\ pairs # {} /\ shared' = pairs
          /\ waived' \in {{}} \cup {{p} : p \in pairs}
    /\ UNCHANGED <<declared, graph, baseline, stage, fate>>

apply_contention_edges ==
    /\ stage = "nodes"
    /\ IF infer_contention_edges.nodes = {} THEN Refuse
       ELSE /\ graph' = infer_contention_edges /\ stage' = "full"
            /\ UNCHANGED <<declared, shared, waived, baseline, fate>>

-----------------------------------------------------------------------------
(* What has landed, and what remains *)

\* A story has landed if a landing's commit, an older one, or a rescue says so;
\* all of them if the specification at the default branch attests it.
landed_facts(found, attested) == IF attested THEN Stories ELSE found

\* A story's fingerprint is over its number, its scenarios, its requirements and
\* its declaration; a pinned one is that of the specification it landed with.
fingerprint(s) ==
    CASE baseline[s] = "moved" -> <<s, "another story's">>
      [] baseline[s] = "changed" -> <<s, "older">>
      [] OTHER -> <<s, "own">>
fingerprint_for(s) == <<s, "own">>
Pinned(s) == baseline[s] # "none"

\* The first landed story that cannot be identified refuses the whole.
IdentityFails ==
    \/ \E s \in Stories : baseline[s] = "unpinned"
    \/ \E s, t \in Stories : s # t /\ Pinned(s) /\ Pinned(t) /\ fingerprint(s) # fingerprint_for(s)
                                /\ fingerprint_for(t) = fingerprint(s)

Subtracted == {s \in Stories : Pinned(s) /\ fingerprint(s) = fingerprint_for(s)}

ReadBaseline ==
    /\ stage = "full" /\ \A s \in Stories : baseline[s] = "none" /\ fate[s] = "pending"
    /\ \E found \in SUBSET Stories, attested \in BOOLEAN, odd \in Stories, how \in {"same", "changed", "moved", "unpinned"} :
          /\ landed_facts(found, attested) # {}
          /\ baseline' = [s \in Stories |-> IF s \notin landed_facts(found, attested) THEN "none"
                                            ELSE IF s = odd THEN how ELSE "same"]
    /\ UNCHANGED <<declared, graph, shared, waived, stage, fate>>

derive_delta ==
    /\ stage = "full" /\ \E s \in Stories : Pinned(s)
    /\ IF IdentityFails THEN Refuse
       ELSE /\ graph' = [nodes |-> graph.nodes \ Subtracted,
                         verified |-> [s \in Stories |-> graph.verified[s] \ Subtracted],
                         merged |-> [s \in Stories |-> graph.merged[s] \ Subtracted]]
            /\ stage' = "rest" /\ UNCHANGED <<declared, shared, waived, baseline, fate>>

-----------------------------------------------------------------------------
(* The graph is run *)

Runs == stage = "rest" \/ (stage = "full" /\ \A s \in Stories : baseline[s] = "none")
Done(d) == fate[d] \in {"verified", "merged"}
Startable(n) ==
    /\ n \in graph.nodes /\ fate[n] = "pending"
    /\ \A d \in graph.verified[n] : Done(d)
    /\ \A d \in graph.merged[n] : fate[d] = "merged"
InFlight(n) == fate[n] \in {"running", "verified"}

Advance(n, to) == fate' = [fate EXCEPT ![n] = to] /\ UNCHANGED <<declared, graph, shared, waived, baseline, stage>>

Start(n) == Runs /\ Startable(n) /\ Advance(n, "running")
Verify(n) == fate[n] = "running" /\ Advance(n, "verified")
Merge(n) == fate[n] = "verified" /\ Advance(n, "merged")

DerivationNext ==
    \/ derive_workgraph \/ slice_files \/ apply_contention_edges \/ ReadBaseline \/ derive_delta
    \/ \E n \in Stories : Start(n) \/ Verify(n) \/ Merge(n)

DerivationSpec == DerivationInit /\ [][DerivationNext]_gvars

-----------------------------------------------------------------------------
(* Properties *)

\* Two stories whose tasks name the same file, which the specification neither
\* orders nor waives, are never in flight together in a graph compiled afresh.
SharersDoNotRace ==
    stage = "full" =>
        \A p \in shared :
            InFlight(p[1]) /\ InFlight(p[2]) => _declared_between(p[1], p[2])

\* Whatever was declared, inferred and subtracted, a graph that compiles can be
\* run to its end: no node is left that waits for one that cannot come.
GraphRunsOut ==
    Runs => \/ \A n \in graph.nodes : fate[n] = "merged"
            \/ \E n \in graph.nodes : Startable(n) \/ InFlight(n)

\* The same is said of a remainder graph.
RemainderDoesNotRace ==
    stage = "rest" =>
        \A p \in shared :
            InFlight(p[1]) /\ InFlight(p[2]) => _declared_between(p[1], p[2])

\* A landed story whose content is now another's is refused, not built again.
RenumberingIsRefused == stage = "rest" => \A s \in Stories : baseline[s] # "moved"
=============================================================================
