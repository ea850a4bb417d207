------------------------------- MODULE Roadmap ------------------------------
(***************************************************************************)
(* RoadmapWorkflow (factory/roadmap/workflow.py): it reads the corpus,     *)
(* starts an epic for every spec that is ready on landed ground while      *)
(* there is room, waits for them, and continues as new when none is open.  *)
(* Specs are 1..S in directory order.  `road.at` is its await:             *)
(*   boot (a run whose first task has not come), read, dispatch, wait,     *)
(*   idle, paused, held (idle and paused), then over or failed.            *)
(* A signal is handled wherever the run stands: also before its first      *)
(* task, on an instance that has not looked at its carry-over yet.         *)
(***************************************************************************)
EXTENDS Integers, FiniteSets

CONSTANTS
    S,               \* number of specs
    DependsOn,       \* the edges a corpus may have: a set of functions Specs -> SUBSET Specs
    States,          \* the corpora as they may stand when the roadmap starts
    Caps,            \* max_concurrent_epics
    MaxChains,       \* bound: runs the schedule starts
    MaxTurns,        \* bound: runs in a chain
    MaxWord          \* bound: operator's words and edits

Specs == 1..S
SpecState == {"draft", "ready", "landed"}       \* deferred is treated as draft is

\* What a roadmap is given: edges between its specs, states the frontmatter may
\* have, and a max_concurrent_epics the start accepts.
ASSUME RoadmapAssumption ==
    /\ S \in Nat /\ MaxWord \in Nat /\ Caps \subseteq Nat \ {0}
    /\ DependsOn \subseteq [Specs -> SUBSET Specs]
    /\ States \subseteq [Specs -> SpecState]

VARIABLES
    deps, cap, idles,   \* depends_on_landed, max_concurrent_epics, idle_rescan_s is set
    corpus,     \* the frontmatter on disk
    main,       \* the specs all of whose stories are on the landing branch
    drift,      \* the landed specs whose text has changed since
    epics,      \* the epic of each spec, as Temporal knows it
    foreign,    \* an epic somebody else has open
    road,       \* the run
    chain,      \* runs the schedule has started, turns of this chain, and what
                \* became of a spec in it (history): started, or parked untried
    words,      \* operator's words and edits so far
    standing    \* history: an unrevoked pause, said in this pass or before

rvars == <<deps, cap, idles, corpus, main, drift, epics, foreign, road, chain, words, standing>>
world == <<corpus, main, drift, epics, foreign, words>>
fixed == <<deps, cap, idles>>

EpicStates == {"none", "open", "landed", "unlanded", "failed"}
Landed == {"none", "landed", "unlanded"}

\* What a run holds; `carry` is the parks, promotions and pause it was handed.
RunState ==
    [at : {"boot", "read", "dispatch", "wait", "idle", "paused", "held", "over", "failed"},
     landed : [Specs -> Landed], parked : SUBSET Specs, promotions : SUBSET Specs,
     children : SUBSET Specs, paused : BOOLEAN, rescan : BOOLEAN, completed : BOOLEAN,
     read : [Specs -> SpecState], computed : SUBSET Specs, drifted : SUBSET Specs,
     free : {-1} \cup Nat, listed : SUBSET Specs, todo : SUBSET Specs,
     carry : SUBSET ((SUBSET Specs) \X (SUBSET Specs) \X BOOLEAN)]

RoadmapTypeOK ==
    /\ deps \in [Specs -> SUBSET Specs] /\ cap \in Nat
    /\ corpus \in [Specs -> SpecState] /\ main \subseteq Specs /\ drift \subseteq Specs
    /\ epics \in [Specs -> EpicStates] /\ foreign \in BOOLEAN
    /\ road \in RunState
    /\ chain \in [starts : Nat, turns : Nat, tried : [Specs -> {"no", "parked", "started"}]]
    /\ words \in 0..MaxWord /\ standing \in {"no", "this pass", "before"}

NoLanded == [s \in Specs |-> "none"]
Untouched == [s \in Specs |-> "no"]

\* Variant: the parks are not carried over the turn.
Fresh_unparked(landed, carry) ==
    [at |-> "boot", landed |-> landed, parked |-> {}, promotions |-> {}, children |-> {},
     paused |-> FALSE, rescan |-> FALSE, completed |-> FALSE,
     read |-> [s \in Specs |-> "draft"], computed |-> {}, drifted |-> {}, free |-> 0, listed |-> {}, todo |-> {},
     carry |-> {<<{}, c[2], c[3]>> : c \in carry}]

\* A fresh instance.  `carry` is the parks, promotions and pause of the run
\* before it, absent in the first; what a chain has seen land is kept at once.
Fresh(landed, carry) ==
    [at |-> "boot", landed |-> landed, parked |-> {}, promotions |-> {}, children |-> {},
     paused |-> FALSE, rescan |-> FALSE, completed |-> FALSE,
     read |-> [s \in Specs |-> "draft"], computed |-> {}, drifted |-> {}, free |-> 0, listed |-> {}, todo |-> {},
     carry |-> carry]

RoadmapInit ==
    /\ deps \in DependsOn /\ cap \in Caps /\ idles \in BOOLEAN
    /\ corpus \in States /\ main = {} /\ drift = {}
    /\ epics = [s \in Specs |-> "none"] /\ foreign = FALSE
    /\ road = Fresh(NoLanded, {}) /\ chain = [starts |-> 1, turns |-> 1, tried |-> Untouched]
    /\ words = 0 /\ standing = "no"

Alive == road.at \notin {"over", "failed"}
Open == {s \in Specs : epics[s] = "open"}

-----------------------------------------------------------------------------
(* compute_readiness, of a run `r` that has read *)

observed(r, s) == r.landed[s] = "landed" \/ (r.landed[s] = "none" /\ s \in r.computed)

\* Variant: a dependency is in the way only while it is a draft.
blockers_lax(r, s) == {d \in deps[s] : ~observed(r, d) /\ r.read[d] = "draft"}

blockers(r, s) == {d \in deps[s] : ~observed(r, d) /\ r.read[d] # "landed"}
dispatchable(r, s) ==
    /\ r.read[s] = "ready" /\ blockers(r, s) = {}
    /\ ~(observed(r, s) /\ s \notin r.drifted)

\* Neither running, nor parked, nor concluded in this chain.
candidate(r, s) == dispatchable(r, s) /\ s \notin r.children \cup r.parked /\ r.landed[s] = "none"
candidates(r) == {s \in Specs : candidate(r, s)}

-----------------------------------------------------------------------------
(* The loop *)

\* The first task: the carry-over, when there is one, replaces the fields.
Boot ==
    /\ road.at = "boot"
    /\ road' = IF road.carry = {} THEN [road EXCEPT !.at = "read"]
               ELSE LET c == CHOOSE c \in road.carry : TRUE
                    IN  [road EXCEPT !.at = "read", !.parked = c[1], !.promotions = c[2],
                                     !.paused = c[3], !.rescan = FALSE, !.carry = {}]
    /\ UNCHANGED <<world, fixed, chain, standing>>

\* The operator's promotion makes a draft ready, for this reading.
apply_promotions ==
    [s \in Specs |-> IF s \in road.promotions /\ corpus[s] = "draft" THEN "ready" ELSE corpus[s]]

\* The default branch answers for what is asked; what it cannot be asked for
\* this time counts as "not landed" and "not drifted".
landed_for_spec(asked, unread) == (asked \cap main) \ unread
drift_for_spec(covered, unread) == (covered \cap drift) \ unread

compute_landed(read, unread) ==
    landed_for_spec({s \in Specs : read[s] = "ready" /\ road.landed[s] = "none"}, unread)
compute_drift(read, computed, unread) ==
    drift_for_spec({s \in Specs : read[s] = "landed" \/ (read[s] = "ready" /\ s \in computed)}, unread)

\* The corpus, what has landed and what has drifted are read anew each pass,
\* and the specs it may start are listed then.
ReadCorpus ==
    /\ road.at = "read"
    /\ \E unread \in {{}} \cup {{s} : s \in Specs} :
          LET read == apply_promotions
              computed == compute_landed(read, unread)
              pass == [road EXCEPT !.at = "dispatch", !.read = read, !.computed = computed,
                                   !.drifted = compute_drift(read, computed, unread), !.free = -1]
          IN  road' = [pass EXCEPT !.todo = candidates(pass), !.listed = candidates(pass)]
    /\ standing' = IF standing = "no" THEN "no" ELSE "before"
    /\ UNCHANGED <<world, fixed, chain>>

\* A corpus that does not read - a block that is no mapping, a key or a state
\* nobody knows, an edge to nothing, a cycle - fails the run.
CorpusRefused ==
    /\ road.at = "read" /\ road' = [road EXCEPT !.at = "failed"]
    /\ UNCHANGED <<world, fixed, chain, standing>>

\* The first n of a set of specs, in directory order.
FirstOf(n, specs) == {s \in specs : Cardinality({t \in specs : t < s}) < n}

\* Capacity is counted once a pass, over every open epic, whoever started it.
CountOpen ==
    /\ road.at = "dispatch" /\ road.free = -1
    /\ LET open == Cardinality(Open) + (IF foreign THEN 1 ELSE 0)
           free == IF road.todo = {} \/ road.paused \/ open > cap THEN 0 ELSE cap - open
       IN  road' = [road EXCEPT !.free = free, !.todo = FirstOf(free, @)]
    /\ UNCHANGED <<world, fixed, chain, standing>>

\* What the steps of a dispatch may answer instead of "go on": a spec is parked
\* with what the step found, but an activity nobody catches fails the run.
clone_target == {"parked"}        \* work at risk in the clone, or git itself
spec_text == {"failed"}
derive_spec == {"parked"}         \* a refusal, or a delta that is empty
preflight_spec == {"parked", "failed"}
onboard_target == {"parked", "failed"}
read_loop_config == {"parked"}
tree_revision == {"parked"}       \* also when the worker runs another revision
collision(s) == IF epics[s] = "open" THEN {"parked"} ELSE {}

Refusals(s) == UNION {clone_target, spec_text, derive_spec, preflight_spec, onboard_target,
                      read_loop_config, tree_revision, collision(s)}

\* An epic starts behind all of them, under an id no open epic has.
Dispatch ==
    /\ road.at = "dispatch" /\ road.free >= 0
    /\ \E s \in road.todo :
          LET rest == [road EXCEPT !.todo = @ \ {s}]
          IN  /\ \A t \in road.todo : s <= t
              /\ \/ /\ \E how \in Refusals(s) :
                          IF how = "parked"
                          THEN /\ road' = [rest EXCEPT !.parked = @ \cup {s}]
                               /\ chain' = [chain EXCEPT !.tried[s] = "parked"]
                          ELSE road' = [rest EXCEPT !.at = "failed"] /\ UNCHANGED chain
                    /\ UNCHANGED epics
                 \/ /\ collision(s) = {}
                    /\ epics' = [epics EXCEPT ![s] = "open"]
                    /\ road' = [rest EXCEPT !.children = @ \cup {s}]
                    /\ chain' = [chain EXCEPT !.tried[s] = "started"]
    /\ UNCHANGED <<corpus, main, drift, foreign, words, fixed, standing>>

ContinueAsNew ==
    /\ chain.turns < MaxTurns
    /\ chain' = [chain EXCEPT !.turns = @ + 1]
    /\ road' = Fresh(road.landed, {<<road.parked, road.promotions, road.paused>>})

\* What follows the pass: wait for a child, park, try again, turn over, idle or
\* return.
Untried(s) == s \in road.listed \ (road.parked \cup road.children) /\ road.landed[s] = "none"
PassDone ==
    /\ road.at = "dispatch" /\ road.free >= 0 /\ road.todo = {}
    /\ \/ road.children # {} /\ road' = [road EXCEPT !.at = "wait"] /\ UNCHANGED chain
       \/ /\ road.children = {} /\ road.paused
          /\ road' = [road EXCEPT !.at = "paused"] /\ UNCHANGED chain
       \/ /\ road.children = {} /\ ~road.paused
          /\ \/ /\ road.free > 0 /\ \E s \in Specs : Untried(s)
                /\ road' = [road EXCEPT !.at = "read"] /\ UNCHANGED chain
             \/ /\ ~(road.free > 0 /\ \E s \in Specs : Untried(s))
                /\ \/ road.completed /\ ContinueAsNew
                   \/ ~road.completed /\ road' = [road EXCEPT !.at = IF idles THEN "idle" ELSE "over"]
                      /\ UNCHANGED chain
    /\ UNCHANGED <<world, fixed, standing>>

\* Every child that is done is read; one that failed raises, and the run with
\* it, whatever else is open.
Reap ==
    /\ road.at = "wait"
    /\ LET done == road.children \ Open
           reaped == [road EXCEPT !.children = @ \ done, !.completed = TRUE,
                                  !.landed = [s \in Specs |-> IF s \in done THEN epics[s] ELSE @[s]]]
       IN  /\ done # {}
           /\ \/ \E s \in done : epics[s] = "failed"
                 /\ road' = [road EXCEPT !.at = "failed"] /\ UNCHANGED chain
              \/ /\ \A s \in done : epics[s] # "failed"
                 /\ IF reaped.children = {}
                    THEN /\ chain.turns < MaxTurns
                         /\ chain' = [chain EXCEPT !.turns = @ + 1]
                         /\ road' = Fresh(reaped.landed, {<<road.parked, road.promotions, road.paused>>})
                    ELSE road' = [reaped EXCEPT !.at = "read"] /\ UNCHANGED chain
    /\ UNCHANGED <<world, fixed, standing>>

Resumed ==
    /\ road.at \in {"paused", "held"} /\ ~road.paused
    /\ road' = [road EXCEPT !.at = IF road.at = "held" THEN "idle" ELSE "read"]
    /\ UNCHANGED <<world, fixed, chain, standing>>

\* A rescan, or the idle time is up; a pause is waited out first.
IdleEnds ==
    /\ road.at = "idle"
    /\ IF road.paused THEN road' = [road EXCEPT !.at = "held"] /\ UNCHANGED chain
       ELSE ContinueAsNew
    /\ UNCHANGED <<world, fixed, standing>>

-----------------------------------------------------------------------------
(* The operator and the epics *)

Word ==
    /\ words < MaxWord /\ words' = words + 1

Pause ==
    /\ Alive /\ Word
    /\ road' = [road EXCEPT !.paused = TRUE]
    /\ standing' = IF standing = "no" THEN "this pass" ELSE standing
    /\ UNCHANGED <<corpus, main, drift, epics, foreign, fixed, chain>>

Resume ==
    /\ Alive /\ Word /\ standing # "no"
    /\ road' = [road EXCEPT !.paused = FALSE]
    /\ standing' = "no"
    /\ UNCHANGED <<corpus, main, drift, epics, foreign, fixed, chain>>

\* promote_spec, unpark_spec and rescan.
Promote ==
    /\ Alive /\ Word
    /\ \E s \in Specs :
          \/ /\ road' = [road EXCEPT !.parked = @ \ {s}]
             /\ chain' = [chain EXCEPT !.tried[s] = IF @ = "parked" THEN "no" ELSE @]
          \/ /\ road' \in {[road EXCEPT !.promotions = @ \cup {s}], [road EXCEPT !.rescan = TRUE]}
             /\ UNCHANGED chain
    /\ UNCHANGED <<corpus, main, drift, epics, foreign, fixed, standing>>

\* The author edits a spec; nobody un-lands one.
EditSpec ==
    /\ Word
    /\ \E s \in Specs :
          \/ /\ corpus[s] # "landed"
             /\ \E state \in SpecState \ {corpus[s]} : corpus' = [corpus EXCEPT ![s] = state]
             /\ UNCHANGED drift
          \/ s \in main /\ drift' = drift \cup {s} /\ UNCHANGED corpus
    /\ UNCHANGED <<main, epics, foreign, road, fixed, chain, standing>>

ForeignEpic ==
    /\ Word /\ foreign' = ~foreign
    /\ UNCHANGED <<corpus, main, drift, epics, road, fixed, chain, standing>>

EpicEnds(s) ==
    /\ epics[s] = "open"
    /\ \E end \in {"landed", "unlanded", "failed"} :
          /\ epics' = [epics EXCEPT ![s] = end]
          /\ main' = IF end = "landed" THEN main \cup {s} ELSE main
    /\ drift' = drift \ {s}
    /\ UNCHANGED <<corpus, foreign, words, road, fixed, chain, standing>>

\* The schedule starts a new chain when the last one is over: nothing of it is
\* carried.
ScheduleFires ==
    /\ ~Alive /\ chain.starts < MaxChains
    /\ chain' = [starts |-> chain.starts + 1, turns |-> 1, tried |-> Untouched]
    /\ road' = Fresh(NoLanded, {})
    /\ UNCHANGED <<world, fixed, standing>>

RoadmapSteps == Boot \/ ReadCorpus \/ CorpusRefused \/ CountOpen \/ Dispatch \/ PassDone \/ Reap \/ Resumed \/ IdleEnds
RoadmapNext ==
    \/ RoadmapSteps \/ ScheduleFires
    \/ Pause \/ Resume \/ Promote \/ EditSpec \/ ForeignEpic \/ \E s \in Specs : EpicEnds(s)

RoadmapSpec == RoadmapInit /\ [][RoadmapNext]_rvars

-----------------------------------------------------------------------------
(* Properties *)

\* An epic is only ever open on landed ground: whatever turns over, is edited
\* or read in vain, each dependency is on the landing branch or attested.
StartsOnLandedGround ==
    \A s \in Specs : epics[s] = "open" => \A d \in deps[s] : d \in main \/ corpus[d] = "landed"

\* A chain starts a spec once, over all its turns, whatever became of it; and one
\* it parked it does not start before the operator has unparked it.
TriesOnce ==
    [][\A s \in Specs : epics[s] # "open" /\ epics'[s] = "open" => chain.tried[s] = "no"]_rvars

\* A spec that concluded in this chain is not started again by it.
ConcludedOnce ==
    [][\A s \in Specs : s \in road'.children \ road.children => road.landed[s] = "none"]_rvars

\* "a paused roadmap with no child in flight waits for resume_roadmap before
\* dispatching"
PauseIsKept ==
    [][\A s \in Specs : epics[s] # "open" /\ epics'[s] = "open" => standing # "before"]_rvars
=============================================================================
