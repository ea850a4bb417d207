--------------------------- MODULE Roadmap_proofs ---------------------------
(***************************************************************************)
(* The roadmap of Roadmap, for every corpus: any number of specs, any      *)
(* edges between them, any capacity, any number of chains, turns and       *)
(* operator's words.                                                       *)
(*                                                                         *)
(* StartsOnLandedGround is not inductive: between the reading that finds a *)
(* spec ready and its dispatch the operator edits the corpus, epics end    *)
(* and other specs are dispatched.  GroundInv carries the ground of every  *)
(* spec that is listed, and what makes the run's own record of what landed *)
(* as good as the landing branch's; both only grow.                        *)
(*                                                                         *)
(* TriesOnce needs to know where a run remembers what became of a spec:    *)
(* TriedInv, among the children or the landed once it is started, in the   *)
(* parks or in the carry-over of a turn once it is parked.                 *)
(***************************************************************************)
EXTENDS Roadmap, FiniteSetTheorems, TLAPS

\* What a spec stands on: each dependency is on the landing branch, or attested.
OnLandedGround(s) == \A d \in deps[s] : d \in main \/ corpus[d] = "landed"

\* What the run has seen land did, and so did what Temporal says ended landed.
LandedIsOnMain ==
    /\ \A s \in Specs : epics[s] = "landed" => s \in main
    /\ \A s \in Specs : road.landed[s] = "landed" => s \in main

\* A spec that still is to be dispatched stands on landed ground, and has not
\* concluded in this chain.
ListedIsReady ==
    road.at = "dispatch" => \A s \in road.todo : OnLandedGround(s) /\ road.landed[s] = "none"

\* What a spec that was parked untried is remembered by: the carry-over until
\* the run has taken it over, and the parks from then on.
ParkKept(s) ==
    IF road.at = "boot" THEN road.carry # {} /\ \A c \in road.carry : s \in c[1]
    ELSE s \in road.parked

\* The run remembers what became of each spec in its chain.
TriedInv ==
    /\ \A s \in Specs : chain.tried[s] = "started" => s \in road.children \/ road.landed[s] # "none"
    /\ \A s \in Specs : chain.tried[s] = "parked" => ParkKept(s)
    /\ \A s \in road.children : epics[s] # "none"
    /\ road.at \in {"idle", "held"} => road.children = {}
    /\ road.at = "dispatch" => road.todo \cap (road.children \cup road.parked) = {}

GroundInv == RoadmapTypeOK /\ LandedIsOnMain /\ ListedIsReady /\ StartsOnLandedGround /\ TriedInv

Chains == [starts : Nat, turns : Nat, tried : [Specs -> {"no", "parked", "started"}]]

-----------------------------------------------------------------------------
(* Lemmas *)

LEMMA FreshIsRun ==
    ASSUME NEW landed \in [Specs -> Landed],
           NEW carry \in SUBSET ((SUBSET Specs) \X (SUBSET Specs) \X BOOLEAN)
    PROVE  /\ Fresh(landed, carry) \in RunState
           /\ Fresh(landed, carry).at = "boot" /\ Fresh(landed, carry).landed = landed
           /\ Fresh(landed, carry).children = {} /\ Fresh(landed, carry).carry = carry
BY DEF Fresh, RunState, SpecState

\* A step of the run alone keeps the invariant when what it holds is landed is.
LEMMA RunKeeps ==
    ASSUME GroundInv, NEW r \in RunState, road' = r,
           UNCHANGED <<fixed, corpus, main, drift, epics, foreign>>, chain' \in Chains,
           words' \in 0..MaxWord, standing' \in {"no", "this pass", "before"},
           \A s \in Specs : r.landed[s] = "landed" => s \in main,
           r.at = "dispatch" => \A s \in r.todo : OnLandedGround(s) /\ r.landed[s] = "none",
           TriedInv'
    PROVE  GroundInv'
<1>1. RoadmapTypeOK'
    BY DEF GroundInv, RoadmapTypeOK, fixed, Chains
<1>2. LandedIsOnMain'
    BY DEF GroundInv, LandedIsOnMain
<1>3. ListedIsReady'
    BY DEF GroundInv, ListedIsReady, OnLandedGround, fixed
<1>4. StartsOnLandedGround'
    BY DEF GroundInv, StartsOnLandedGround, fixed
<1> QED BY <1>1, <1>2, <1>3, <1>4 DEF GroundInv

\* The bookkeeping that an action of the run leaves alone.
LEMMA BookkeepingStays ==
    ASSUME GroundInv, UNCHANGED <<world, standing>>
    PROVE  /\ UNCHANGED <<corpus, main, drift, epics, foreign>>
           /\ words' \in 0..MaxWord /\ standing' \in {"no", "this pass", "before"}
           /\ chain \in Chains
BY DEF GroundInv, RoadmapTypeOK, world, Chains

\* A turn hands on what the run knows: what landed in the new run's own record,
\* and the parks in its carry-over.
LEMMA TurnKeeps ==
    ASSUME GroundInv, UNCHANGED <<world, fixed, standing>>, NEW landed \in [Specs -> Landed],
           \A s \in Specs : landed[s] = "landed" => s \in main,
           \A s \in Specs : road.landed[s] # "none" \/ s \in road.children => landed[s] # "none",
           road.at # "boot", chain' = [chain EXCEPT !.turns = @ + 1],
           road' = Fresh(landed, {<<road.parked, road.promotions, road.paused>>})
    PROVE  GroundInv'
<1>1. road \in RunState /\ chain \in Chains
    BY BookkeepingStays DEF GroundInv, RoadmapTypeOK
<1> DEFINE carry == {<<road.parked, road.promotions, road.paused>>}
<1>2. /\ carry \in SUBSET ((SUBSET Specs) \X (SUBSET Specs) \X BOOLEAN)
      /\ carry # {} /\ \A c \in carry : c[1] = road.parked
    BY <1>1 DEF RunState
<1>3. PICK r : r = Fresh(landed, carry)
    OBVIOUS
<1>4. road' = r
    BY <1>3
<1> HIDE DEF carry
<1>5. /\ r \in RunState /\ r.at = "boot" /\ r.landed = landed
      /\ r.children = {} /\ r.carry = carry
    BY <1>2, <1>3, FreshIsRun
<1>6. chain' \in Chains /\ chain'.tried = chain.tried
    BY <1>1 DEF Chains
<1>7. TriedInv'
    <2>1. ASSUME NEW s \in Specs, chain'.tried[s] = "started" PROVE r.landed[s] # "none"
        BY <1>5, <1>6, <2>1 DEF GroundInv, TriedInv
    <2>2. ASSUME NEW s \in Specs, chain'.tried[s] = "parked" PROVE ParkKept(s)'
        BY <1>2, <1>4, <1>5, <1>6, <2>2 DEF GroundInv, TriedInv, ParkKept
    <2> QED BY <1>4, <1>5, <2>1, <2>2 DEF TriedInv
<1> QED BY <1>4, <1>5, <1>6, <1>7, BookkeepingStays, RunKeeps

LEMMA ContinueKeeps ==
    ASSUME GroundInv, UNCHANGED <<world, fixed, standing>>, ContinueAsNew,
           road.children = {}, road.at # "boot"
    PROVE  GroundInv'
<1>1. road.landed \in [Specs -> Landed] /\ \A s \in Specs : road.landed[s] = "landed" => s \in main
    BY DEF GroundInv, RoadmapTypeOK, RunState, LandedIsOnMain
<1> QED BY <1>1, TurnKeeps DEF ContinueAsNew

\* The run goes somewhere else, and nothing but its place changes.
LEMMA PlaceKeeps ==
    ASSUME GroundInv, UNCHANGED <<world, fixed, standing, chain>>, road.at # "boot",
           NEW place \in {"read", "wait", "idle", "paused", "held", "over", "failed"},
           road' = [road EXCEPT !.at = place],
           place \in {"idle", "held"} => road.children = {}
    PROVE  GroundInv'
<1>1. PICK r : r = [road EXCEPT !.at = place]
    OBVIOUS
<1>2. /\ r \in RunState /\ r.at = place /\ r.landed = road.landed
      /\ r.children = road.children /\ r.parked = road.parked
    BY <1>1 DEF GroundInv, RoadmapTypeOK, RunState
<1>3. UNCHANGED epics
    BY DEF world
<1>4. TriedInv'
    BY <1>1, <1>2, <1>3 DEF GroundInv, TriedInv, ParkKept
<1>5. \A s \in Specs : r.landed[s] = "landed" => s \in main
    BY <1>2 DEF GroundInv, LandedIsOnMain
<1> QED BY <1>1, <1>2, <1>4, <1>5, BookkeepingStays, RunKeeps

-----------------------------------------------------------------------------
(* The loop *)

LEMMA BootKeeps ==
    ASSUME GroundInv, Boot
    PROVE  GroundInv'
<1>1. road \in RunState
    BY DEF GroundInv, RoadmapTypeOK
<1>2. PICK r : r = road'
    OBVIOUS
<1>3. /\ r \in RunState /\ r.at = "read" /\ r.landed = road.landed /\ r.children = road.children
      /\ road.carry # {} => \E c \in road.carry : r.parked = c[1]
    <2>1. CASE road.carry = {}
        BY <1>1, <1>2, <2>1 DEF Boot, RunState
    <2>2. CASE road.carry # {}
        <3> DEFINE c == CHOOSE c \in road.carry : TRUE
        <3>1. c \in road.carry
            BY <2>2
        <3>2. c[1] \in SUBSET Specs /\ c[2] \in SUBSET Specs /\ c[3] \in BOOLEAN
            BY <1>1, <3>1 DEF RunState
        <3>3. r = [road EXCEPT !.at = "read", !.parked = c[1], !.promotions = c[2],
                               !.paused = c[3], !.rescan = FALSE, !.carry = {}]
            BY <1>2, <2>2 DEF Boot
        <3> HIDE DEF c
        <3>4. /\ r \in RunState /\ r.at = "read" /\ r.landed = road.landed
              /\ r.children = road.children /\ r.parked = c[1]
            BY <1>1, <3>2, <3>3 DEF RunState
        <3> QED BY <3>1, <3>4
    <2> QED BY <2>1, <2>2
<1>4. UNCHANGED <<world, fixed, chain, standing>> /\ UNCHANGED epics /\ road.at = "boot"
    BY DEF Boot, world
<1>5. TriedInv'
    <2>1. ASSUME NEW s \in Specs, chain.tried[s] = "parked" PROVE s \in r.parked
        BY <1>3, <1>4, <2>1 DEF GroundInv, TriedInv, ParkKept
    <2> QED BY <1>2, <1>3, <1>4, <2>1 DEF GroundInv, TriedInv, ParkKept
<1>6. \A s \in Specs : r.landed[s] = "landed" => s \in main
    BY <1>3 DEF GroundInv, LandedIsOnMain
<1> QED BY <1>2, <1>3, <1>4, <1>5, <1>6, BookkeepingStays, RunKeeps

\* A reading that calls a spec landed has it from the corpus.
LEMMA PromotedIsRead ==
    ASSUME RoadmapTypeOK
    PROVE  /\ apply_promotions \in [Specs -> SpecState]
           /\ \A s \in Specs : apply_promotions[s] = "landed" => corpus[s] = "landed"
BY DEF RoadmapTypeOK, apply_promotions, SpecState

\* What the landing branch confirms is on it.
LEMMA ComputedIsOnMain ==
    ASSUME RoadmapTypeOK, NEW read \in [Specs -> SpecState], NEW unread, NEW computed \in SUBSET Specs
    PROVE  /\ compute_landed(read, unread) \subseteq main \cap Specs
           /\ compute_drift(read, computed, unread) \subseteq Specs
BY DEF RoadmapTypeOK, compute_landed, landed_for_spec, compute_drift, drift_for_spec

\* A candidate stands on landed ground, by whatever answered for its dependencies.
LEMMA CandidateStands ==
    ASSUME RoadmapTypeOK, NEW r \in RunState, r.computed \subseteq main,
           \A s \in Specs : r.landed[s] = "landed" => s \in main,
           \A s \in Specs : r.read[s] = "landed" => corpus[s] = "landed",
           NEW s \in candidates(r)
    PROVE  /\ s \in Specs /\ OnLandedGround(s) /\ r.landed[s] = "none"
           /\ s \notin r.children \cup r.parked
<1>1. /\ s \in Specs /\ blockers(r, s) = {} /\ r.landed[s] = "none"
      /\ s \notin r.children \cup r.parked
    BY DEF candidates, candidate, dispatchable
<1>2. ASSUME NEW d \in deps[s] PROVE d \in main \/ corpus[d] = "landed"
    <2>1. d \in Specs
        BY <1>1, <1>2 DEF RoadmapTypeOK
    <2>2. observed(r, d) \/ r.read[d] = "landed"
        BY <1>1, <1>2 DEF blockers
    <2> QED BY <2>1, <2>2 DEF observed
<1> QED BY <1>1, <1>2 DEF OnLandedGround

LEMMA ReadCorpusKeeps ==
    ASSUME GroundInv, ReadCorpus
    PROVE  GroundInv'
<1>1. RoadmapTypeOK /\ road \in RunState
    BY DEF GroundInv, RoadmapTypeOK
<1>2. PICK unread \in {{}} \cup {{s} : s \in Specs} :
          LET read == apply_promotions
              computed == compute_landed(read, unread)
              pass == [road EXCEPT !.at = "dispatch", !.read = read, !.computed = computed,
                                   !.drifted = compute_drift(read, computed, unread), !.free = -1]
          IN  road' = [pass EXCEPT !.todo = candidates(pass), !.listed = candidates(pass)]
    BY DEF ReadCorpus
<1> DEFINE read == apply_promotions
           computed == compute_landed(read, unread)
           drifted == compute_drift(read, computed, unread)
           pass == [road EXCEPT !.at = "dispatch", !.read = read, !.computed = computed,
                                !.drifted = drifted, !.free = -1]
           ready == candidates(pass)
           r == [pass EXCEPT !.todo = ready, !.listed = ready]
<1>3. road' = r
    BY <1>2
<1>4. /\ read \in [Specs -> SpecState]
      /\ \A s \in Specs : read[s] = "landed" => corpus[s] = "landed"
    BY <1>1, PromotedIsRead
<1> HIDE DEF read
<1>5. computed \subseteq main \cap Specs
    BY <1>1, <1>4, ComputedIsOnMain
<1> HIDE DEF computed
<1>6. drifted \subseteq Specs
    BY <1>1, <1>4, <1>5, ComputedIsOnMain
<1> HIDE DEF drifted
<1>7. /\ pass \in RunState /\ pass.read = read /\ pass.computed = computed
      /\ pass.landed = road.landed /\ pass.at = "dispatch"
      /\ pass.children = road.children /\ pass.parked = road.parked
    BY <1>1, <1>4, <1>5, <1>6 DEF RunState
<1> HIDE DEF pass
<1>8. \A s \in ready : /\ s \in Specs /\ OnLandedGround(s) /\ pass.landed[s] = "none"
                        /\ s \notin pass.children \cup pass.parked
    BY <1>1, <1>4, <1>5, <1>7, CandidateStands DEF GroundInv, LandedIsOnMain
<1> HIDE DEF ready
<1>9. /\ r \in RunState /\ r.at = "dispatch" /\ r.landed = road.landed /\ r.todo = ready
      /\ r.children = road.children /\ r.parked = road.parked
    BY <1>7, <1>8 DEF RunState
<1> HIDE DEF r
<1>10. TriedInv'
    <2>1. road.at = "read" /\ UNCHANGED <<epics, chain>>
        BY DEF ReadCorpus, world
    <2>2. r.todo \cap (r.children \cup r.parked) = {}
        BY <1>7, <1>8, <1>9
    <2> QED BY <1>3, <1>9, <2>1, <2>2 DEF GroundInv, TriedInv, ParkKept
<1>11. \A s \in r.todo : OnLandedGround(s) /\ r.landed[s] = "none"
    BY <1>7, <1>8, <1>9
<1>12. \A s \in Specs : r.landed[s] = "landed" => s \in main
    BY <1>9 DEF GroundInv, LandedIsOnMain
<1>13. standing' \in {"no", "this pass", "before"} /\ words' \in 0..MaxWord /\ chain' \in Chains
    BY <1>1 DEF ReadCorpus, RoadmapTypeOK, world, Chains
<1>14. UNCHANGED <<fixed, corpus, main, drift, epics, foreign>>
    BY DEF ReadCorpus, world
<1> QED BY <1>3, <1>9, <1>10, <1>11, <1>12, <1>13, <1>14, RunKeeps

LEMMA CorpusRefusedKeeps ==
    ASSUME GroundInv, CorpusRefused
    PROVE  GroundInv'
BY PlaceKeeps DEF CorpusRefused

\* Room is never less than none.
LEMMA RoomIsNatural ==
    ASSUME RoadmapTypeOK
    PROVE  Cardinality(Open) + (IF foreign THEN 1 ELSE 0) \in Nat
<1>1. S \in Int /\ 1 \in Int
    BY RoadmapAssumption
<1>2. IsFiniteSet(Specs)
    BY <1>1, FS_Interval DEF Specs
<1>3. IsFiniteSet(Open) /\ Cardinality(Open) \in Nat
    BY <1>2, FS_Subset, FS_CardinalityType DEF Open
<1> QED BY <1>3

LEMMA CountOpenKeeps ==
    ASSUME GroundInv, CountOpen
    PROVE  GroundInv'
<1> DEFINE open == Cardinality(Open) + (IF foreign THEN 1 ELSE 0)
           free == IF road.todo = {} \/ road.paused \/ open > cap THEN 0 ELSE cap - open
           r == [road EXCEPT !.free = free, !.todo = FirstOf(free, road.todo)]
<1>1. RoadmapTypeOK /\ road \in RunState /\ cap \in Nat
    BY DEF GroundInv, RoadmapTypeOK
<1>2. road' = r /\ road.at = "dispatch"
    BY DEF CountOpen
<1>3. open \in Nat
    BY <1>1, RoomIsNatural
<1> HIDE DEF open
<1>4. free \in Nat
    BY <1>1, <1>3
<1> HIDE DEF free
<1>5. FirstOf(free, road.todo) \subseteq road.todo
    BY DEF FirstOf
<1>6. /\ r \in RunState /\ r.at = "dispatch" /\ r.landed = road.landed
      /\ r.todo \subseteq road.todo /\ r.children = road.children /\ r.parked = road.parked
    BY <1>1, <1>2, <1>4, <1>5 DEF RunState
<1> HIDE DEF r
<1>7. TriedInv'
    <2>1. UNCHANGED <<epics, chain>>
        BY DEF CountOpen, world
    <2> QED BY <1>2, <1>6, <2>1 DEF GroundInv, TriedInv, ParkKept
<1>8. /\ \A s \in r.todo : OnLandedGround(s) /\ r.landed[s] = "none"
      /\ \A s \in Specs : r.landed[s] = "landed" => s \in main
    BY <1>2, <1>6 DEF GroundInv, LandedIsOnMain, ListedIsReady
<1> QED BY <1>2, <1>6, <1>7, <1>8, BookkeepingStays, RunKeeps DEF CountOpen

LEMMA DispatchKeeps ==
    ASSUME GroundInv, Dispatch
    PROVE  GroundInv'
<1>1. RoadmapTypeOK /\ road \in RunState /\ road.at = "dispatch" /\ chain \in Chains
    BY DEF GroundInv, RoadmapTypeOK, Dispatch, Chains
<1>2. PICK s \in road.todo :
          LET rest == [road EXCEPT !.todo = @ \ {s}]
          IN  \/ /\ \/ /\ road' = [rest EXCEPT !.parked = @ \cup {s}]
                       /\ chain' = [chain EXCEPT !.tried[s] = "parked"]
                    \/ road' = [rest EXCEPT !.at = "failed"] /\ UNCHANGED chain
                 /\ UNCHANGED epics
              \/ /\ epics' = [epics EXCEPT ![s] = "open"]
                 /\ road' = [rest EXCEPT !.children = @ \cup {s}]
                 /\ chain' = [chain EXCEPT !.tried[s] = "started"]
    BY DEF Dispatch
<1> DEFINE rest == [road EXCEPT !.todo = @ \ {s}]
           as(what) == [chain EXCEPT !.tried[s] = what]
<1>3. /\ s \in Specs /\ OnLandedGround(s) /\ road.landed[s] = "none"
      /\ s \notin road.children /\ s \notin road.parked
      /\ rest \in RunState /\ rest.landed = road.landed /\ rest.at = "dispatch"
      /\ rest.todo = road.todo \ {s} /\ rest.children = road.children /\ rest.parked = road.parked
    BY <1>1 DEF RunState, GroundInv, ListedIsReady, TriedInv
<1>4. /\ UNCHANGED <<corpus, main, drift, foreign, words, fixed, standing>>
      /\ words' \in 0..MaxWord /\ standing' \in {"no", "this pass", "before"}
    BY <1>1 DEF Dispatch, RoadmapTypeOK
<1>5. PICK r : r = road'
    OBVIOUS
<1>6. /\ \A t \in Specs : road.landed[t] = "landed" => t \in main
      /\ \A t \in road.todo : OnLandedGround(t) /\ road.landed[t] = "none"
      /\ road.todo \cap (road.children \cup road.parked) = {}
    BY <1>1 DEF GroundInv, LandedIsOnMain, ListedIsReady, TriedInv
<1>7. ASSUME NEW what \in {"parked", "started"}
      PROVE  /\ as(what) \in Chains
             /\ \A t \in Specs : as(what).tried[t] = IF t = s THEN what ELSE chain.tried[t]
    BY <1>1, <1>3 DEF Chains
<1>8. /\ \A t \in Specs : chain.tried[t] = "started"
                           => t \in road.children \/ road.landed[t] # "none"
      /\ \A t \in Specs : chain.tried[t] = "parked" => t \in road.parked
      /\ \A t \in road.children : epics[t] # "none"
    BY <1>1 DEF GroundInv, TriedInv, ParkKept
<1> HIDE DEF rest, as
<1>9. CASE /\ road' = [rest EXCEPT !.parked = @ \cup {s}] /\ chain' = as("parked")
           /\ UNCHANGED epics
    <2>1. /\ r \in RunState /\ r.landed = road.landed /\ r.at = "dispatch"
          /\ r.todo = road.todo \ {s} /\ r.children = road.children
          /\ r.parked = road.parked \cup {s}
        BY <1>3, <1>5, <1>9 DEF RunState
    <2>2. TriedInv'
        <3>1. \A t \in r.children : epics'[t] # "none"
            BY <1>8, <1>9, <2>1
        <3>2. r.todo \cap (r.children \cup r.parked) = {}
            BY <1>6, <2>1
        <3>3. \A t \in Specs : chain'.tried[t] = "started"
                               => t \in r.children \/ r.landed[t] # "none"
            BY <1>7, <1>8, <1>9, <2>1
        <3>4. \A t \in Specs : chain'.tried[t] = "parked" => t \in r.parked
            BY <1>7, <1>8, <1>9, <2>1
        <3> QED BY <1>5, <2>1, <3>1, <3>2, <3>3, <3>4 DEF TriedInv, ParkKept
    <2>3. /\ \A t \in Specs : r.landed[t] = "landed" => t \in main
          /\ \A t \in r.todo : OnLandedGround(t) /\ r.landed[t] = "none"
        BY <1>6, <2>1
    <2> QED BY <1>4, <1>5, <1>7, <1>9, <2>1, <2>2, <2>3, RunKeeps
<1>10. CASE road' = [rest EXCEPT !.at = "failed"] /\ UNCHANGED <<chain, epics>>
    <2>1. /\ r \in RunState /\ r.landed = road.landed /\ r.at = "failed"
          /\ r.children = road.children /\ r.parked = road.parked
        BY <1>3, <1>5, <1>10 DEF RunState
    <2>2. TriedInv'
        BY <1>5, <1>8, <1>10, <2>1 DEF TriedInv, ParkKept
    <2>3. \A t \in Specs : r.landed[t] = "landed" => t \in main
        BY <1>6, <2>1
    <2> QED BY <1>1, <1>4, <1>5, <1>10, <2>1, <2>2, <2>3, RunKeeps
<1>11. CASE /\ epics' = [epics EXCEPT ![s] = "open"] /\ chain' = as("started")
            /\ road' = [rest EXCEPT !.children = @ \cup {s}]
    <2>1. /\ r \in RunState /\ r.landed = road.landed /\ r.at = "dispatch"
          /\ r.todo = road.todo \ {s} /\ r.children = road.children \cup {s}
          /\ r.parked = road.parked
        BY <1>3, <1>5, <1>11 DEF RunState
    <2>2. chain' \in Chains
        BY <1>7, <1>11
    <2>3. RoadmapTypeOK'
        BY <1>1, <1>3, <1>4, <1>5, <1>11, <2>1, <2>2 DEF RoadmapTypeOK, EpicStates, fixed, Chains
    <2>4. \A t \in Specs : epics'[t] = IF t = s THEN "open" ELSE epics[t]
        BY <1>1, <1>3, <1>11 DEF RoadmapTypeOK
    <2>5. LandedIsOnMain'
        BY <1>4, <1>5, <2>1, <2>4 DEF GroundInv, LandedIsOnMain
    <2>6. ListedIsReady'
        BY <1>4, <1>5, <1>6, <2>1 DEF ListedIsReady, OnLandedGround, fixed
    <2>7. StartsOnLandedGround'
        BY <1>3, <1>4, <2>4 DEF GroundInv, StartsOnLandedGround, OnLandedGround, fixed
    <2>8. TriedInv'
        <3>1. \A t \in r.children : t \in Specs /\ epics'[t] # "none"
            BY <1>8, <2>1, <2>4 DEF RunState
        <3>2. r.todo \cap (r.children \cup r.parked) = {}
            BY <1>6, <2>1
        <3>3. \A t \in Specs : chain'.tried[t] = "started"
                               => t \in r.children \/ r.landed[t] # "none"
            BY <1>7, <1>8, <1>11, <2>1
        <3>4. \A t \in Specs : chain'.tried[t] = "parked" => t \in r.parked
            BY <1>7, <1>8, <1>11, <2>1
        <3> QED BY <1>5, <2>1, <3>1, <3>2, <3>3, <3>4 DEF TriedInv, ParkKept
    <2> QED BY <2>3, <2>5, <2>6, <2>7, <2>8 DEF GroundInv
<1> QED BY <1>2, <1>9, <1>10, <1>11 DEF rest, as

LEMMA PassDoneKeeps ==
    ASSUME GroundInv, PassDone
    PROVE  GroundInv'
<1>1. UNCHANGED <<world, fixed, standing>> /\ road.at = "dispatch"
    BY DEF PassDone
<1>2. CASE /\ \E place \in {"read", "wait", "idle", "paused", "over"} :
                 /\ road' = [road EXCEPT !.at = place]
                 /\ place = "idle" => road.children = {}
           /\ UNCHANGED chain
    BY <1>1, <1>2, PlaceKeeps
<1>3. CASE ContinueAsNew /\ road.children = {}
    BY <1>1, <1>3, ContinueKeeps
<1> QED BY <1>2, <1>3 DEF PassDone

\* What a reaped child says it landed, is on the landing branch.
LEMMA ReapKeeps ==
    ASSUME GroundInv, Reap
    PROVE  GroundInv'
<1> DEFINE done == road.children \ Open
           landed == [s \in Specs |-> IF s \in done THEN epics[s] ELSE road.landed[s]]
           reaped == [road EXCEPT !.children = @ \ done, !.completed = TRUE, !.landed = landed]
<1>1. /\ RoadmapTypeOK /\ road \in RunState /\ UNCHANGED <<world, fixed, standing>>
      /\ road.at = "wait"
    BY DEF GroundInv, RoadmapTypeOK, Reap
<1>2. CASE road' = [road EXCEPT !.at = "failed"] /\ UNCHANGED chain
    BY <1>1, <1>2, PlaceKeeps
<1>3. CASE \A s \in done : epics[s] # "failed"
    <2>1. landed \in [Specs -> Landed]
        <3>1. ASSUME NEW s \in Specs PROVE landed[s] \in Landed
            BY <1>1, <1>3 DEF RoadmapTypeOK, RunState, EpicStates, Landed, Open
        <3> QED BY <3>1
    <2>2. \A s \in Specs : landed[s] = "landed" => s \in main
        BY DEF GroundInv, LandedIsOnMain
    <2>3. \A s \in Specs : road.landed[s] # "none" \/ s \in done => landed[s] # "none"
        BY DEF GroundInv, TriedInv
    <2> HIDE DEF landed
    <2>4. /\ reaped \in RunState /\ reaped.landed = landed /\ reaped.children = road.children \ done
          /\ reaped.parked = road.parked
        BY <1>1, <2>1 DEF RunState
    <2> HIDE DEF reaped
    <2>5. CASE /\ reaped.children = {} /\ chain' = [chain EXCEPT !.turns = @ + 1]
               /\ road' = Fresh(reaped.landed, {<<road.parked, road.promotions, road.paused>>})
        <3>1. road.children = done
            BY <2>4, <2>5
        <3> QED BY <1>1, <2>1, <2>2, <2>3, <2>4, <2>5, <3>1, TurnKeeps
    <2>6. CASE road' = [reaped EXCEPT !.at = "read"] /\ UNCHANGED chain
        <3>1. PICK r : r = [reaped EXCEPT !.at = "read"]
            OBVIOUS
        <3>2. /\ r \in RunState /\ r.at = "read" /\ r.landed = landed
              /\ r.children = road.children \ done /\ r.parked = road.parked
            BY <2>4, <3>1 DEF RunState
        <3>3. TriedInv'
            <4>1. UNCHANGED <<epics, chain>>
                BY <1>1, <2>6 DEF world
            <4>2. \A s \in Specs : chain.tried[s] = "started"
                                   => s \in r.children \/ r.landed[s] # "none"
                BY <2>3, <3>2 DEF GroundInv, TriedInv
            <4> QED BY <1>1, <2>6, <3>1, <3>2, <4>1, <4>2 DEF GroundInv, TriedInv, ParkKept
        <3> QED BY <1>1, <2>2, <2>6, <3>1, <3>2, <3>3, BookkeepingStays, RunKeeps
    <2> QED BY <1>2, <2>5, <2>6 DEF Reap, landed, reaped
<1> QED BY <1>2, <1>3 DEF Reap

LEMMA WaitsKeep ==
    ASSUME GroundInv, Resumed \/ IdleEnds
    PROVE  GroundInv'
<1>1. CASE Resumed
    BY <1>1, PlaceKeeps DEF Resumed, GroundInv, TriedInv
<1>2. CASE IdleEnds
    <2>1. UNCHANGED <<world, fixed, standing>> /\ road.at = "idle" /\ road.children = {}
        BY <1>2 DEF IdleEnds, GroundInv, TriedInv
    <2>2. CASE road' = [road EXCEPT !.at = "held"] /\ UNCHANGED chain
        BY <2>1, <2>2, PlaceKeeps
    <2>3. CASE ContinueAsNew
        BY <2>1, <2>3, ContinueKeeps
    <2> QED BY <1>2, <2>2, <2>3 DEF IdleEnds
<1> QED BY <1>1, <1>2

-----------------------------------------------------------------------------
(* The operator and the epics *)

LEMMA WordCounts ==
    ASSUME RoadmapTypeOK, Word
    PROVE  words' \in 0..MaxWord
<1>1. MaxWord \in Nat
    BY RoadmapAssumption
<1>2. words \in 0..MaxWord
    BY DEF RoadmapTypeOK
<1>3. words < MaxWord /\ words' = words + 1
    BY DEF Word
<1> QED BY <1>1, <1>2, <1>3

\* A word that sets nothing the invariant reads, to a run that is not over.
LEMMA WordKeeps ==
    ASSUME GroundInv, Alive, Word, UNCHANGED <<corpus, main, drift, epics, foreign, fixed>>,
           standing' \in {"no", "this pass", "before"},
           NEW r \in RunState, road' = r, r.at = road.at, r.landed = road.landed,
           r.todo = road.todo, chain' \in Chains, TriedInv'
    PROVE  GroundInv'
<1>1. words' \in 0..MaxWord
    BY WordCounts DEF GroundInv
<1>3. \A s \in Specs : r.landed[s] = "landed" => s \in main
    BY DEF GroundInv, LandedIsOnMain
<1>4. r.at = "dispatch" => \A s \in r.todo : OnLandedGround(s) /\ r.landed[s] = "none"
    BY DEF GroundInv, ListedIsReady
<1> QED BY <1>1, <1>3, <1>4, RunKeeps

LEMMA OperatorKeeps ==
    ASSUME GroundInv, Pause \/ Resume \/ Promote
    PROVE  GroundInv'
<1>1. road \in RunState /\ standing \in {"no", "this pass", "before"} /\ chain \in Chains
    BY DEF GroundInv, RoadmapTypeOK, Chains
<1>2. /\ Alive /\ Word /\ UNCHANGED <<corpus, main, drift, epics, foreign, fixed>>
      /\ standing' \in {"no", "this pass", "before"}
    BY <1>1 DEF Pause, Resume, Promote
<1>3. PICK r : r = road'
    OBVIOUS
<1>4. CASE UNCHANGED chain /\ r \in {[road EXCEPT !.paused = TRUE], [road EXCEPT !.paused = FALSE],
                                     [road EXCEPT !.rescan = TRUE]}
    <2>1. /\ r \in RunState /\ r.at = road.at /\ r.landed = road.landed /\ r.todo = road.todo
          /\ r.children = road.children /\ r.parked = road.parked /\ r.carry = road.carry
        <3>1. CASE r = [road EXCEPT !.paused = TRUE]
            BY <1>1, <3>1 DEF RunState
        <3>2. CASE r = [road EXCEPT !.paused = FALSE]
            BY <1>1, <3>2 DEF RunState
        <3>3. CASE r = [road EXCEPT !.rescan = TRUE]
            BY <1>1, <3>3 DEF RunState
        <3> QED BY <1>4, <3>1, <3>2, <3>3
    <2>2. TriedInv'
        BY <1>2, <1>3, <1>4, <2>1 DEF GroundInv, TriedInv, ParkKept
    <2> QED BY <1>1, <1>2, <1>3, <1>4, <2>1, <2>2, WordKeeps
<1>5. ASSUME NEW s \in Specs, UNCHANGED chain, r = [road EXCEPT !.promotions = @ \cup {s}]
      PROVE  GroundInv'
    <2>1. /\ r \in RunState /\ r.at = road.at /\ r.landed = road.landed /\ r.todo = road.todo
          /\ r.children = road.children /\ r.parked = road.parked /\ r.carry = road.carry
        BY <1>1, <1>5 DEF RunState
    <2>2. TriedInv'
        BY <1>2, <1>3, <1>5, <2>1 DEF GroundInv, TriedInv, ParkKept
    <2> QED BY <1>1, <1>2, <1>3, <1>5, <2>1, <2>2, WordKeeps
<1>6. ASSUME NEW s \in Specs, r = [road EXCEPT !.parked = @ \ {s}],
             chain' = [chain EXCEPT !.tried[s] = IF @ = "parked" THEN "no" ELSE @]
      PROVE  GroundInv'
    <2>1. /\ r \in RunState /\ r.at = road.at /\ r.landed = road.landed /\ r.todo = road.todo
          /\ r.children = road.children /\ r.parked = road.parked \ {s} /\ r.carry = road.carry
        BY <1>1, <1>6 DEF RunState
    <2>2. /\ chain' \in Chains
          /\ \A t \in Specs : chain'.tried[t] = IF t = s /\ chain.tried[t] = "parked" THEN "no"
                                                ELSE chain.tried[t]
        BY <1>1, <1>6 DEF Chains
    <2>3. TriedInv'
        <3>1. ASSUME NEW t \in Specs, chain'.tried[t] = "parked" PROVE t # s /\ ParkKept(t)
            BY <2>2, <3>1 DEF GroundInv, TriedInv
        <3>2. \A t \in Specs : chain'.tried[t] = "parked" => ParkKept(t)'
            BY <1>3, <2>1, <3>1 DEF ParkKept
        <3>3. \A t \in Specs : chain'.tried[t] = "started"
                               => t \in r.children \/ r.landed[t] # "none"
            BY <2>1, <2>2 DEF GroundInv, TriedInv
        <3>4. /\ \A t \in r.children : epics'[t] # "none"
              /\ r.at \in {"idle", "held"} => r.children = {}
              /\ r.at = "dispatch" => r.todo \cap (r.children \cup r.parked) = {}
            BY <1>2, <2>1 DEF GroundInv, TriedInv
        <3> QED BY <1>3, <3>2, <3>3, <3>4 DEF TriedInv
    <2> QED BY <1>2, <1>3, <2>1, <2>2, <2>3, WordKeeps
<1>7. CASE Promote
    <2>1. PICK s \in Specs :
             \/ /\ r = [road EXCEPT !.parked = @ \ {s}]
                /\ chain' = [chain EXCEPT !.tried[s] = IF @ = "parked" THEN "no" ELSE @]
             \/ /\ r \in {[road EXCEPT !.promotions = @ \cup {s}], [road EXCEPT !.rescan = TRUE]}
                /\ UNCHANGED chain
        BY <1>3, <1>7 DEF Promote
    <2> QED BY <1>4, <1>5, <1>6, <2>1
<1> QED BY <1>3, <1>4, <1>7 DEF Pause, Resume

\* The ground only grows: what is landed on the branch or in the corpus stays so.
LEMMA GroundGrows ==
    ASSUME RoadmapTypeOK, EditSpec \/ \E s \in Specs : EpicEnds(s)
    PROVE  /\ UNCHANGED deps /\ main \subseteq main'
           /\ \A d \in Specs : corpus[d] = "landed" => corpus'[d] = "landed"
           /\ \A s \in Specs : OnLandedGround(s) => OnLandedGround(s)'
<1>1. UNCHANGED deps /\ main \subseteq main'
    BY DEF EditSpec, EpicEnds, fixed
<1>2. \A d \in Specs : corpus[d] = "landed" => corpus'[d] = "landed"
    <2>1. CASE EditSpec
        <3>1. \/ UNCHANGED corpus
              \/ \E s \in Specs, state \in SpecState :
                    corpus[s] # "landed" /\ corpus' = [corpus EXCEPT ![s] = state]
            BY <2>1 DEF EditSpec
        <3> QED BY <3>1 DEF RoadmapTypeOK
    <2> QED BY <2>1 DEF EpicEnds
<1>3. \A s \in Specs : deps[s] \subseteq Specs
    BY DEF RoadmapTypeOK
<1> QED BY <1>1, <1>2, <1>3 DEF OnLandedGround

LEMMA EditSpecKeeps ==
    ASSUME GroundInv, EditSpec
    PROVE  GroundInv'
<1>1. RoadmapTypeOK /\ UNCHANGED <<main, epics, foreign, road, fixed, chain, standing>>
    BY DEF GroundInv, EditSpec
<1>2. words' \in 0..MaxWord
    BY <1>1, WordCounts DEF EditSpec
<1>3. corpus' \in [Specs -> SpecState] /\ drift' \subseteq Specs
    <2>1. PICK s \in Specs :
              \/ /\ \E state \in SpecState \ {corpus[s]} : corpus' = [corpus EXCEPT ![s] = state]
                 /\ UNCHANGED drift
              \/ s \in main /\ drift' = drift \cup {s} /\ UNCHANGED corpus
        BY DEF EditSpec
    <2>2. CASE s \in main /\ drift' = drift \cup {s} /\ UNCHANGED corpus
        BY <1>1, <2>2 DEF RoadmapTypeOK
    <2>3. ASSUME NEW state \in SpecState, corpus' = [corpus EXCEPT ![s] = state], UNCHANGED drift
          PROVE  corpus' \in [Specs -> SpecState] /\ drift' \subseteq Specs
        BY <1>1, <2>3 DEF RoadmapTypeOK
    <2> QED BY <2>1, <2>2, <2>3
<1>4. RoadmapTypeOK'
    BY <1>1, <1>2, <1>3 DEF RoadmapTypeOK, fixed
<1>5. LandedIsOnMain'
    BY <1>1 DEF GroundInv, LandedIsOnMain
<1>6. \A s \in Specs : OnLandedGround(s) => OnLandedGround(s)'
    BY <1>1, GroundGrows
<1>7. ListedIsReady'
    <2>1. road.todo \subseteq Specs
        BY <1>1 DEF RoadmapTypeOK, RunState
    <2> QED BY <1>1, <1>6, <2>1 DEF GroundInv, ListedIsReady
<1>8. StartsOnLandedGround'
    BY <1>1, <1>6 DEF GroundInv, StartsOnLandedGround, OnLandedGround
<1>9. TriedInv'
    BY <1>1 DEF GroundInv, TriedInv, ParkKept
<1> QED BY <1>4, <1>5, <1>7, <1>8, <1>9 DEF GroundInv

LEMMA ForeignEpicKeeps ==
    ASSUME GroundInv, ForeignEpic
    PROVE  GroundInv'
<1>1. RoadmapTypeOK'
    <2>1. RoadmapTypeOK /\ words' \in 0..MaxWord
        BY WordCounts DEF GroundInv, ForeignEpic
    <2> QED BY <2>1 DEF RoadmapTypeOK, ForeignEpic, fixed
<1> QED BY <1>1 DEF GroundInv, LandedIsOnMain, ListedIsReady, OnLandedGround, StartsOnLandedGround,
            TriedInv, ParkKept, ForeignEpic, fixed

LEMMA EpicEndsKeeps ==
    ASSUME GroundInv, NEW s \in Specs, EpicEnds(s)
    PROVE  GroundInv'
<1>1. RoadmapTypeOK /\ UNCHANGED <<corpus, foreign, words, road, fixed, chain, standing>>
    BY DEF GroundInv, EpicEnds
<1>2. PICK end \in {"landed", "unlanded", "failed"} :
          /\ epics' = [epics EXCEPT ![s] = end]
          /\ main' = IF end = "landed" THEN main \cup {s} ELSE main
    BY DEF EpicEnds
<1>3. \A t \in Specs : epics'[t] = IF t = s THEN end ELSE epics[t]
    BY <1>1, <1>2 DEF RoadmapTypeOK
<1>4. RoadmapTypeOK'
    <2>1. epics' \in [Specs -> EpicStates]
        BY <1>1, <1>2 DEF RoadmapTypeOK, EpicStates
    <2>2. main' \subseteq Specs /\ drift' \subseteq Specs
        BY <1>1, <1>2 DEF RoadmapTypeOK, EpicEnds
    <2> QED BY <1>1, <2>1, <2>2 DEF RoadmapTypeOK, fixed
<1>5. LandedIsOnMain'
    BY <1>1, <1>2, <1>3 DEF GroundInv, LandedIsOnMain
<1>6. UNCHANGED deps /\ \A t \in Specs : OnLandedGround(t) => OnLandedGround(t)'
    BY <1>1, GroundGrows
<1>7. ListedIsReady'
    <2>1. road.todo \subseteq Specs
        BY <1>1 DEF RoadmapTypeOK, RunState
    <2> QED BY <1>1, <1>6, <2>1 DEF GroundInv, ListedIsReady
<1>8. StartsOnLandedGround'
    BY <1>3, <1>6 DEF GroundInv, StartsOnLandedGround, OnLandedGround
<1>9. TriedInv'
    <2>1. \A t \in road.children : t \in Specs /\ epics[t] # "none"
        BY <1>1 DEF GroundInv, TriedInv, RoadmapTypeOK, RunState
    <2>2. \A t \in road.children : epics'[t] # "none"
        BY <1>3, <2>1
    <2> QED BY <1>1, <2>2 DEF GroundInv, TriedInv, ParkKept
<1> QED BY <1>4, <1>5, <1>7, <1>8, <1>9 DEF GroundInv

LEMMA FirstRunOfChain ==
    /\ Fresh(NoLanded, {}) \in RunState /\ Fresh(NoLanded, {}).at = "boot"
    /\ \A s \in Specs : Fresh(NoLanded, {}).landed[s] = "none"
    /\ Fresh(NoLanded, {}).children = {}
<1>1. NoLanded \in [Specs -> Landed] /\ \A s \in Specs : NoLanded[s] = "none"
    BY DEF NoLanded, Landed
<1> QED BY <1>1, FreshIsRun

LEMMA ScheduleFiresKeeps ==
    ASSUME GroundInv, ScheduleFires
    PROVE  GroundInv'
<1>1. PICK r : r = Fresh(NoLanded, {})
    OBVIOUS
<1>2. r \in RunState /\ r.at = "boot" /\ r.children = {} /\ \A s \in Specs : r.landed[s] = "none"
    BY <1>1, FirstRunOfChain
<1>3. road' = r /\ UNCHANGED <<world, fixed, standing>>
    BY <1>1 DEF ScheduleFires
<1>4. chain' \in Chains /\ \A s \in Specs : chain'.tried[s] = "no"
    <2>1. chain.starts + 1 \in Nat /\ 1 \in Nat
        <3>1. chain.starts \in Nat
            BY DEF GroundInv, RoadmapTypeOK
        <3> QED BY <3>1
    <2>2. /\ Untouched \in [Specs -> {"no", "parked", "started"}]
          /\ \A s \in Specs : Untouched[s] = "no"
        BY DEF Untouched
    <2> QED BY <2>1, <2>2 DEF ScheduleFires, Chains
<1>5. TriedInv'
    BY <1>2, <1>3, <1>4 DEF TriedInv
<1> QED BY <1>2, <1>3, <1>4, <1>5, BookkeepingStays, RunKeeps

-----------------------------------------------------------------------------
(* Theorems *)

LEMMA GroundInit ==
    ASSUME RoadmapInit
    PROVE  GroundInv
<1>1. deps \in [Specs -> SUBSET Specs] /\ cap \in Nat /\ corpus \in [Specs -> SpecState] /\ 0 \in 0..MaxWord
    BY RoadmapAssumption DEF RoadmapInit
<1>2. /\ road \in RunState /\ road.at = "boot" /\ road.children = {}
      /\ \A s \in Specs : road.landed[s] = "none"
    BY FirstRunOfChain DEF RoadmapInit
<1>3. epics \in [Specs -> EpicStates] /\ \A s \in Specs : epics[s] = "none"
    BY DEF RoadmapInit, EpicStates
<1>4. chain \in Chains /\ \A s \in Specs : chain.tried[s] = "no"
    BY DEF RoadmapInit, Chains, Untouched
<1>5. RoadmapTypeOK
    BY <1>1, <1>2, <1>3, <1>4 DEF RoadmapTypeOK, RoadmapInit, Chains
<1>6. TriedInv
    BY <1>2, <1>4 DEF TriedInv
<1> QED BY <1>2, <1>3, <1>5, <1>6 DEF GroundInv, LandedIsOnMain, ListedIsReady, StartsOnLandedGround

LEMMA GroundNext ==
    ASSUME GroundInv, [RoadmapNext]_rvars
    PROVE  GroundInv'
<1>1. CASE UNCHANGED rvars
    BY <1>1 DEF GroundInv, RoadmapTypeOK, LandedIsOnMain, ListedIsReady, OnLandedGround,
                StartsOnLandedGround, TriedInv, ParkKept, rvars
<1>2. CASE RoadmapSteps
    BY <1>2, BootKeeps, ReadCorpusKeeps, CorpusRefusedKeeps, CountOpenKeeps, DispatchKeeps,
       PassDoneKeeps, ReapKeeps, WaitsKeep DEF RoadmapSteps
<1>3. CASE ScheduleFires
    BY <1>3, ScheduleFiresKeeps
<1>4. CASE Pause \/ Resume \/ Promote
    BY <1>4, OperatorKeeps
<1>5. CASE EditSpec \/ ForeignEpic
    BY <1>5, EditSpecKeeps, ForeignEpicKeeps
<1>6. CASE \E s \in Specs : EpicEnds(s)
    BY <1>6, EpicEndsKeeps
<1> QED BY <1>1, <1>2, <1>3, <1>4, <1>5, <1>6 DEF RoadmapNext

\* The inductive invariant of every roadmap (roadmap/workflow.py, _run_inner).
THEOREM RoadmapInvariant ==
    RoadmapSpec => []GroundInv
<1>1. RoadmapInit => GroundInv
    BY GroundInit
<1>2. GroundInv /\ [RoadmapNext]_rvars => GroundInv'
    BY GroundNext
<1> QED BY <1>1, <1>2, PTL DEF RoadmapSpec

\* An epic is only ever open on landed ground, in every corpus, however turns,
\* edits, promotions and failed readings fall (roadmap/workflow.py, compute_readiness).
THEOREM AlwaysStartsOnLandedGround ==
    RoadmapSpec => []StartsOnLandedGround
<1>1. GroundInv => StartsOnLandedGround
    BY DEF GroundInv
<1> QED BY <1>1, RoadmapInvariant, PTL

\* No step starts a spec that has concluded in this chain (roadmap/workflow.py,
\* _landed): a run adds a child by dispatching it, and lists none it saw end.
LEMMA StepStartsFresh ==
    ASSUME GroundInv, [RoadmapNext]_rvars
    PROVE  \A s \in Specs : s \in road'.children \ road.children => road.landed[s] = "none"
<1> SUFFICES ASSUME NEW s \in Specs, s \in road'.children, s \notin road.children
             PROVE  road.landed[s] = "none"
    OBVIOUS
<1>1. road \in RunState
    BY DEF GroundInv, RoadmapTypeOK
<1>2. \A landed, carry : Fresh(landed, carry).children = {}
    BY DEF Fresh
<1>3. Dispatch
    <2>1. ~UNCHANGED road
        OBVIOUS
    <2>2. ~(Boot \/ CorpusRefused \/ Resumed)
        <3>1. ~Boot
            <4>1. \A c : [road EXCEPT !.at = "read", !.parked = c[1], !.promotions = c[2],
                              !.paused = c[3], !.rescan = FALSE, !.carry = {}].children = road.children
                BY <1>1 DEF RunState
            <4> QED BY <1>1, <4>1 DEF Boot, RunState
        <3> QED BY <1>1, <3>1 DEF CorpusRefused, Resumed, RunState
    <2>3. ~(ReadCorpus \/ CountOpen)
        BY <1>1 DEF ReadCorpus, CountOpen, RunState
    <2>4. ~(ContinueAsNew \/ ScheduleFires)
        BY <1>2 DEF ContinueAsNew, ScheduleFires
    <2>5. ~(PassDone \/ IdleEnds)
        BY <1>1, <2>4 DEF PassDone, IdleEnds, RunState
    <2>6. ~Reap
        <3> DEFINE done == road.children \ Open
                   landed == [t \in Specs |-> IF t \in done THEN epics[t] ELSE road.landed[t]]
                   reaped == [road EXCEPT !.children = @ \ done, !.completed = TRUE, !.landed = landed]
        <3>1. ~(\E carry : road' = Fresh(reaped.landed, carry))
            BY <1>2
        <3> HIDE DEF landed
        <3>2. [reaped EXCEPT !.at = "read"].children \subseteq road.children
            BY <1>1 DEF RunState
        <3>3. [road EXCEPT !.at = "failed"].children = road.children
            BY <1>1 DEF RunState
        <3> QED BY <3>1, <3>2, <3>3 DEF Reap, landed
    <2>7. ~(Pause \/ Resume \/ Promote)
        BY <1>1 DEF Pause, Resume, Promote, RunState
    <2>8. ~(EditSpec \/ ForeignEpic \/ \E t \in Specs : EpicEnds(t))
        BY <2>1 DEF EditSpec, ForeignEpic, EpicEnds
    <2> QED BY <2>1, <2>2, <2>3, <2>4, <2>5, <2>6, <2>7, <2>8 DEF RoadmapNext, RoadmapSteps, rvars
<1>4. PICK t \in road.todo : s \in [[road EXCEPT !.todo = @ \ {t}] EXCEPT !.children = @ \cup {t}].children
    BY <1>1, <1>3 DEF Dispatch, RunState
<1>5. s = t
    BY <1>1, <1>4 DEF RunState
<1> QED BY <1>3, <1>5 DEF GroundInv, ListedIsReady, Dispatch

THEOREM AlwaysConcludedOnce ==
    RoadmapSpec => ConcludedOnce
<1>1. GroundInv /\ [RoadmapNext]_rvars
        => [\A s \in Specs : s \in road'.children \ road.children => road.landed[s] = "none"]_rvars
    BY StepStartsFresh
<1>2. [][RoadmapNext]_rvars /\ []GroundInv => ConcludedOnce
    BY <1>1, PTL DEF ConcludedOnce
<1> QED BY <1>2, RoadmapInvariant, PTL DEF RoadmapSpec

\* No step starts a spec the chain has tried: a spec is opened by a dispatch
\* alone, and the run lists none it remembers (roadmap/workflow.py, _run_inner).
LEMMA StepTriesOnce ==
    ASSUME GroundInv, [RoadmapNext]_rvars
    PROVE  \A s \in Specs : epics[s] # "open" /\ epics'[s] = "open" => chain.tried[s] = "no"
<1> SUFFICES ASSUME NEW s \in Specs, epics[s] # "open", epics'[s] = "open"
             PROVE  chain.tried[s] = "no"
    OBVIOUS
<1>1. /\ epics \in [Specs -> EpicStates] /\ chain \in Chains /\ road \in RunState
    BY DEF GroundInv, RoadmapTypeOK, Chains
<1>2. ~UNCHANGED epics /\ ~UNCHANGED world
    BY DEF world
<1>3. ~(EditSpec \/ ForeignEpic \/ \E t \in Specs : EpicEnds(t))
    <2>1. ASSUME NEW t \in Specs, EpicEnds(t) PROVE FALSE
        BY <1>1, <2>1 DEF EpicEnds
    <2> QED BY <1>2, <2>1 DEF EditSpec, ForeignEpic
<1>4. Dispatch
    BY <1>2, <1>3 DEF RoadmapNext, RoadmapSteps, rvars, Boot, ReadCorpus, CorpusRefused, CountOpen,
       PassDone, Reap, Resumed, IdleEnds, ScheduleFires, Pause, Resume, Promote
<1>5. road.at = "dispatch" /\ \E t \in road.todo : epics' = [epics EXCEPT ![t] = "open"]
    BY <1>2, <1>4 DEF Dispatch
<1>6. s \in road.todo
    BY <1>1, <1>5 DEF RunState
<1>7. s \notin road.children /\ s \notin road.parked /\ road.landed[s] = "none"
    BY <1>5, <1>6 DEF GroundInv, ListedIsReady, TriedInv
<1>8. chain.tried[s] \in {"no", "parked", "started"}
    BY <1>1 DEF Chains
<1> QED BY <1>5, <1>7, <1>8 DEF GroundInv, TriedInv, ParkKept

\* A chain starts a spec once, over all its turns, and one it parked not before
\* the operator has unparked it (roadmap/workflow.py, _continue_as_new).
THEOREM AlwaysTriesOnce ==
    RoadmapSpec => TriesOnce
<1>1. GroundInv /\ [RoadmapNext]_rvars
        => [\A s \in Specs : epics[s] # "open" /\ epics'[s] = "open" => chain.tried[s] = "no"]_rvars
    BY StepTriesOnce
<1>2. [][RoadmapNext]_rvars /\ []GroundInv => TriesOnce
    BY <1>1, PTL DEF TriesOnce
<1> QED BY <1>2, RoadmapInvariant, PTL DEF RoadmapSpec
=============================================================================
