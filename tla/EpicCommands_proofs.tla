------------------------- MODULE EpicCommands_proofs -------------------------
(***************************************************************************)
(* The operator's commands over an epic, for any graph, any number of      *)
(* commands at once and of commands begun.  A command acts on what it read *)
(* some steps before; the invariant says what it may still rely on, as     *)
(* long as nothing moved in between.                                       *)
(***************************************************************************)
EXTENDS EpicCommands, TLAPS

Places == {"idle", "compile", "confirm", "repository", "proxy", "skew", "begin", "describe", "query", "local",
           "forge", "signal"}
Verbs == {"none", "start", "ship", "reset", "answer"}
Command == [at : Places, verb : Verbs, findings : BOOLEAN, blind : BOOLEAN, stale : BOOLEAN,
            waiting : SUBSET Nodes, todo : SUBSET Nodes]
Site == [tree : Trees, head : Heads, key : BOOLEAN]
EpicRecord == [status : {"none", "running", "closed"}, node : [Nodes -> NodeStates], first : [Nodes -> BOOLEAN],
               sure : BOOLEAN]

TypeInv ==
    /\ site \in [Nodes -> Site]
    /\ setting \in [declared : BOOLEAN, served : BOOLEAN, skewed : BOOLEAN]
    /\ epic \in EpicRecord
    /\ ops \in [Commands -> Command]
    /\ refused \subseteq Nodes

NobodyWorks == \A n \in Nodes : epic.node[n] # "working"
Unobstructed == \A n \in Nodes : site[n].tree # "foreign" /\ site[n].head # "stray"
NoKeys == \A n \in Nodes : ~site[n].key

\* What a command that nothing overtook may rely on: a reset, that nobody works
\* in the trees it takes; a start, that the nodes have their way clear.
CommandOK(o) ==
    ~o.stale =>
        /\ o.at \in {"local", "forge"} => NobodyWorks
        /\ o.at = "proxy" /\ ~o.findings /\ ~o.blind => Unobstructed
        /\ o.at \in {"skew", "begin"} => NoKeys /\ (~o.blind => Unobstructed)

\* What an epic that was begun on such a reading may rely on for a node that has
\* not made its first attempt.
NodeOK(n) ==
    Running /\ epic.sure /\ epic.first[n] =>
        /\ site[n].tree # "foreign" /\ site[n].head # "stray"
        /\ site[n].key => epic.node[n] = "working"

CommandsInv ==
    /\ TypeInv
    /\ ~Running => NobodyWorks
    /\ \A c \in Commands : CommandOK(ops[c])
    /\ \A n \in Nodes : NodeOK(n)
    /\ refused = {}

-----------------------------------------------------------------------------
(* Commands that are overtaken *)

LEMMA StaleIs ==
    ASSUME ops \in [Commands -> Command]
    PROVE  /\ Stale(ops) \in [Commands -> Command]
           /\ \A c \in Commands : Stale(ops)[c].at = "idle" \/ Stale(ops)[c].stale
<1>1. ASSUME NEW c \in Commands
      PROVE  /\ Stale(ops)[c] \in Command
             /\ Stale(ops)[c].at = "idle" \/ Stale(ops)[c].stale
  <2>1. Stale(ops)[c] = IF ops[c].at = "idle" THEN ops[c] ELSE [ops[c] EXCEPT !.stale = TRUE]
    BY DEF Stale
  <2>2. ops[c] \in Command
    OBVIOUS
  <2>3. [ops[c] EXCEPT !.stale = TRUE] \in Command /\ [ops[c] EXCEPT !.stale = TRUE].stale = TRUE
    BY <2>2 DEF Command
  <2> QED BY <2>1, <2>2, <2>3
<1>2. Stale(ops) = [c \in Commands |-> Stale(ops)[c]]
  BY DEF Stale
<1> QED BY <1>1, <1>2

LEMMA IdleIs == Idle \in Command /\ Idle.at = "idle" /\ Idle.stale = FALSE
BY DEF Idle, Command, Places, Verbs

\* An overtaken command relies on nothing, nor does one that is not there.
LEMMA OvertakenIsOK ==
    ASSUME NEW o, o.at = "idle" \/ o.stale
    PROVE  CommandOK(o)'
BY DEF CommandOK

-----------------------------------------------------------------------------
(* The three shapes of a step *)

\* A command reads, and nothing else moves.
LEMMA CommandReads ==
    ASSUME CommandsInv, NEW c \in Commands, NEW r \in Command, CommandOK(r),
           ops' = [ops EXCEPT ![c] = r], UNCHANGED <<site, setting, epic, refused>>
    PROVE  CommandsInv' /\ TakesNoWorkingTree
<1>1. TypeInv'
  BY DEF CommandsInv, TypeInv
<1>2. \A d \in Commands : CommandOK(ops[d])' <=> CommandOK(ops'[d])
  BY DEF CommandOK, NobodyWorks, Unobstructed, NoKeys
<1>3. \A d \in Commands : ops'[d] = IF d = c THEN r ELSE ops[d]
  BY DEF CommandsInv, TypeInv
<1>4. \A d \in Commands : CommandOK(ops'[d])
  BY <1>3 DEF CommandsInv
<1>5. /\ (~Running => NobodyWorks)' /\ refused' = {}
      /\ \A n \in Nodes : NodeOK(n)'
  BY DEF CommandsInv, Running, NobodyWorks, NodeOK
<1>6. TakesNoWorkingTree
  <2>1. ASSUME NEW n \in Nodes, site[n].tree = "ours", site'[n].tree = "none" PROVE FALSE
    <3>1. site' = site
      OBVIOUS
    <3> QED BY <2>1, <3>1
  <2> QED BY <2>1 DEF TakesNoWorkingTree
<1> QED BY <1>1, <1>2, <1>4, <1>5, <1>6 DEF CommandsInv

\* Something moves, and overtakes every command but those that are over.
LEMMA OvertakesAll ==
    ASSUME CommandsInv,
           ops' = Stale(ops) \/ \E c \in Commands : ops' = [Stale(ops) EXCEPT ![c] = Idle]
    PROVE  ops' \in [Commands -> Command] /\ \A d \in Commands : CommandOK(ops[d])'
<1>1. ops \in [Commands -> Command]
  BY DEF CommandsInv, TypeInv
<1>2. ops' \in [Commands -> Command]
  BY <1>1, StaleIs, IdleIs
<1>3. \A d \in Commands : ops'[d].at = "idle" \/ ops'[d].stale
  BY <1>1, StaleIs, IdleIs
<1>4. \A d \in Commands : CommandOK(ops[d])'
  BY <1>3 DEF CommandOK
<1> QED BY <1>2, <1>4

\* The epic moves one node on.
LEMMA NodeMoves ==
    ASSUME CommandsInv, NEW n \in Nodes, Running,
           NEW s \in Site, site' = [site EXCEPT ![n] = s],
           NEW to \in NodeStates, NEW f \in BOOLEAN,
           epic' = [epic EXCEPT !.node[n] = to, !.first[n] = f],
           epic.sure /\ f => /\ s.tree # "foreign" /\ s.head # "stray"
                             /\ s.key => to = "working",
           s.tree = "none" => site[n].tree = "none" \/ to # epic.node[n],
           ops' \in [Commands -> Command], \A d \in Commands : CommandOK(ops[d])',
           UNCHANGED setting, refused' = {}
    PROVE  CommandsInv' /\ TakesNoWorkingTree
<1>1. /\ epic \in EpicRecord /\ epic.status = "running"
      /\ site \in [Nodes -> Site]
  BY DEF CommandsInv, TypeInv, Running
<1>2. /\ epic'.status = "running" /\ epic'.sure = epic.sure
      /\ epic'.node = [epic.node EXCEPT ![n] = to] /\ epic'.first = [epic.first EXCEPT ![n] = f]
      /\ epic' \in EpicRecord
  BY <1>1 DEF EpicRecord
<1>3. site' \in [Nodes -> Site] /\ Running'
  BY <1>1, <1>2 DEF Running
<1>4. TypeInv'
  BY <1>2, <1>3 DEF CommandsInv, TypeInv
<1>5. ASSUME NEW m \in Nodes PROVE NodeOK(m)'
  <2>1. CASE m = n
    <3>1. site'[m] = s /\ epic'.node[m] = to /\ epic'.first[m] = f
      BY <1>1, <1>2, <2>1 DEF EpicRecord
    <3> QED BY <1>2, <3>1 DEF NodeOK
  <2>2. CASE m # n
    <3>1. site'[m] = site[m] /\ epic'.node[m] = epic.node[m] /\ epic'.first[m] = epic.first[m]
      BY <1>1, <1>2, <2>2 DEF EpicRecord
    <3>2. NodeOK(m)
      BY DEF CommandsInv
    <3> QED BY <1>2, <3>1, <3>2 DEF NodeOK
  <2> QED BY <2>1, <2>2
<1>6. ASSUME NEW m \in Nodes, site[m].tree = "ours", site'[m].tree = "none", epic' = epic PROVE FALSE
  <2>1. m = n /\ s.tree = "none"
    BY <1>1, <1>6
  <2>2. to # epic.node[n]
    BY <1>6, <2>1
  <2>3. epic'.node[n] = to
    BY <1>1, <1>2 DEF EpicRecord
  <2> QED BY <1>6, <2>2, <2>3
<1>7. TakesNoWorkingTree
  BY <1>6 DEF TakesNoWorkingTree
<1> QED BY <1>3, <1>4, <1>5, <1>7 DEF CommandsInv

-----------------------------------------------------------------------------
(* The epic's steps *)

LEMMA EpicSteps ==
    ASSUME CommandsInv, NEW n \in Nodes,
           Dispatched(n) \/ Prepared(n) \/ Pushes(n) \/ Pages(n) \/ Answered(n)
    PROVE  CommandsInv' /\ TakesNoWorkingTree
<1>1. /\ epic \in EpicRecord /\ site \in [Nodes -> Site] /\ Running
      /\ NodeOK(n) /\ refused = {}
  BY DEF CommandsInv, TypeInv, Dispatched, Prepared, Pushes, Pages, Answered
<1>2. ops' = Stale(ops) /\ UNCHANGED setting
  BY DEF Dispatched, Prepared, Pushes, Pages, Answered, Epic
<1>3. ops' \in [Commands -> Command] /\ \A d \in Commands : CommandOK(ops[d])'
  BY <1>2, OvertakesAll
<1> PICK o : o = site[n]
    OBVIOUS
<1> PICK f : f = epic.first[n]
    OBVIOUS
<1> DEFINE g == f /\ epic.node[n] # "working"
<1>4. /\ o \in Site /\ f \in BOOLEAN /\ g \in BOOLEAN /\ epic.node[n] \in NodeStates
      /\ epic.sure /\ f => /\ o.tree # "foreign" /\ o.head # "stray"
                           /\ o.key => epic.node[n] = "working"
  BY <1>1 DEF EpicRecord, NodeOK
<1>5. site = [site EXCEPT ![n] = o]
  BY <1>1
<1>6. \A to : Move(n, to) => epic' = [epic EXCEPT !.node[n] = to, !.first[n] = g]
  BY <1>1 DEF Move, EpicRecord
<1>8. CASE Dispatched(n)
  <2>1. /\ Move(n, "preparing") /\ site' = [site EXCEPT ![n] = o] /\ epic.node[n] = "pending" /\ refused' = {}
    BY <1>1, <1>5, <1>8 DEF Dispatched
  <2>2. epic' = [epic EXCEPT !.node[n] = "preparing", !.first[n] = g] /\ "preparing" \in NodeStates
    BY <1>6, <2>1 DEF NodeStates
  <2>3. "preparing" # epic.node[n]
    BY <2>1
  <2>4. epic.sure /\ g => o.tree # "foreign" /\ o.head # "stray" /\ (o.key => "preparing" = "working")
    BY <1>4, <2>1
  <2> HIDE DEF g
  <2> QED BY <1>1, <1>2, <1>3, <1>4, <2>1, <2>2, <2>3, <2>4, NodeMoves
<1>9. CASE Prepared(n)
  <2>1. epic.node[n] = "preparing" /\ g = f
    BY <1>4, <1>9 DEF Prepared
  <2>2. CASE o.tree = "foreign"
    <3>1. Move(n, "ended") /\ Meets(n) /\ site' = [site EXCEPT ![n] = o]
      BY <1>5, <1>9, <2>2 DEF Prepared
    <3>2. ~(epic.sure /\ f)
      BY <1>4, <2>2
    <3>3. refused' = {}
      BY <1>1, <3>1, <3>2 DEF Meets
    <3>4. epic' = [epic EXCEPT !.node[n] = "ended", !.first[n] = g] /\ "ended" \in NodeStates
          /\ "ended" # epic.node[n]
      BY <1>6, <2>1, <3>1 DEF NodeStates
    <3> HIDE DEF g
    <3> QED BY <1>1, <1>2, <1>3, <1>4, <2>1, <3>1, <3>2, <3>3, <3>4, NodeMoves
  <2>3. CASE o.tree # "foreign" /\ o.key /\ f
    <3> DEFINE s == [o EXCEPT !.tree = "ours"]
    <3>1. Move(n, "waiting") /\ Meets(n) /\ site' = [site EXCEPT ![n] = s]
      BY <1>1, <1>9, <2>3 DEF Prepared
    <3>2. ~(epic.sure /\ f)
      BY <1>4, <2>1, <2>3
    <3>3. refused' = {}
      BY <1>1, <3>1, <3>2 DEF Meets
    <3>4. epic' = [epic EXCEPT !.node[n] = "waiting", !.first[n] = g] /\ "waiting" \in NodeStates
          /\ "waiting" # epic.node[n]
      BY <1>6, <2>1, <3>1 DEF NodeStates
    <3>5. s \in Site
      BY <1>4 DEF Site, Trees
    <3> HIDE DEF g, s
    <3> QED BY <1>1, <1>2, <1>3, <1>4, <2>1, <3>1, <3>2, <3>3, <3>4, <3>5, NodeMoves
  <2>4. CASE o.tree # "foreign" /\ ~(o.key /\ f)
    <3> DEFINE s == [o EXCEPT !.tree = "ours", !.key = TRUE]
    <3>1. Move(n, "working") /\ refused' = {} /\ site' = [site EXCEPT ![n] = s]
      BY <1>1, <1>9, <2>4 DEF Prepared
    <3>4. epic' = [epic EXCEPT !.node[n] = "working", !.first[n] = g] /\ "working" \in NodeStates
          /\ "working" # epic.node[n]
      BY <1>6, <2>1, <3>1 DEF NodeStates
    <3>5. s \in Site /\ s.tree = "ours" /\ s.head = o.head
      BY <1>4 DEF Site, Trees
    <3>6. epic.sure /\ g => s.tree # "foreign" /\ s.head # "stray" /\ (s.key => "working" = "working")
      BY <1>4, <2>1, <3>5
    <3> HIDE DEF g, s
    <3> QED BY <1>1, <1>2, <1>3, <1>4, <3>1, <3>4, <3>5, <3>6, NodeMoves
  <2> QED BY <2>2, <2>3, <2>4
<1>10. CASE Pushes(n) \/ Pages(n)
  <2>1. epic.node[n] = "working" /\ g = FALSE
    BY <1>10 DEF Pushes, Pages
  <2>2. refused' = {}
    BY <1>1, <1>4, <1>10 DEF Pushes, Pages, Meets
  <2>3. \A k \in BOOLEAN : /\ [o EXCEPT !.key = k] \in Site
                           /\ [o EXCEPT !.head = "stray", !.key = FALSE] \in Site
                           /\ [tree |-> "none", head |-> "landed", key |-> FALSE] \in Site
    BY <1>4 DEF Site, Trees, Heads
  <2>4. \E s \in Site, to \in {"waiting", "ended"} : Move(n, to) /\ site' = [site EXCEPT ![n] = s]
    <3>1. CASE Pages(n)
      BY <1>1, <2>3, <3>1 DEF Pages
    <3>2. CASE Pushes(n)
      BY <1>1, <2>3, <3>2 DEF Pushes
    <3> QED BY <1>10, <3>1, <3>2
  <2>5. PICK s \in Site, to \in {"waiting", "ended"} : Move(n, to) /\ site' = [site EXCEPT ![n] = s]
    BY <2>4
  <2>6. epic' = [epic EXCEPT !.node[n] = to, !.first[n] = FALSE]
    BY <1>6, <2>1, <2>5
  <2>7. to \in NodeStates /\ to # epic.node[n]
    BY <2>1 DEF NodeStates
  <2> QED BY <1>1, <1>2, <1>3, <2>2, <2>5, <2>6, <2>7, NodeMoves
<1>11. CASE Answered(n)
  <2>1. PICK to \in {"working", "ended"} :
            /\ epic' = [epic EXCEPT !.node[n] = to, !.first[n] = FALSE]
            /\ site' = [site EXCEPT ![n].tree = IF to = "working" THEN "ours" ELSE @]
    BY <1>11 DEF Answered
  <2> DEFINE s == [o EXCEPT !.tree = IF to = "working" THEN "ours" ELSE @]
  <2>2. s \in Site /\ site' = [site EXCEPT ![n] = s]
    BY <1>1, <1>4, <2>1 DEF Site, Trees
  <2>3. to \in NodeStates /\ to # epic.node[n] /\ refused' = {}
    BY <1>1, <1>11 DEF NodeStates, Answered
  <2> HIDE DEF s
  <2> QED BY <1>1, <1>2, <1>3, <2>1, <2>2, <2>3, NodeMoves
<1> QED BY <1>8, <1>9, <1>10, <1>11

LEMMA ClosesStep ==
    ASSUME CommandsInv, Closes
    PROVE  CommandsInv' /\ TakesNoWorkingTree
<1>1. /\ epic' = [epic EXCEPT !.status = "closed", !.node = [n \in Nodes |-> "ended"]]
      /\ epic \in EpicRecord /\ UNCHANGED <<site, setting, refused>> /\ ops' = Stale(ops) /\ refused = {}
  BY DEF Closes, Epic, CommandsInv, TypeInv
<1>2. ops' \in [Commands -> Command] /\ \A d \in Commands : CommandOK(ops[d])'
  BY <1>1, OvertakesAll
<1>3. epic' \in EpicRecord /\ epic'.status = "closed" /\ \A n \in Nodes : epic'.node[n] = "ended"
  BY <1>1 DEF EpicRecord, NodeStates
<1>4. TypeInv'
  BY <1>1, <1>2, <1>3 DEF CommandsInv, TypeInv
<1>5. NobodyWorks' /\ ~Running'
  BY <1>3 DEF NobodyWorks, Running
<1>6. \A n \in Nodes : NodeOK(n)'
  BY <1>5 DEF NodeOK
<1>7. ASSUME NEW n \in Nodes, site[n].tree = "ours", site'[n].tree = "none" PROVE FALSE
  <2>1. site' = site
    BY <1>1
  <2> QED BY <1>7, <2>1
<1>8. TakesNoWorkingTree
  BY <1>7 DEF TakesNoWorkingTree
<1> QED BY <1>1, <1>2, <1>4, <1>5, <1>6, <1>8 DEF CommandsInv

-----------------------------------------------------------------------------
(* The commands' steps *)

\* An answer reaches a node that waits, or nobody.
LEMMA SignalStep ==
    ASSUME CommandsInv, NEW c \in Commands, _signal(c)
    PROVE  CommandsInv' /\ TakesNoWorkingTree
<1>1. /\ epic \in EpicRecord /\ site \in [Nodes -> Site] /\ ops \in [Commands -> Command]
      /\ UNCHANGED <<setting, refused>> /\ refused = {}
  BY DEF CommandsInv, TypeInv, _signal
<1>2. PICK n \in ops[c].waiting, to \in {"working", "ended"} :
          IF Running /\ epic.node[n] = "waiting"
          THEN /\ epic' = [epic EXCEPT !.node[n] = to, !.first[n] = FALSE]
               /\ site' = [site EXCEPT ![n].tree = IF to = "working" THEN "ours" ELSE @]
               /\ ops' = [Stale(ops) EXCEPT ![c] = Idle]
          ELSE UNCHANGED <<epic, site>> /\ Over(c)
  BY DEF _signal
<1>3. n \in Nodes
  BY <1>1 DEF Command
<1>4. CASE Running /\ epic.node[n] = "waiting"
  <2> PICK o : o = site[n]
    OBVIOUS
  <2> DEFINE s == [o EXCEPT !.tree = IF to = "working" THEN "ours" ELSE @]
  <2>1. o \in Site /\ s \in Site /\ site' = [site EXCEPT ![n] = s]
    BY <1>1, <1>2, <1>3, <1>4 DEF Site, Trees
  <2>2. /\ epic' = [epic EXCEPT !.node[n] = to, !.first[n] = FALSE]
        /\ to \in NodeStates /\ to # epic.node[n] /\ refused' = {}
    BY <1>1, <1>2, <1>4 DEF NodeStates
  <2>3. ops' \in [Commands -> Command] /\ \A d \in Commands : CommandOK(ops[d])'
    BY <1>2, <1>4, OvertakesAll
  <2> HIDE DEF s
  <2> QED BY <1>1, <1>3, <1>4, <2>1, <2>2, <2>3, NodeMoves
<1>5. CASE ~(Running /\ epic.node[n] = "waiting")
  <2>1. CommandOK(Idle)
    BY IdleIs DEF CommandOK
  <2> QED BY <1>1, <1>2, <1>5, <2>1, IdleIs, CommandReads DEF Over
<1> QED BY <1>4, <1>5

\* A start that nothing overtook begins its epic with the way clear.
LEMMA StartStep ==
    ASSUME CommandsInv, NEW c \in Commands, _start_epic(c)
    PROVE  CommandsInv' /\ TakesNoWorkingTree
<1>1. /\ epic \in EpicRecord /\ site \in [Nodes -> Site] /\ ops \in [Commands -> Command]
      /\ UNCHANGED <<site, setting, refused>> /\ ops[c].at = "begin" /\ CommandOK(ops[c])
  BY DEF CommandsInv, TypeInv, _start_epic, At
<1>2. CASE Running
  <2>1. CommandOK(Idle)
    BY IdleIs DEF CommandOK
  <2> QED BY <1>1, <1>2, <2>1, IdleIs, CommandReads DEF Over, _start_epic
<1>3. CASE ~Running
  <2> DEFINE sure == ~ops[c].stale /\ ~ops[c].blind
  <2>1. /\ epic' = [status |-> "running", node |-> [n \in Nodes |-> "pending"],
                    first |-> [n \in Nodes |-> TRUE], sure |-> sure]
        /\ ops' = [Stale(ops) EXCEPT ![c] = Idle]
    BY <1>3 DEF _start_epic
  <2>2. sure \in BOOLEAN /\ (sure => NoKeys /\ Unobstructed)
    BY <1>1 DEF CommandOK
  <2> HIDE DEF sure
  <2>3. /\ epic' \in EpicRecord /\ epic'.status = "running" /\ epic'.sure = sure
        /\ \A n \in Nodes : epic'.node[n] = "pending"
    BY <2>1, <2>2 DEF EpicRecord, NodeStates
  <2>4. ops' \in [Commands -> Command] /\ \A d \in Commands : CommandOK(ops[d])'
    BY <2>1, OvertakesAll
  <2>5. TypeInv'
    BY <1>1, <2>3, <2>4 DEF CommandsInv, TypeInv
  <2>6. NobodyWorks'
    BY <2>3 DEF NobodyWorks
  <2>7. ASSUME NEW n \in Nodes PROVE NodeOK(n)'
    <3>1. sure => site'[n].tree # "foreign" /\ site'[n].head # "stray" /\ ~site'[n].key
      BY <1>1, <2>2 DEF NoKeys, Unobstructed
    <3> QED BY <2>3, <3>1 DEF NodeOK
  <2>8. ASSUME NEW n \in Nodes, site[n].tree = "ours", site'[n].tree = "none" PROVE FALSE
    <3>1. site' = site
      BY <1>1
    <3> QED BY <2>8, <3>1
  <2>9. TakesNoWorkingTree
    BY <2>8 DEF TakesNoWorkingTree
  <2> QED BY <1>1, <2>4, <2>5, <2>6, <2>7, <2>9 DEF CommandsInv
<1> QED BY <1>2, <1>3

\* A reset takes things away, knows what it knew, and overtakes the others.
LEMMA ResetTakes ==
    ASSUME CommandsInv, NEW c \in Commands, ops[c].at \in {"local", "forge"},
           site' \in [Nodes -> Site],
           \A m \in Nodes : /\ site'[m].tree \in {"none", site[m].tree}
                            /\ site'[m].head \in {"none", site[m].head}
                            /\ site'[m].key = site[m].key,
           UNCHANGED <<setting, epic, refused>>,
           NEW r \in Command, r.at = "idle" \/ (r.at \in {"local", "forge"} /\ r.stale = ops[c].stale),
           ops' = [d \in Commands |-> IF d = c THEN r ELSE Stale(ops)[d]]
    PROVE  CommandsInv'
<1>1. /\ epic \in EpicRecord /\ site \in [Nodes -> Site] /\ ops \in [Commands -> Command]
      /\ CommandOK(ops[c]) /\ refused' = {}
  BY DEF CommandsInv, TypeInv
<1>2. ops' \in [Commands -> Command] /\ \A d \in Commands : d # c => ops'[d].at = "idle" \/ ops'[d].stale
  BY <1>1, StaleIs
<1>3. CommandOK(ops[c])'
  <2>1. ops'[c] = r
    OBVIOUS
  <2>2. NobodyWorks' <=> NobodyWorks
    BY DEF NobodyWorks
  <2> QED BY <1>1, <2>1, <2>2 DEF CommandOK
<1>4. \A d \in Commands : CommandOK(ops[d])'
  BY <1>2, <1>3 DEF CommandOK
<1>5. TypeInv'
  BY <1>1, <1>2 DEF CommandsInv, TypeInv
<1>6. (~Running => NobodyWorks)'
  BY DEF CommandsInv, Running, NobodyWorks
<1>7. ASSUME NEW m \in Nodes PROVE NodeOK(m)'
  <2>1. NodeOK(m)
    BY DEF CommandsInv
  <2> QED BY <2>1 DEF NodeOK, Running
<1> QED BY <1>1, <1>4, <1>5, <1>6, <1>7 DEF CommandsInv

LEMMA ResetLocalStep ==
    ASSUME CommandsInv, NEW c \in Commands, _reset_local(c)
    PROVE  CommandsInv' /\ TakesNoWorkingTree
<1>1. /\ site \in [Nodes -> Site] /\ ops \in [Commands -> Command]
      /\ UNCHANGED <<setting, epic, refused>> /\ ops[c].at = "local" /\ ops[c] \in Command
      /\ CommandOK(ops[c])
  BY DEF CommandsInv, TypeInv, _reset_local, At
<1>2. PICK n \in ops[c].todo, h \in BOOLEAN :
          IF site[n].tree = "foreign" THEN UNCHANGED site /\ ops' = [Stale(ops) EXCEPT ![c] = Idle]
          ELSE /\ site' = [site EXCEPT ![n].tree = "none", ![n].head = IF h THEN "none" ELSE @]
               /\ ops' = [c2 \in Commands |-> IF c2 = c THEN [ops[c] EXCEPT !.at = "forge", !.todo = @ \ {n}]
                                              ELSE Stale(ops)[c2]]
  BY DEF _reset_local
<1>3. n \in Nodes
  BY <1>1 DEF Command
<1>4. TakesNoWorkingTree
  <2>1. ops[c].stale \/ NobodyWorks
    BY <1>1 DEF CommandOK
  <2> QED BY <1>1, <2>1 DEF TakesNoWorkingTree, NobodyWorks, At
<1>5. CASE site[n].tree = "foreign"
  <2>1. UNCHANGED site /\ ops' = [Stale(ops) EXCEPT ![c] = Idle]
    BY <1>2, <1>5
  <2>2. ops' = [d \in Commands |-> IF d = c THEN Idle ELSE Stale(ops)[d]]
    BY <1>1, <2>1, StaleIs
  <2>3. \A m \in Nodes : /\ site'[m].tree \in {"none", site[m].tree}
                         /\ site'[m].head \in {"none", site[m].head}
                         /\ site'[m].key = site[m].key
    BY <2>1
  <2>4. site' \in [Nodes -> Site]
    BY <1>1, <2>1
  <2>5. PICK r \in Command :
            /\ r = Idle
            /\ r.at = "idle" \/ (r.at \in {"local", "forge"} /\ r.stale = ops[c].stale)
    BY IdleIs
  <2>6. ops' = [d \in Commands |-> IF d = c THEN r ELSE Stale(ops)[d]]
    BY <2>2, <2>5
  <2>7. CommandsInv'
    BY <1>1, <2>3, <2>4, <2>5, <2>6, ResetTakes
  <2> QED BY <1>4, <2>7
<1>6. CASE site[n].tree # "foreign"
  <2> DEFINE r == [ops[c] EXCEPT !.at = "forge", !.todo = @ \ {n}]
             s == [site[n] EXCEPT !.tree = "none", !.head = IF h THEN "none" ELSE @]
  <2>1. /\ site' = [site EXCEPT ![n] = s]
        /\ ops' = [d \in Commands |-> IF d = c THEN r ELSE Stale(ops)[d]]
    BY <1>1, <1>2, <1>3, <1>6
  <2>2. r \in Command /\ r.at = "forge" /\ r.stale = ops[c].stale
    BY <1>1 DEF Command, Places
  <2>3. s \in Site /\ s.tree = "none" /\ s.head \in {"none", site[n].head} /\ s.key = site[n].key
    BY <1>1, <1>3 DEF Site, Trees, Heads
  <2> HIDE DEF r, s
  <2>4. site' \in [Nodes -> Site]
    BY <1>1, <2>1, <2>3
  <2>5. \A m \in Nodes : /\ site'[m].tree \in {"none", site[m].tree}
                         /\ site'[m].head \in {"none", site[m].head}
                         /\ site'[m].key = site[m].key
    BY <1>1, <2>1, <2>3
  <2> QED BY <1>1, <1>4, <2>1, <2>2, <2>4, <2>5, ResetTakes
<1> QED BY <1>5, <1>6

LEMMA ResetForgeStep ==
    ASSUME CommandsInv, NEW c \in Commands, _forge_reset_lines(c)
    PROVE  CommandsInv' /\ TakesNoWorkingTree
<1>1. /\ site \in [Nodes -> Site] /\ ops \in [Commands -> Command]
      /\ UNCHANGED <<setting, epic, refused>> /\ ops[c].at = "forge" /\ ops[c] \in Command
  BY DEF CommandsInv, TypeInv, _forge_reset_lines, At
<1> DEFINE r == IF ops[c].todo = {} THEN Idle ELSE [ops[c] EXCEPT !.at = "local"]
<1>2. PICK n \in Nodes, h \in BOOLEAN :
          /\ site' = [site EXCEPT ![n].head = IF h THEN "none" ELSE @]
          /\ ops' = [d \in Commands |-> IF d = c THEN r ELSE Stale(ops)[d]]
  BY DEF _forge_reset_lines
<1> DEFINE s == [site[n] EXCEPT !.head = IF h THEN "none" ELSE @]
<1>3. site' = [site EXCEPT ![n] = s]
  BY <1>1, <1>2
<1>4. r \in Command /\ (r.at = "idle" \/ (r.at \in {"local", "forge"} /\ r.stale = ops[c].stale))
  <2> DEFINE q == [ops[c] EXCEPT !.at = "local"]
  <2>1. q \in Command /\ q.at = "local" /\ q.stale = ops[c].stale
    BY <1>1 DEF Command, Places
  <2>2. CASE ops[c].todo = {}
    <3>1. r = Idle
      BY <2>2
    <3> HIDE DEF r
    <3> QED BY <3>1, IdleIs
  <2>3. CASE ops[c].todo # {}
    <3>1. r = q
      BY <2>3
    <3>2. r.stale = ops[c].stale
      BY <2>1, <2>3
    <3> HIDE DEF q, r
    <3>3. r \in Command /\ r.at = "local"
      BY <2>1, <3>1
    <3> QED BY <3>2, <3>3
  <2> QED BY <2>2, <2>3
<1>5. s \in Site /\ s.tree = site[n].tree /\ s.head \in {"none", site[n].head} /\ s.key = site[n].key
  BY <1>1 DEF Site, Heads
<1> HIDE DEF r, s
<1>6. site' \in [Nodes -> Site]
  BY <1>1, <1>3, <1>5
<1>7. \A m \in Nodes : /\ site'[m].tree = site[m].tree
                       /\ site'[m].head \in {"none", site[m].head}
                       /\ site'[m].key = site[m].key
  BY <1>1, <1>3, <1>5
<1>8. TakesNoWorkingTree
  BY <1>7 DEF TakesNoWorkingTree
<1>9. \A m \in Nodes : site'[m].tree \in {"none", site[m].tree}
  BY <1>7
<1>10. ops' = [d \in Commands |-> IF d = c THEN r ELSE Stale(ops)[d]]
  BY <1>2
<1>11. CommandsInv'
  BY <1>1, <1>4, <1>6, <1>7, <1>9, <1>10, ResetTakes
<1> QED BY <1>8, <1>11

\* A command that waits for nothing the epic could overtake.
LEMMA AnyPlaceIsOK ==
    ASSUME NEW r, r.at \in {"idle", "compile", "confirm", "repository", "describe", "query", "signal"}
    PROVE  CommandOK(r)
BY DEF CommandOK

LEMMA BeginStep ==
    ASSUME CommandsInv, NEW c \in Commands,
           start_command(c) \/ ship_command(c) \/ _reset_epic(c) \/ _answer(c)
    PROVE  CommandsInv' /\ TakesNoWorkingTree
<1>1. UNCHANGED <<site, setting, epic, refused>>
  BY DEF start_command, ship_command, _reset_epic, _answer, Begin
<1>2. \E r \in Command : r.at \in {"compile", "repository", "describe", "signal"} /\ ops' = [ops EXCEPT ![c] = r]
  <2>1. \A verb \in Verbs, place \in {"compile", "repository", "describe"} :
            /\ [Idle EXCEPT !.verb = verb, !.at = place] \in Command
            /\ [Idle EXCEPT !.verb = verb, !.at = place].at = place
            /\ Begin(c, verb, place) => ops' = [ops EXCEPT ![c] = [Idle EXCEPT !.verb = verb, !.at = place]]
    BY IdleIs DEF Command, Places, Begin
  <2>2. CASE start_command(c) \/ ship_command(c) \/ _reset_epic(c)
    <3>1. PICK verb \in Verbs, place \in {"compile", "repository", "describe"} : Begin(c, verb, place)
      BY <2>2 DEF start_command, ship_command, _reset_epic, Verbs
    <3> QED BY <2>1, <3>1
  <2>3. CASE _answer(c)
    <3>1. PICK n \in nodes_awaiting_operator :
              ops' = [ops EXCEPT ![c] = [Idle EXCEPT !.verb = "answer", !.at = "signal", !.waiting = {n}]]
      BY <2>3 DEF _answer
    <3> DEFINE r == [Idle EXCEPT !.verb = "answer", !.at = "signal", !.waiting = {n}]
    <3>2. {n} \in SUBSET Nodes
      BY DEF nodes_awaiting_operator
    <3>3. r \in Command /\ r.at = "signal"
      BY <3>2, IdleIs DEF Command, Places, Verbs
    <3> QED BY <3>1, <3>3
  <2> QED BY <2>2, <2>3
<1>3. PICK r \in Command :
          r.at \in {"compile", "repository", "describe", "signal"} /\ ops' = [ops EXCEPT ![c] = r]
  BY <1>2
<1>4. CommandOK(r)
  BY <1>3, AnyPlaceIsOK
<1> QED BY <1>1, <1>3, <1>4, CommandReads

LEMMA ReadSteps ==
    ASSUME CommandsInv, NEW c \in Commands,
           \/ _compiled(c) \/ _confirm_dispatch(c) \/ _run_preflight_repository(c) \/ check_aliases(c)
           \/ _worker_advertisement(c) \/ _describe(c) \/ _query(c)
    PROVE  CommandsInv' /\ TakesNoWorkingTree
<1> PICK o : o = ops[c]
    OBVIOUS
<1>1. o \in Command /\ ops \in [Commands -> Command] /\ CommandOK(o)
  BY DEF CommandsInv, TypeInv
<1>2. UNCHANGED <<site, setting, epic, refused>>
  BY DEF CommandsInv, _compiled, _confirm_dispatch, _run_preflight_repository, check_aliases,
         _worker_advertisement, _describe, _query, Quiet
<1>3. SUFFICES \E r \in Command : CommandOK(r) /\ ops' = [ops EXCEPT ![c] = r]
  BY <1>2, CommandReads
<1>4. CASE Over(c)
  <2>1. ops' = [ops EXCEPT ![c] = Idle]
    BY <1>4 DEF Over
  <2>2. CommandOK(Idle)
    BY IdleIs, AnyPlaceIsOK
  <2> QED BY <2>1, <2>2, IdleIs
<1> DEFINE To(place) == [o EXCEPT !.at = place]
<1>5. \A place \in Places : /\ To(place) \in Command /\ To(place).at = place
                            /\ (To(place).stale <=> o.stale) /\ (To(place).blind <=> o.blind)
                            /\ (To(place).findings <=> o.findings)
  BY <1>1 DEF Command, Places
<1>6. \A place : Onward(c, place) => ops' = [ops EXCEPT ![c] = To(place)]
  BY <1>1 DEF Onward
<1> HIDE DEF To
<1>7. CASE (_compiled(c) \/ _confirm_dispatch(c)) /\ ~Over(c)
  <2>1. PICK place \in {"confirm", "repository"} : Onward(c, place)
    BY <1>7 DEF _compiled, _confirm_dispatch
  <2>2. place \in Places
    BY DEF Places
  <2>3. To(place) \in Command /\ ops' = [ops EXCEPT ![c] = To(place)] /\ CommandOK(To(place))
    BY <1>5, <1>6, <2>1, <2>2, AnyPlaceIsOK
  <2> QED BY <2>3
<1>8. CASE _run_preflight_repository(c)
  <2>1. PICK unknown \in {{}, remote_branch_findings} :
            ops' = [ops EXCEPT ![c].at = "proxy",
                               ![c].findings = landing_readiness_preflight(unknown) # {},
                               ![c].blind = unknown # {}, ![c].stale = FALSE]
    BY <1>8 DEF _run_preflight_repository
  <2> PICK found \in BOOLEAN : found <=> landing_readiness_preflight(unknown) # {}
    OBVIOUS
  <2> PICK blind \in BOOLEAN : blind <=> unknown # {}
    OBVIOUS
  <2> DEFINE r == [o EXCEPT !.at = "proxy", !.findings = found, !.blind = blind, !.stale = FALSE]
  <2>2. ops' = [ops EXCEPT ![c] = r]
    BY <1>1, <2>1
  <2>3. r \in Command /\ r.at = "proxy" /\ (r.findings <=> found) /\ (r.blind <=> blind)
    BY <1>1 DEF Command, Places
  <2>4. ~found /\ ~blind => Unobstructed
    BY DEF landing_readiness_preflight, worktree_ownership_findings, remote_branch_findings, Unobstructed
  <2> HIDE DEF r
  <2>5. CommandOK(r)
    BY <2>3, <2>4 DEF CommandOK
  <2> QED BY <2>2, <2>3, <2>5
<1>9. CASE check_aliases(c) /\ ~Over(c)
  <2>1. ~o.findings /\ ~alias_findings /\ Onward(c, "skew") /\ o.at = "proxy"
    BY <1>9 DEF check_aliases, At
  <2>2. NoKeys
    BY <2>1 DEF NoKeys, alias_findings
  <2>3. "skew" \in Places
    BY DEF Places
  <2>4. To("skew") \in Command /\ ops' = [ops EXCEPT ![c] = To("skew")]
    BY <1>5, <1>6, <2>1, <2>3
  <2>5. CommandOK(To("skew"))
    BY <1>1, <1>5, <2>1, <2>2, <2>3 DEF CommandOK
  <2> QED BY <2>4, <2>5
<1>10. CASE _worker_advertisement(c) /\ ~Over(c)
  <2>1. Onward(c, "begin") /\ o.at = "skew"
    BY <1>10 DEF _worker_advertisement, At
  <2>2. "begin" \in Places
    BY DEF Places
  <2>3. To("begin") \in Command /\ ops' = [ops EXCEPT ![c] = To("begin")]
    BY <1>5, <1>6, <2>1, <2>2
  <2>4. CommandOK(To("begin"))
    BY <1>1, <1>5, <2>1, <2>2 DEF CommandOK
  <2> QED BY <2>3, <2>4
<1>11. CASE _describe(c) /\ ~Over(c)
  <2> PICK place \in {"query", "local"} : place = IF Running THEN "query" ELSE "local"
    OBVIOUS
  <2> DEFINE r == [o EXCEPT !.at = place, !.todo = Nodes, !.stale = FALSE]
  <2>1. ops' = [ops EXCEPT ![c] = r]
    BY <1>1, <1>11 DEF _describe
  <2>2. r \in Command /\ r.at = place
    BY <1>1 DEF Command, Places
  <2> HIDE DEF r
  <2>3. Running \/ NobodyWorks
    BY DEF CommandsInv
  <2>4. CommandOK(r)
    BY <2>2, <2>3 DEF CommandOK
  <2> QED BY <2>1, <2>2, <2>4
<1>12. CASE _query(c) /\ ~Over(c)
  <2> DEFINE r == [o EXCEPT !.at = "local", !.waiting = nodes_awaiting_operator, !.stale = FALSE]
  <2>1. ops' = [ops EXCEPT ![c] = r] /\ ~reset_refusal
    BY <1>1, <1>12 DEF _query
  <2>2. nodes_awaiting_operator \in SUBSET Nodes
    BY DEF nodes_awaiting_operator
  <2>3. r \in Command /\ r.at = "local"
    BY <1>1, <2>2 DEF Command, Places
  <2>4. NobodyWorks
    BY <2>1 DEF reset_refusal, nodes_at_work, NobodyWorks
  <2> HIDE DEF r
  <2>5. CommandOK(r)
    BY <2>3, <2>4 DEF CommandOK
  <2> QED BY <2>1, <2>3, <2>5
<1> QED BY <1>4, <1>7, <1>8, <1>9, <1>10, <1>11, <1>12

-----------------------------------------------------------------------------
(* The theorems *)

LEMMA InitHolds == CommandsInit => CommandsInv
<1> SUFFICES ASSUME CommandsInit PROVE CommandsInv
    OBVIOUS
<1>1. site \in [Nodes -> Site]
  <2>1. [tree |-> "none", head |-> "none", key |-> FALSE] \in Site
    BY DEF Site, Trees, Heads
  <2> QED BY <2>1 DEF CommandsInit, Site
<1>2. setting \in [declared : BOOLEAN, served : BOOLEAN, skewed : BOOLEAN]
  BY DEF CommandsInit
<1>3. epic \in EpicRecord /\ epic.status = "none" /\ \A n \in Nodes : epic.node[n] = "absent"
  BY DEF CommandsInit, EpicRecord, NodeStates
<1>4. ops \in [Commands -> Command] /\ \A c \in Commands : CommandOK(ops[c])
  BY IdleIs, AnyPlaceIsOK DEF CommandsInit
<1>5. NobodyWorks /\ ~Running /\ refused = {}
  BY <1>3 DEF NobodyWorks, Running, CommandsInit
<1> QED BY <1>1, <1>2, <1>3, <1>4, <1>5 DEF CommandsInv, TypeInv, NodeOK

LEMMA EveryStep == CommandsInv /\ [CommandsNext]_cvars => CommandsInv' /\ [TakesNoWorkingTree]_cvars
<1> SUFFICES ASSUME CommandsInv, [CommandsNext]_cvars
             PROVE  CommandsInv' /\ (TakesNoWorkingTree \/ UNCHANGED cvars)
    OBVIOUS
<1>1. CASE UNCHANGED cvars
  BY <1>1 DEF cvars, CommandsInv, TypeInv, Running, NobodyWorks, CommandOK, Unobstructed, NoKeys, NodeOK
<1>2. CASE CommandsNext
  BY <1>2, EpicSteps, ClosesStep, BeginStep, ReadSteps, StartStep, ResetLocalStep, ResetForgeStep, SignalStep
     DEF CommandsNext
<1> QED BY <1>1, <1>2

\* The inductive invariant: what a command that nothing overtook may rely on, and
\* what an epic that was begun on a clear reading may.
THEOREM CommandsInvariant == CommandsSpec => []CommandsInv
BY InitHolds, EveryStep, PTL DEF CommandsSpec

\* What lies around of a node, the epic, its commands and their number keep their
\* shape (CommandsTypeOK), for any bound on the commands begun.
THEOREM CommandsTypeCorrect == MaxVerbs \in Nat /\ CommandsSpec => []CommandsTypeOK
<1> SUFFICES ASSUME MaxVerbs \in Nat PROVE CommandsSpec => []CommandsTypeOK
    OBVIOUS
<1> DEFINE Counted == begun \in 0..MaxVerbs
<1>1. CommandsInit => Counted
  BY DEF CommandsInit
<1>2. Counted /\ [CommandsNext]_cvars => Counted'
  <2> SUFFICES ASSUME Counted, [CommandsNext]_cvars PROVE Counted'
      OBVIOUS
  <2>1. CASE UNCHANGED begun
    BY <2>1
  <2>2. CASE begun < MaxVerbs /\ begun' = begun + 1
    BY <2>2
  <2>3. CASE UNCHANGED cvars
    BY <2>1, <2>3 DEF cvars
  <2>4. ASSUME NEW n \in Nodes, Dispatched(n) \/ Prepared(n) \/ Pushes(n) \/ Pages(n) \/ Answered(n)
        PROVE  UNCHANGED begun
    BY <2>4 DEF Dispatched, Prepared, Pushes, Pages, Answered, Epic
  <2>5. Closes => UNCHANGED begun
    BY DEF Closes, Epic
  <2>6. ASSUME NEW c \in Commands,
               start_command(c) \/ ship_command(c) \/ _reset_epic(c) \/ _answer(c)
        PROVE  begun < MaxVerbs /\ begun' = begun + 1
    BY <2>6 DEF start_command, ship_command, _reset_epic, _answer, Begin
  <2>7. ASSUME NEW c \in Commands,
               \/ _compiled(c) \/ _confirm_dispatch(c) \/ _run_preflight_repository(c) \/ check_aliases(c)
               \/ _worker_advertisement(c) \/ _describe(c) \/ _query(c)
        PROVE  UNCHANGED begun
    BY <2>7 DEF _compiled, _confirm_dispatch, _run_preflight_repository, check_aliases,
           _worker_advertisement, _describe, _query, Quiet
  <2>8. ASSUME NEW c \in Commands,
               _start_epic(c) \/ _reset_local(c) \/ _forge_reset_lines(c) \/ _signal(c)
        PROVE  UNCHANGED begun
    BY <2>8 DEF _start_epic, _reset_local, _forge_reset_lines, _signal
  <2> HIDE DEF Counted
  <2> QED BY <2>1, <2>2, <2>3, <2>4, <2>5, <2>6, <2>7, <2>8 DEF CommandsNext
<1>3. CommandsInv /\ Counted => CommandsTypeOK
  BY DEF CommandsInv, TypeInv, CommandsTypeOK, Site, EpicRecord, Command, Places, Verbs
<1> QED BY <1>1, <1>2, <1>3, CommandsInvariant, PTL DEF CommandsSpec

\* The first attempt of a node meets nothing the preflight is there to rule out,
\* if the start read everything and nothing moved until it began the epic
\* (_run_preflight, landing_readiness_preflight, check_aliases).
THEOREM FirstAttemptsAlwaysGoThrough == CommandsSpec => []FirstAttemptsGoThrough
<1>1. CommandsInv => FirstAttemptsGoThrough
  BY DEF CommandsInv, FirstAttemptsGoThrough
<1> QED BY <1>1, CommandsInvariant, PTL

\* A reset takes no worktree from under an agent that was there when it read the
\* epic (reset_refusal): an action property.
THEOREM AlwaysSparesTheWorking == CommandsSpec => SparesTheWorking
BY InitHolds, EveryStep, PTL DEF CommandsSpec, SparesTheWorking

=============================================================================
