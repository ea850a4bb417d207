------------------------ MODULE NodeAttempts_proofs ------------------------
(***************************************************************************)
(* Theorems of NodeAttempts, for every registry of personas, every set of  *)
(* ladder configurations and every bound on the environment.               *)
(***************************************************************************)
EXTENDS NodeAttempts, FiniteSetTheorems, TLAPS

-----------------------------------------------------------------------------
(* The ladder's operators.                                                  *)

\* next_action answers with one of the ladder's six decisions.
LEMMA NextActionType ==
    ASSUME NEW h, NEW c, NEW e
    PROVE  next_action(h, c, e) \in Action
  BY DEF next_action, Action

\* The rung a decision of the ladder selects always names a persona of the
\* registry: PROMOTE is only chosen when a promotion persona is configured.
LEMMA RungIsPersona ==
    ASSUME config \in Configs, NEW h, NEW e
    PROVE  RungSelection(next_action(h, config, e)) \in Persona
<1>1. config \in VerificationConfig
  BY NodeAssumption
<1>2. NodePersona \in Persona /\ Debugger \in Persona
  BY NodeAssumption, PersonaAssumption
<1>3. next_action(h, config, e) = "PROMOTE" => config.promotion_persona # NoPersona
  BY DEF next_action, promotion_available
<1>4. config.promotion_persona \in Persona \cup {NoPersona}
  BY <1>1 DEF VerificationConfig
<1> QED
  BY <1>2, <1>3, <1>4 DEF RungSelection

\* A record of the verification under way is an attempt record.
LEMMA RecordedType ==
    ASSUME TypeOK
    PROVE  Recorded \in Seq(AttemptRecord)
<1> DEFINE r == [persona |-> IF hand_back THEN NodePersona ELSE persona,
                 pass |-> verdict.pass, rewrite |-> verdict.rewrite,
                 pre |-> ~hand_back /\ ended = "pre_agent"]
<1>1. verdict.pass \in BOOLEAN /\ verdict.rewrite \in BOOLEAN
  BY DEF TypeOK, Verdict
<1>2. NodePersona \in Persona /\ persona \in Persona
  BY NodeAssumption DEF TypeOK
<1>3. r \in AttemptRecord
  BY <1>1, <1>2 DEF AttemptRecord
<1> QED
  BY <1>3 DEF Recorded, TypeOK

-----------------------------------------------------------------------------
(* The inductive invariant.                                                 *)

\* A question is burned at most once: one whose window is still open has not
\* been counted as expired.
QuestionOpen == pc \in {"ask", "parkclose", "parked"} => expiries < asked

\* Where an attempt's bracket is open, and where it is closed.
Inside  == {"run", "release", "marker", "ask", "parkclose", "gates", "judge",
            "judgeclose", "record", "page", "teardown"}
Outside == {"prep", "admit", "standards", "issue", "parked", "salvage", "sweep", "landing"}

\* The attempt key is open exactly inside the bracket, but for a coroutine that
\* died; a judge key only while the judge runs or its closing failed.
KeysInv ==
    /\ pc \in Inside => key
    /\ pc \in Outside => ~key
    /\ judge_key => \/ pc \in {"judge", "judgeclose"}
                    \/ raising /\ pc \in {"teardown", "raised", "ended"}

\* An exception unwinds straight through the brackets that are open.
RaisingInv == raising => pc \in {"release", "judgeclose", "teardown", "raised", "ended"}

\* The states of a node that has left its attempt loop, or is about to.
Closing == {"teardown", "salvage", "sweep", "raised", "ended"}

\* After an ending answer the node only closes.
Answered    == \E i \in DOMAIN escalations : escalations[i] # "RETRY"
AnsweredInv == Answered => action = "KILLED" /\ pc \in Closing

\* The node's own PAUSE_EPIC press is an ending answer; any other pause it
\* holds is an open question's, or a kill will end it.
ParkInv ==
    /\ parked => Answered
    /\ paused => parked \/ kill_requested \/ pc \in {"parkclose", "parked"}

\* The owner is held only from its admission to its release.
OwnerInv ==
    owner = "held" => \/ pc \in {"standards", "issue", "run", "release", "raised", "ended"}
                      \/ raising /\ pc = "teardown"

\* A pass is the last attempt's, and nothing happens to the history after it.
PassInv ==
    /\ action = "PASSED" => /\ pc \in Closing \cup {"landing"}
                            /\ history # << >> /\ Last(history).pass
    /\ verified \/ state = "PASSED" =>
          action = "PASSED" /\ pc \in {"salvage", "landing", "raised", "ended"}
    /\ verified /\ pc = "salvage" => state = "PASSED"

NodeInv ==
    /\ TypeOK /\ QuestionOpen
    /\ KeysInv /\ RaisingInv /\ OwnerInv
    /\ AnsweredInv /\ ParkInv /\ PassInv

-----------------------------------------------------------------------------
(* Types.                                                                   *)

\* The bounds on the environment are natural numbers.
LEMMA WorldType ==
    ASSUME bound \in Bounds
    PROVE  bound.grants \in Nat /\ bound.questions \in Nat /\ bound.hand_backs \in Nat
  BY NodeAssumption

LEMMA TypeInit == Init => TypeOK
<1> SUFFICES ASSUME Init PROVE TypeOK
  OBVIOUS
<1>1. NodePersona \in Persona /\ bound \in Bounds
  BY NodeAssumption DEF Init
<1>2. 0 \in 0..bound.hand_backs /\ 0 \in 0..bound.questions
  BY <1>1, WorldType
<1>3. config \in Configs /\ bound \in Bounds /\ pc \in PCs
  BY DEF Init, PCs
<1>4. history \in Seq(AttemptRecord) /\ escalations \in Seq(Resolution)
  BY DEF Init
<1>5. action \in Action \cup {"none"} /\ ended \in Endings /\ verdict \in Verdict
  BY DEF Init, Endings, Verdict, NoVerdict
<1>6. external \in 0..bound.hand_backs /\ asked \in 0..bound.questions /\ expiries \in 0..asked
  BY <1>2 DEF Init
<1> QED
  BY <1>1, <1>3, <1>4, <1>5, <1>6 DEF Init, TypeOK

\* The code after the attempt loop keeps every type it writes.
LEMMA LeaveType ==
    ASSUME TypeOK, NEW a, NEW pk \in BOOLEAN, Leave(a, pk)
    PROVE  /\ pc' \in PCs /\ verified' \in BOOLEAN /\ external' \in 0..bound.hand_backs
           /\ state' \in {"PENDING", "RUNNING", "VERIFYING", "WAITING_OPERATOR", "PASSED", "KILLED"}
<1>1. bound.hand_backs \in Nat
  BY WorldType DEF TypeOK
<1>2. external' \in 0..bound.hand_backs
  BY <1>1 DEF Leave
<1> QED
  BY <1>2 DEF Leave, TypeOK, PCs

\* So does the top of the loop.
LEMMA EnterType ==
    ASSUME TypeOK, NEW p \in Persona, NEW b \in 0..bound.hand_backs, Enter(p, b)
    PROVE  /\ persona' \in Persona /\ action' \in Action \cup {"none"} /\ attempt' \in Nat
           /\ pc' \in PCs /\ verified' \in BOOLEAN /\ external' \in 0..bound.hand_backs
           /\ state' \in {"PENDING", "RUNNING", "VERIFYING", "WAITING_OPERATOR", "PASSED", "KILLED"}
<1>1. CASE kill_requested
  BY <1>1, LeaveType DEF Enter, TypeOK, Action
<1>2. CASE ~kill_requested
  BY <1>2 DEF Enter, Launch, TypeOK, PCs
<1> QED
  BY <1>1, <1>2

\* A page's choices are choices.
LEMMA OpenPageType ==
    ASSUME TypeOK, NEW grants_work, NEW l \in BOOLEAN, OpenPage(offered_choices(grants_work), l)
    PROVE  /\ pc' \in PCs /\ action' \in Action \cup {"none"}
           /\ offered' \subseteq Choice /\ launch_page' \in BOOLEAN
  BY DEF OpenPage, TypeOK, PCs, Action, offered_choices, ENDING_CHOICES, Choice

\* A decision of the ladder picks a persona of the registry.
LEMMA ChosenType ==
    ASSUME TypeOK, NEW a \in Action, RungSelection(a) \in Persona, Chosen(a)
    PROVE  /\ pc' \in PCs /\ action' \in Action /\ persona' \in Persona
           /\ external' \in 0..bound.hand_backs
  BY WorldType DEF Chosen, TypeOK, PCs

LEMMA PrepareType == TypeOK /\ Prepare => TypeOK'
<1> SUFFICES ASSUME TypeOK, Prepare PROVE TypeOK'
  OBVIOUS
<1>1. NodePersona \in Persona /\ 0 \in 0..bound.hand_backs
  BY NodeAssumption, WorldType DEF TypeOK
<1>2. Enter(NodePersona, 0)
  BY DEF Prepare
<1>3. /\ persona' \in Persona /\ action' \in Action \cup {"none"} /\ attempt' \in Nat
      /\ pc' \in PCs /\ verified' \in BOOLEAN /\ external' \in 0..bound.hand_backs
      /\ state' \in {"PENDING", "RUNNING", "VERIFYING", "WAITING_OPERATOR", "PASSED", "KILLED"}
  BY <1>1, <1>2, EnterType
<1> QED
  BY <1>3 DEF Prepare, TypeOK, bracket, epic

LEMMA ReleaseOwnerType == TypeOK /\ ReleaseOwner => TypeOK'
<1> SUFFICES ASSUME TypeOK, ReleaseOwner PROVE TypeOK'
  OBVIOUS
<1>1. owner' \in {"none", "held", "retained", "elsewhere"}
  BY DEF ReleaseOwner, release_codex_owner, TypeOK
<1>2. CASE raising
  BY <1>1, <1>2 DEF ReleaseOwner, TypeOK, PCs, epic, node
<1>3. CASE ~raising /\ ended = "launch_failed"
  <2>1. LaunchFailed
    BY <1>3 DEF ReleaseOwner
  <2>2. /\ pc' \in PCs /\ action' \in Action \cup {"none"} /\ launch_failures' \in Nat
        /\ offered' \subseteq Choice /\ launch_page' \in BOOLEAN
    <3>1. CASE launch_failures + 1 >= config.max_launch_retries
      <4>1. launch_failures' \in Nat
        BY <2>1 DEF LaunchFailed, TypeOK
      <4>2. OpenPage(offered_choices(FALSE), TRUE)
        BY <2>1, <3>1, Zenon DEF LaunchFailed
      <4> QED
        BY <4>1, <4>2, OpenPageType
    <3>2. CASE ~(launch_failures + 1 >= config.max_launch_retries)
      BY <2>1, <3>2 DEF LaunchFailed, TypeOK, PCs, Action
    <3> QED
      BY <3>1, <3>2
  <2> QED
    BY <1>1, <1>3, <2>2 DEF ReleaseOwner, TypeOK, epic, node
<1>4. CASE ~raising /\ ended # "launch_failed"
  BY <1>1, <1>4 DEF ReleaseOwner, TypeOK, PCs, Action, epic, node
<1> QED
  BY <1>2, <1>3, <1>4 DEF TypeOK

LEMMA RecordVerificationType == TypeOK /\ RecordVerification => TypeOK'
<1> SUFFICES ASSUME TypeOK, RecordVerification PROVE TypeOK'
  OBVIOUS
<1> DEFINE a == next_action(Recorded, config, escalations)
<1>1. history' \in Seq(AttemptRecord)
  BY RecordedType DEF RecordVerification
<1>2. a \in Action /\ RungSelection(a) \in Persona
  BY NextActionType, RungIsPersona DEF TypeOK
<1>3. bound.hand_backs \in Nat
  BY WorldType DEF TypeOK
<1> HIDE DEF a
<1>4. CASE hand_back /\ action' = external_action(verdict) /\ pc' = "teardown"
          /\ UNCHANGED <<persona, external, offered, launch_page, attempt, hand_back>>
  BY <1>1, <1>4 DEF RecordVerification, external_action, TypeOK, PCs, Action, bracket, epic, node
<1>5. CASE Chosen(a) /\ UNCHANGED <<offered, launch_page, attempt, hand_back>>
  <2>1. /\ pc' \in PCs /\ action' \in Action /\ persona' \in Persona
        /\ external' \in 0..bound.hand_backs
    BY <1>2, <1>5, ChosenType
  <2> QED
    BY <1>1, <1>5, <2>1 DEF RecordVerification, TypeOK, bracket, epic, node
<1>6. CASE external > 0 /\ external' = external - 1 /\ attempt' = attempt + 1
          /\ hand_back' = TRUE /\ pc' = "gates"
          /\ UNCHANGED <<persona, action, offered, launch_page>>
  BY <1>1, <1>3, <1>6 DEF RecordVerification, TypeOK, PCs, bracket, epic, node
<1>7. CASE /\ OpenPage(offered_choices(grant_produces_work(Recorded, config, escalations)), FALSE)
           /\ UNCHANGED <<persona, external, attempt, hand_back>>
  <2>1. /\ pc' \in PCs /\ action' \in Action \cup {"none"}
        /\ offered' \subseteq Choice /\ launch_page' \in BOOLEAN
    BY <1>7, OpenPageType
  <2> QED
    BY <1>1, <1>7, <2>1 DEF RecordVerification, TypeOK, bracket, epic, node
<1> QED
  BY <1>4, <1>5, <1>6, <1>7 DEF RecordVerification, a

LEMMA ResolveType ==
    ASSUME TypeOK, NEW r \in Resolution, Resolve(r)
    PROVE  TypeOK'
<1>1. CASE is_unoffered(r, offered)
  BY <1>1 DEF Resolve, TypeOK, PCs, Action, bracket, epic, node
<1>2. CASE ~is_unoffered(r, offered)
  <2>1. escalations' \in Seq(Resolution) /\ kill_requested' \in BOOLEAN
    BY <1>2 DEF Resolve, TypeOK
  <2>2. CASE launch_page
    BY <1>2, <2>1, <2>2 DEF Resolve, TypeOK, PCs, Action, bracket, node
  <2>3. CASE ~launch_page
    <3> DEFINE a == next_action(history, config, escalations')
               d == IF a = "ESCALATE" THEN "KILLED" ELSE a
    <3>1. a \in Action /\ RungSelection(a) \in Persona
      BY NextActionType, RungIsPersona DEF TypeOK
    <3>2. d \in Action /\ RungSelection(d) \in Persona
      BY <3>1, NodeAssumption DEF Action, RungSelection
    <3>3. Chosen(d) /\ parked' \in BOOLEAN /\ paused' \in BOOLEAN
      BY <1>2, <2>3 DEF Resolve, TypeOK
    <3> HIDE DEF d
    <3>4. /\ pc' \in PCs /\ action' \in Action /\ persona' \in Persona
          /\ external' \in 0..bound.hand_backs
      BY <3>2, <3>3, ChosenType
    <3> QED
      BY <2>1, <3>3, <3>4 DEF Resolve, TypeOK, bracket, node
  <2> QED
    BY <2>2, <2>3
<1> QED
  BY <1>1, <1>2

LEMMA TeardownType == TypeOK /\ Teardown => TypeOK'
<1> SUFFICES ASSUME TypeOK, Teardown PROVE TypeOK'
  OBVIOUS
<1>1. /\ ended' \in Endings /\ verdict' \in Verdict
      /\ offered' \subseteq Choice /\ launch_page' \in BOOLEAN /\ key' \in BOOLEAN
  BY DEF Teardown, Endings, Verdict, NoVerdict
<1>2. CASE raising
  BY <1>1, <1>2 DEF Teardown, TypeOK, PCs, epic
<1>3. CASE ~raising /\ action \in TERMINAL_ACTIONS
  <2>1. Leave(action, parked) /\ UNCHANGED <<action, attempt, persona>> /\ parked \in BOOLEAN
    BY <1>3 DEF Teardown, TypeOK
  <2>2. /\ pc' \in PCs /\ verified' \in BOOLEAN /\ external' \in 0..bound.hand_backs
        /\ state' \in {"PENDING", "RUNNING", "VERIFYING", "WAITING_OPERATOR", "PASSED", "KILLED"}
    BY <2>1, LeaveType
  <2> QED
    BY <1>1, <2>1, <2>2 DEF Teardown, TypeOK, epic
<1>4. CASE ~raising /\ action \notin TERMINAL_ACTIONS
  <2>1. Enter(persona, external) /\ persona \in Persona /\ external \in 0..bound.hand_backs
    BY <1>4 DEF Teardown, TypeOK
  <2>2. /\ persona' \in Persona /\ action' \in Action \cup {"none"} /\ attempt' \in Nat
        /\ pc' \in PCs /\ verified' \in BOOLEAN /\ external' \in 0..bound.hand_backs
        /\ state' \in {"PENDING", "RUNNING", "VERIFYING", "WAITING_OPERATOR", "PASSED", "KILLED"}
    BY <2>1, EnterType
  <2> QED
    BY <1>1, <2>2 DEF Teardown, TypeOK, epic
<1> QED
  BY <1>2, <1>3, <1>4

LEMMA UnparkType ==
    ASSUME TypeOK, NEW expired \in BOOLEAN, Unpark(expired), expiries < asked
    PROVE  TypeOK'
<1>1. Enter(persona, external) /\ persona \in Persona /\ external \in 0..bound.hand_backs
  BY DEF Unpark, TypeOK
<1>2. /\ persona' \in Persona /\ action' \in Action \cup {"none"} /\ attempt' \in Nat
      /\ pc' \in PCs /\ verified' \in BOOLEAN /\ external' \in 0..bound.hand_backs
      /\ state' \in {"PENDING", "RUNNING", "VERIFYING", "WAITING_OPERATOR", "PASSED", "KILLED"}
  BY <1>1, EnterType
<1>3. [persona |-> persona, pass |-> FALSE, rewrite |-> FALSE, pre |-> FALSE] \in AttemptRecord
  BY DEF TypeOK, AttemptRecord
<1>4. history' \in Seq(AttemptRecord)
  <2>1. history \in Seq(AttemptRecord)
    BY DEF TypeOK
  <2>2. \/ history' = Append(history, [persona |-> persona, pass |-> FALSE,
                                       rewrite |-> FALSE, pre |-> FALSE])
        \/ history' = history
    BY DEF Unpark
  <2> QED BY <1>3, <2>1, <2>2
<1>5. expiries' \in 0..asked /\ asked \in Nat
  BY WorldType DEF Unpark, TypeOK
<1>6. /\ key' = key /\ judge_key' = judge_key /\ owner' = owner
  BY DEF Unpark, bracket
<1>7. key' \in BOOLEAN /\ judge_key' \in BOOLEAN
      /\ owner' \in {"none", "held", "retained", "elsewhere"}
  BY <1>6 DEF TypeOK
<1> QED
  BY ZenonT(40), <1>2, <1>4, <1>5, <1>7 DEF Unpark, TypeOK, Endings

LEMMA TypeStep == TypeOK /\ QuestionOpen /\ [Next]_vars => TypeOK'
<1> SUFFICES ASSUME TypeOK, QuestionOpen, [Next]_vars PROVE TypeOK'
  OBVIOUS
<1>w. bound.hand_backs \in Nat /\ bound.questions \in Nat
  BY WorldType DEF TypeOK
<1>1. CASE Prepare
  BY <1>1, PrepareType
<1>2. CASE AdmitOwner
  BY <1>2 DEF AdmitOwner, Launch, TypeOK, PCs, ladder, pages, bracket, epic, node, flow
<1>3. CASE ResolveStandards
  BY <1>3 DEF ResolveStandards, TypeOK, PCs, ladder, pages, bracket, epic, node, flow
<1>4. CASE IssueKey
  BY <1>4 DEF IssueKey, Endings, TypeOK, PCs, ladder, pages, bracket, epic, node, flow
<1>5. CASE AgentEnds
  BY <1>5 DEF AgentEnds, Endings, TypeOK, PCs, ladder, pages, bracket, epic, node, flow
<1>6. CASE CancelAgent
  BY <1>6 DEF CancelAgent, Endings, TypeOK, PCs, ladder, pages, bracket, epic, node, flow
<1>7. CASE ReleaseOwner
  BY <1>7, ReleaseOwnerType
<1>8. CASE ScanMarker
  BY <1>8, <1>w DEF ScanMarker, TypeOK, PCs, ladder, pages, bracket, epic, node, flow
<1>9. CASE AskOperator
  BY <1>9 DEF AskOperator, TypeOK, PCs, ladder, pages, bracket, epic, node, flow
<1>10. CASE CloseForPark
  <2>1. pc' \in PCs /\ key' \in BOOLEAN
    BY <1>10 DEF CloseForPark, PCs
  <2> QED
    BY <1>10, <2>1 DEF CloseForPark, TypeOK, ladder, pages, epic, node
<1>11. CASE KillParked
  <2>1. Leave("KILLED", FALSE)
    BY <1>11 DEF KillParked
  <2>2. /\ pc' \in PCs /\ verified' \in BOOLEAN /\ external' \in 0..bound.hand_backs
        /\ state' \in {"PENDING", "RUNNING", "VERIFYING", "WAITING_OPERATOR", "PASSED", "KILLED"}
    BY <2>1, LeaveType
  <2> QED
    BY <1>11, <2>2 DEF KillParked, TypeOK, Action, ladder, bracket, epic
<1>12. CASE RunGates
  <2>v. verdict \in Verdict /\ judge_key \in BOOLEAN
    BY DEF TypeOK
  <2>1. \A pass \in BOOLEAN : [pass |-> pass, rewrite |-> FALSE] \in Verdict
    BY DEF Verdict
  <2>2. pc' \in PCs /\ judge_key' \in BOOLEAN
    BY <1>12, <2>v DEF RunGates, PCs
  <2>3. verdict' \in Verdict
    BY <1>12, <2>v, <2>1 DEF RunGates
  <2> QED
    BY <1>12, <2>2, <2>3 DEF RunGates, TypeOK, ladder, pages, epic, node
<1>13. CASE RunJudge
  <2>1. pc' \in PCs /\ raising' \in BOOLEAN /\ verdict' \in Verdict
    BY <1>13 DEF RunJudge, PCs, TypeOK
  <2> QED
    BY <1>13, <2>1 DEF RunJudge, TypeOK, ladder, pages, bracket, epic, node
<1>14. CASE CloseJudge
  <2>1. pc' \in PCs /\ judge_key' \in BOOLEAN
    BY <1>14 DEF CloseJudge, PCs
  <2> QED
    BY <1>14, <2>1 DEF CloseJudge, TypeOK, ladder, pages, epic, node
<1>15. CASE RecordVerification
  BY <1>15, RecordVerificationType
<1>16. CASE KillPage
  BY <1>16 DEF KillPage, Action, TypeOK, PCs, ladder, pages, bracket, epic, node, flow
<1>17. CASE Teardown
  BY <1>17, TeardownType
<1>18. CASE Salvage
  BY <1>18 DEF Salvage, TypeOK, PCs, ladder, pages, bracket, epic, node, flow
<1>19. CASE Sweep
  <2>1. pc' \in PCs /\ worktree' \in BOOLEAN
       /\ state' \in {"WAITING_OPERATOR", "KILLED"}
    BY <1>19 DEF Sweep, PCs
  <2> QED
    BY <1>19, <2>1 DEF Sweep, TypeOK, ladder, pages, bracket, epic
<1>20. CASE Reap
  BY <1>20 DEF Reap, TypeOK, PCs, ladder, pages, bracket, epic, node, flow
<1>21. CASE PageExpires
  <2>1. Silence \in Resolution
    BY DEF Silence, Resolution, Choice
  <2> QED
    BY <1>21, <2>1, ResolveType DEF PageExpires
<1>22. CASE Unpark(TRUE)
  <2>1. expiries < asked
    BY <1>22 DEF Unpark, QuestionOpen
  <2> QED
    BY <1>22, <2>1, UnparkType
<1>23. CASE Press
  BY <1>23, ResolveType DEF Press, Resolution
<1>24. CASE Unpark(FALSE)
  <2>1. expiries < asked
    BY <1>24 DEF Unpark, QuestionOpen
  <2> QED
    BY <1>24, <2>1, UnparkType
<1>25. CASE kill_epic
  BY <1>25 DEF kill_epic, TypeOK, PCs, ladder, pages, bracket, epic, node, flow
<1>26. CASE complete_externally
  BY <1>26, <1>w DEF complete_externally, TypeOK, ladder, pages, bracket, epic, node, flow
<1>27. CASE RaiseOutside
  BY <1>27 DEF RaiseOutside, TypeOK, PCs, ladder, pages, bracket, epic, node, flow
<1>28. CASE RaiseInside
  BY <1>28 DEF RaiseInside, TypeOK, PCs, ladder, pages, bracket, epic, node, flow
<1>29. CASE RaiseParked
  <2>1. pc' \in PCs /\ raising' \in BOOLEAN /\ paused' \in BOOLEAN
    BY <1>29 DEF RaiseParked, PCs
  <2> QED
    BY <1>29, <2>1 DEF RaiseParked, TypeOK, ladder, pages, bracket, node
<1>30. CASE Others \/ UNCHANGED vars
  BY <1>30 DEF TypeOK, vars, Others, LeaseTaken, LeaseReturned, ladder, pages, bracket, epic, node, flow
<1> QED
  BY <1>1, <1>2, <1>3, <1>4, <1>5, <1>6, <1>7, <1>8, <1>9, <1>10, <1>11, <1>12, <1>13, <1>14,
     <1>15, <1>16, <1>17, <1>18, <1>19, <1>20, <1>21, <1>22, <1>23, <1>24, <1>25, <1>26, <1>27,
     <1>28, <1>29, <1>30
     DEF Next, Coroutine, Timers, Operator, Faults

-----------------------------------------------------------------------------
(* Where a step leads.                                                      *)

LEMMA LeaveMoves ==
    ASSUME NEW a, NEW pk, Leave(a, pk)
    PROVE  pc' \in {"salvage", "ended"}
  BY DEF Leave

LEMMA EnterMoves ==
    ASSUME NEW p, NEW b, Enter(p, b)
    PROVE  pc' \in {"salvage", "ended", "admit", "standards", "raised"}
  BY LeaveMoves DEF Enter, Launch

LEMMA OpenPageMoves ==
    ASSUME NEW c, NEW l, OpenPage(c, l)
    PROVE  pc' \in {"teardown", "page"}
  BY DEF OpenPage

\* A page that is answered closes its attempt, whatever the answer.
LEMMA ResolveMoves ==
    ASSUME NEW r, Resolve(r)
    PROVE  pc = "page" /\ pc' = "teardown"
  BY DEF Resolve, Chosen

\* The agent's ending leads to the attempt's teardown, to a page, or on to the
\* marker.
LEMMA ReleaseMoves ==
    ASSUME ReleaseOwner
    PROVE  pc = "release" /\ pc' \in {"teardown", "page", "marker"} /\ (raising => pc' = "teardown")
<1>1. CASE LaunchFailed /\ ~raising
  BY <1>1, OpenPageMoves DEF ReleaseOwner, LaunchFailed
<1>2. CASE ~(LaunchFailed /\ ~raising)
  BY <1>2 DEF ReleaseOwner
<1> QED
  BY <1>1, <1>2

LEMMA RecordMoves ==
    ASSUME RecordVerification
    PROVE  pc = "record" /\ pc' \in {"teardown", "page", "gates"}
  BY OpenPageMoves DEF RecordVerification, Chosen

LEMMA TeardownMoves ==
    ASSUME Teardown
    PROVE  /\ pc = "teardown"
           /\ raising => pc' = "raised"
           /\ ~raising => pc' \in {"salvage", "ended", "admit", "standards", "raised"}
  BY LeaveMoves, EnterMoves DEF Teardown

-----------------------------------------------------------------------------
(* Brackets.                                                                *)

LEMMA QuestionStep == TypeOK /\ QuestionOpen /\ [Next]_vars => QuestionOpen'
<1> SUFFICES ASSUME TypeOK /\ QuestionOpen, [Next]_vars PROVE QuestionOpen'
  OBVIOUS
<1>1. CASE Prepare
  BY <1>1, EnterMoves DEF Prepare, QuestionOpen, ladder, pages, bracket, epic, node, flow
<1>2. CASE AdmitOwner
  BY <1>2 DEF AdmitOwner, Launch, QuestionOpen, ladder, pages, bracket, epic, node, flow
<1>3. CASE ResolveStandards
  BY <1>3 DEF ResolveStandards, QuestionOpen, ladder, pages, bracket, epic, node, flow
<1>4. CASE IssueKey
  BY <1>4 DEF IssueKey, QuestionOpen, ladder, pages, bracket, epic, node, flow
<1>5. CASE AgentEnds
  BY <1>5 DEF AgentEnds, QuestionOpen, ladder, pages, bracket, epic, node, flow
<1>6. CASE CancelAgent
  BY <1>6 DEF CancelAgent, QuestionOpen, ladder, pages, bracket, epic, node, flow
<1>7. CASE ReleaseOwner
  BY <1>7, ReleaseMoves
     DEF ReleaseOwner, release_codex_owner, QuestionOpen, ladder, pages, bracket, epic, node, flow
<1>8. CASE ScanMarker
  <2>1. asked \in Nat /\ expiries \in 0..asked
    BY WorldType DEF TypeOK
  <2> QED
    BY <1>8, <2>1 DEF ScanMarker, QuestionOpen
<1>9. CASE AskOperator
  BY <1>9 DEF AskOperator, QuestionOpen, ladder, pages, bracket, epic, node, flow
<1>10. CASE CloseForPark
  BY <1>10 DEF CloseForPark, QuestionOpen, ladder, pages, bracket, epic, node, flow
<1>11. CASE KillParked
  BY <1>11, LeaveMoves DEF KillParked, QuestionOpen, ladder, pages, bracket, epic, node, flow
<1>12. CASE RunGates
  BY <1>12 DEF RunGates, QuestionOpen, ladder, pages, bracket, epic, node, flow
<1>13. CASE RunJudge
  BY <1>13 DEF RunJudge, QuestionOpen, ladder, pages, bracket, epic, node, flow
<1>14. CASE CloseJudge
  BY <1>14 DEF CloseJudge, QuestionOpen, ladder, pages, bracket, epic, node, flow
<1>15. CASE RecordVerification
  BY <1>15, RecordMoves
     DEF RecordVerification, QuestionOpen, ladder, pages, bracket, epic, node, flow
<1>16. CASE KillPage
  BY <1>16 DEF KillPage, QuestionOpen, ladder, pages, bracket, epic, node, flow
<1>17. CASE Teardown
  BY <1>17, TeardownMoves DEF Teardown, QuestionOpen, ladder, pages, bracket, epic, node, flow
<1>18. CASE Salvage
  BY <1>18 DEF Salvage, QuestionOpen, ladder, pages, bracket, epic, node, flow
<1>19. CASE Sweep
  BY <1>19 DEF Sweep, QuestionOpen, ladder, pages, bracket, epic, node, flow
<1>20. CASE Reap
  BY <1>20 DEF Reap, QuestionOpen, ladder, pages, bracket, epic, node, flow
<1>21. CASE PageExpires
  BY <1>21, ResolveMoves
     DEF PageExpires, Resolve, QuestionOpen, ladder, pages, bracket, epic, node, flow
<1>22. CASE Unpark(TRUE)
  BY <1>22, EnterMoves DEF Unpark, QuestionOpen, ladder, pages, bracket, epic, node, flow
<1>23. CASE Press
  BY <1>23, ResolveMoves
     DEF Press, Resolve, QuestionOpen, ladder, pages, bracket, epic, node, flow
<1>24. CASE Unpark(FALSE)
  BY <1>24, EnterMoves DEF Unpark, QuestionOpen, ladder, pages, bracket, epic, node, flow
<1>25. CASE kill_epic
  BY <1>25 DEF kill_epic, QuestionOpen, ladder, pages, bracket, epic, node, flow
<1>26. CASE complete_externally
  BY <1>26 DEF complete_externally, QuestionOpen, ladder, pages, bracket, epic, node, flow
<1>27. CASE RaiseOutside
  BY <1>27 DEF RaiseOutside, QuestionOpen, ladder, pages, bracket, epic, node, flow
<1>28. CASE RaiseInside
  BY <1>28 DEF RaiseInside, QuestionOpen, ladder, pages, bracket, epic, node, flow
<1>29. CASE RaiseParked
  BY <1>29 DEF RaiseParked, QuestionOpen, ladder, pages, bracket, epic, node, flow
<1>30. CASE Others \/ UNCHANGED vars
  BY <1>30 DEF QuestionOpen, vars, Others, LeaseTaken, LeaseReturned, ladder, pages, bracket, epic, node, flow
<1> QED
  BY <1>1, <1>2, <1>3, <1>4, <1>5, <1>6, <1>7, <1>8, <1>9, <1>10, <1>11, <1>12, <1>13, <1>14,
     <1>15, <1>16, <1>17, <1>18, <1>19, <1>20, <1>21, <1>22, <1>23, <1>24, <1>25, <1>26, <1>27,
     <1>28, <1>29, <1>30
     DEF Next, Coroutine, Timers, Operator, Faults

LEMMA RaisingStep == RaisingInv /\ [Next]_vars => RaisingInv'
<1> SUFFICES ASSUME RaisingInv, [Next]_vars PROVE RaisingInv'
  OBVIOUS
<1>1. CASE Prepare
  BY <1>1, EnterMoves DEF Prepare, RaisingInv, ladder, pages, bracket, epic, node, flow
<1>2. CASE AdmitOwner
  BY <1>2 DEF AdmitOwner, Launch, RaisingInv, ladder, pages, bracket, epic, node, flow
<1>3. CASE ResolveStandards
  BY <1>3 DEF ResolveStandards, RaisingInv, ladder, pages, bracket, epic, node, flow
<1>4. CASE IssueKey
  BY <1>4 DEF IssueKey, RaisingInv, ladder, pages, bracket, epic, node, flow
<1>5. CASE AgentEnds
  BY <1>5 DEF AgentEnds, RaisingInv, ladder, pages, bracket, epic, node, flow
<1>6. CASE CancelAgent
  BY <1>6 DEF CancelAgent, RaisingInv, ladder, pages, bracket, epic, node, flow
<1>7. CASE ReleaseOwner
  BY <1>7, ReleaseMoves
     DEF ReleaseOwner, release_codex_owner, RaisingInv, ladder, pages, bracket, epic, node, flow
<1>8. CASE ScanMarker
  BY <1>8 DEF ScanMarker, RaisingInv, ladder, pages, bracket, epic, node, flow
<1>9. CASE AskOperator
  BY <1>9 DEF AskOperator, RaisingInv, ladder, pages, bracket, epic, node, flow
<1>10. CASE CloseForPark
  BY <1>10 DEF CloseForPark, RaisingInv, ladder, pages, bracket, epic, node, flow
<1>11. CASE KillParked
  BY <1>11, LeaveMoves DEF KillParked, RaisingInv, ladder, pages, bracket, epic, node, flow
<1>12. CASE RunGates
  BY <1>12 DEF RunGates, RaisingInv, ladder, pages, bracket, epic, node, flow
<1>13. CASE RunJudge
  BY <1>13 DEF RunJudge, RaisingInv, ladder, pages, bracket, epic, node, flow
<1>14. CASE CloseJudge
  BY <1>14 DEF CloseJudge, RaisingInv, ladder, pages, bracket, epic, node, flow
<1>15. CASE RecordVerification
  BY <1>15, RecordMoves
     DEF RecordVerification, RaisingInv, ladder, pages, bracket, epic, node, flow
<1>16. CASE KillPage
  BY <1>16 DEF KillPage, RaisingInv, ladder, pages, bracket, epic, node, flow
<1>17. CASE Teardown
  BY <1>17, TeardownMoves DEF Teardown, RaisingInv, ladder, pages, bracket, epic, node, flow
<1>18. CASE Salvage
  BY <1>18 DEF Salvage, RaisingInv, ladder, pages, bracket, epic, node, flow
<1>19. CASE Sweep
  BY <1>19 DEF Sweep, RaisingInv, ladder, pages, bracket, epic, node, flow
<1>20. CASE Reap
  BY <1>20 DEF Reap, RaisingInv, ladder, pages, bracket, epic, node, flow
<1>21. CASE PageExpires
  BY <1>21, ResolveMoves
     DEF PageExpires, Resolve, RaisingInv, ladder, pages, bracket, epic, node, flow
<1>22. CASE Unpark(TRUE)
  BY <1>22, EnterMoves DEF Unpark, RaisingInv, ladder, pages, bracket, epic, node, flow
<1>23. CASE Press
  BY <1>23, ResolveMoves DEF Press, Resolve, RaisingInv, ladder, pages, bracket, epic, node, flow
<1>24. CASE Unpark(FALSE)
  BY <1>24, EnterMoves DEF Unpark, RaisingInv, ladder, pages, bracket, epic, node, flow
<1>25. CASE kill_epic
  BY <1>25 DEF kill_epic, RaisingInv, ladder, pages, bracket, epic, node, flow
<1>26. CASE complete_externally
  BY <1>26 DEF complete_externally, RaisingInv, ladder, pages, bracket, epic, node, flow
<1>27. CASE RaiseOutside
  BY <1>27 DEF RaiseOutside, RaisingInv, ladder, pages, bracket, epic, node, flow
<1>28. CASE RaiseInside
  BY <1>28 DEF RaiseInside, RaisingInv, ladder, pages, bracket, epic, node, flow
<1>29. CASE RaiseParked
  BY <1>29 DEF RaiseParked, RaisingInv, ladder, pages, bracket, epic, node, flow
<1>30. CASE Others \/ UNCHANGED vars
  BY <1>30 DEF RaisingInv, vars, Others, LeaseTaken, LeaseReturned, ladder, pages, bracket, epic, node, flow
<1> QED
  BY <1>1, <1>2, <1>3, <1>4, <1>5, <1>6, <1>7, <1>8, <1>9, <1>10, <1>11, <1>12, <1>13, <1>14,
     <1>15, <1>16, <1>17, <1>18, <1>19, <1>20, <1>21, <1>22, <1>23, <1>24, <1>25, <1>26, <1>27,
     <1>28, <1>29, <1>30
     DEF Next, Coroutine, Timers, Operator, Faults

LEMMA KeysStep == TypeOK /\ RaisingInv /\ KeysInv /\ [Next]_vars => KeysInv'
<1> SUFFICES ASSUME TypeOK /\ RaisingInv /\ KeysInv, [Next]_vars PROVE KeysInv'
  OBVIOUS
<1>1. CASE Prepare
  BY <1>1, EnterMoves
     DEF Prepare, RaisingInv, KeysInv, Inside, Outside, ladder, pages, bracket, epic, node, flow
<1>2. CASE AdmitOwner
  BY <1>2
     DEF AdmitOwner, Launch, RaisingInv, KeysInv, Inside, Outside, ladder, pages, bracket, epic,
     node, flow
<1>3. CASE ResolveStandards
  BY <1>3
     DEF ResolveStandards, RaisingInv, KeysInv, Inside, Outside, ladder, pages, bracket, epic,
     node, flow
<1>4. CASE IssueKey
  BY <1>4
     DEF IssueKey, RaisingInv, KeysInv, Inside, Outside, ladder, pages, bracket, epic, node, flow
<1>5. CASE AgentEnds
  BY <1>5
     DEF AgentEnds, RaisingInv, KeysInv, Inside, Outside, ladder, pages, bracket, epic, node, flow
<1>6. CASE CancelAgent
  BY <1>6
     DEF CancelAgent, RaisingInv, KeysInv, Inside, Outside, ladder, pages, bracket, epic, node,
     flow
<1>7. CASE ReleaseOwner
  BY <1>7, ReleaseMoves
     DEF ReleaseOwner, release_codex_owner, RaisingInv, KeysInv, Inside, Outside, ladder, pages,
     bracket, epic, node, flow
<1>8. CASE ScanMarker
  BY <1>8
     DEF ScanMarker, RaisingInv, KeysInv, Inside, Outside, ladder, pages, bracket, epic, node,
     flow
<1>9. CASE AskOperator
  BY <1>9
     DEF AskOperator, RaisingInv, KeysInv, Inside, Outside, ladder, pages, bracket, epic, node,
     flow
<1>10. CASE CloseForPark
  BY <1>10
     DEF CloseForPark, RaisingInv, KeysInv, Inside, Outside, ladder, pages, bracket, epic, node,
     flow
<1>11. CASE KillParked
  BY <1>11, LeaveMoves
     DEF KillParked, RaisingInv, KeysInv, Inside, Outside, ladder, pages, bracket, epic, node,
     flow
<1>12. CASE RunGates
  BY <1>12
     DEF RunGates, RaisingInv, KeysInv, Inside, Outside, ladder, pages, bracket, epic, node, flow
<1>13. CASE RunJudge
  BY <1>13
     DEF RunJudge, RaisingInv, KeysInv, Inside, Outside, ladder, pages, bracket, epic, node, flow
<1>14. CASE CloseJudge
  BY <1>14
     DEF CloseJudge, RaisingInv, KeysInv, Inside, Outside, ladder, pages, bracket, epic, node,
     flow
<1>15. CASE RecordVerification
  BY <1>15, RecordMoves
     DEF RecordVerification, RaisingInv, KeysInv, Inside, Outside, ladder, pages, bracket, epic,
     node, flow
<1>16. CASE KillPage
  BY <1>16
     DEF KillPage, RaisingInv, KeysInv, Inside, Outside, ladder, pages, bracket, epic, node, flow
<1>17. CASE Teardown
  BY <1>17, TeardownMoves
     DEF Teardown, RaisingInv, KeysInv, Inside, Outside, ladder, pages, bracket, epic, node, flow
<1>18. CASE Salvage
  BY <1>18
     DEF Salvage, RaisingInv, KeysInv, Inside, Outside, ladder, pages, bracket, epic, node, flow
<1>19. CASE Sweep
  BY <1>19
     DEF Sweep, RaisingInv, KeysInv, Inside, Outside, ladder, pages, bracket, epic, node, flow
<1>20. CASE Reap
  BY <1>20
     DEF Reap, RaisingInv, KeysInv, Inside, Outside, ladder, pages, bracket, epic, node, flow
<1>21. CASE PageExpires
  BY <1>21, ResolveMoves
     DEF PageExpires, Resolve, RaisingInv, KeysInv, Inside, Outside, ladder, pages, bracket, epic,
     node, flow
<1>22. CASE Unpark(TRUE)
  BY <1>22, EnterMoves
     DEF Unpark, RaisingInv, KeysInv, Inside, Outside, ladder, pages, bracket, epic, node, flow
<1>23. CASE Press
  BY <1>23, ResolveMoves
     DEF Press, Resolve, RaisingInv, KeysInv, Inside, Outside, ladder, pages, bracket, epic, node,
     flow
<1>24. CASE Unpark(FALSE)
  BY <1>24, EnterMoves
     DEF Unpark, RaisingInv, KeysInv, Inside, Outside, ladder, pages, bracket, epic, node, flow
<1>25. CASE kill_epic
  BY <1>25
     DEF kill_epic, RaisingInv, KeysInv, Inside, Outside, ladder, pages, bracket, epic, node, flow
<1>26. CASE complete_externally
  BY <1>26
     DEF complete_externally, RaisingInv, KeysInv, Inside, Outside, ladder, pages, bracket, epic,
     node, flow
<1>27. CASE RaiseOutside
  BY <1>27
     DEF RaiseOutside, RaisingInv, KeysInv, Inside, Outside, ladder, pages, bracket, epic, node,
     flow
<1>28. CASE RaiseInside
  BY <1>28
     DEF RaiseInside, RaisingInv, KeysInv, Inside, Outside, ladder, pages, bracket, epic, node,
     flow
<1>29. CASE RaiseParked
  BY <1>29
     DEF RaiseParked, RaisingInv, KeysInv, Inside, Outside, ladder, pages, bracket, epic, node,
     flow
<1>30. CASE Others \/ UNCHANGED vars
  BY <1>30
     DEF RaisingInv, KeysInv, Inside, Outside, vars, Others, LeaseTaken, LeaseReturned, ladder, pages, bracket, epic, node, flow
<1> QED
  BY <1>1, <1>2, <1>3, <1>4, <1>5, <1>6, <1>7, <1>8, <1>9, <1>10, <1>11, <1>12, <1>13, <1>14,
     <1>15, <1>16, <1>17, <1>18, <1>19, <1>20, <1>21, <1>22, <1>23, <1>24, <1>25, <1>26, <1>27,
     <1>28, <1>29, <1>30
     DEF Next, Coroutine, Timers, Operator, Faults

LEMMA OwnerStep == RaisingInv /\ OwnerInv /\ [Next]_vars => OwnerInv'
<1> SUFFICES ASSUME RaisingInv /\ OwnerInv, [Next]_vars PROVE OwnerInv'
  OBVIOUS
<1>1. CASE Prepare
  BY <1>1, EnterMoves DEF Prepare, RaisingInv, OwnerInv, ladder, pages, bracket, epic, node, flow
<1>2. CASE AdmitOwner
  BY <1>2 DEF AdmitOwner, Launch, RaisingInv, OwnerInv, ladder, pages, bracket, epic, node, flow
<1>3. CASE ResolveStandards
  BY <1>3 DEF ResolveStandards, RaisingInv, OwnerInv, ladder, pages, bracket, epic, node, flow
<1>4. CASE IssueKey
  BY <1>4 DEF IssueKey, RaisingInv, OwnerInv, ladder, pages, bracket, epic, node, flow
<1>5. CASE AgentEnds
  BY <1>5 DEF AgentEnds, RaisingInv, OwnerInv, ladder, pages, bracket, epic, node, flow
<1>6. CASE CancelAgent
  BY <1>6 DEF CancelAgent, RaisingInv, OwnerInv, ladder, pages, bracket, epic, node, flow
<1>7. CASE ReleaseOwner
  BY <1>7, ReleaseMoves
     DEF ReleaseOwner, release_codex_owner, RaisingInv, OwnerInv, ladder, pages, bracket, epic,
     node, flow
<1>8. CASE ScanMarker
  BY <1>8 DEF ScanMarker, RaisingInv, OwnerInv, ladder, pages, bracket, epic, node, flow
<1>9. CASE AskOperator
  BY <1>9 DEF AskOperator, RaisingInv, OwnerInv, ladder, pages, bracket, epic, node, flow
<1>10. CASE CloseForPark
  BY <1>10 DEF CloseForPark, RaisingInv, OwnerInv, ladder, pages, bracket, epic, node, flow
<1>11. CASE KillParked
  BY <1>11, LeaveMoves
     DEF KillParked, RaisingInv, OwnerInv, ladder, pages, bracket, epic, node, flow
<1>12. CASE RunGates
  BY <1>12 DEF RunGates, RaisingInv, OwnerInv, ladder, pages, bracket, epic, node, flow
<1>13. CASE RunJudge
  BY <1>13 DEF RunJudge, RaisingInv, OwnerInv, ladder, pages, bracket, epic, node, flow
<1>14. CASE CloseJudge
  BY <1>14 DEF CloseJudge, RaisingInv, OwnerInv, ladder, pages, bracket, epic, node, flow
<1>15. CASE RecordVerification
  BY <1>15, RecordMoves
     DEF RecordVerification, RaisingInv, OwnerInv, ladder, pages, bracket, epic, node, flow
<1>16. CASE KillPage
  BY <1>16 DEF KillPage, RaisingInv, OwnerInv, ladder, pages, bracket, epic, node, flow
<1>17. CASE Teardown
  BY <1>17, TeardownMoves
     DEF Teardown, RaisingInv, OwnerInv, ladder, pages, bracket, epic, node, flow
<1>18. CASE Salvage
  BY <1>18 DEF Salvage, RaisingInv, OwnerInv, ladder, pages, bracket, epic, node, flow
<1>19. CASE Sweep
  BY <1>19 DEF Sweep, RaisingInv, OwnerInv, ladder, pages, bracket, epic, node, flow
<1>20. CASE Reap
  BY <1>20 DEF Reap, RaisingInv, OwnerInv, ladder, pages, bracket, epic, node, flow
<1>21. CASE PageExpires
  BY <1>21, ResolveMoves
     DEF PageExpires, Resolve, RaisingInv, OwnerInv, ladder, pages, bracket, epic, node, flow
<1>22. CASE Unpark(TRUE)
  BY <1>22, EnterMoves DEF Unpark, RaisingInv, OwnerInv, ladder, pages, bracket, epic, node, flow
<1>23. CASE Press
  BY <1>23, ResolveMoves
     DEF Press, Resolve, RaisingInv, OwnerInv, ladder, pages, bracket, epic, node, flow
<1>24. CASE Unpark(FALSE)
  BY <1>24, EnterMoves DEF Unpark, RaisingInv, OwnerInv, ladder, pages, bracket, epic, node, flow
<1>25. CASE kill_epic
  BY <1>25 DEF kill_epic, RaisingInv, OwnerInv, ladder, pages, bracket, epic, node, flow
<1>26. CASE complete_externally
  BY <1>26 DEF complete_externally, RaisingInv, OwnerInv, ladder, pages, bracket, epic, node, flow
<1>27. CASE RaiseOutside
  BY <1>27 DEF RaiseOutside, RaisingInv, OwnerInv, ladder, pages, bracket, epic, node, flow
<1>28. CASE RaiseInside
  BY <1>28 DEF RaiseInside, RaisingInv, OwnerInv, ladder, pages, bracket, epic, node, flow
<1>29. CASE RaiseParked
  BY <1>29 DEF RaiseParked, RaisingInv, OwnerInv, ladder, pages, bracket, epic, node, flow
<1>30. CASE Others \/ UNCHANGED vars
  BY <1>30 DEF RaisingInv, OwnerInv, vars, Others, LeaseTaken, LeaseReturned, ladder, pages, bracket, epic, node, flow
<1> QED
  BY <1>1, <1>2, <1>3, <1>4, <1>5, <1>6, <1>7, <1>8, <1>9, <1>10, <1>11, <1>12, <1>13, <1>14,
     <1>15, <1>16, <1>17, <1>18, <1>19, <1>20, <1>21, <1>22, <1>23, <1>24, <1>25, <1>26, <1>27,
     <1>28, <1>29, <1>30
     DEF Next, Coroutine, Timers, Operator, Faults

-----------------------------------------------------------------------------
(* Answers and passes.                                                      *)

\* The ladder kills a node an ending answer was given for.
LEMMA EndingKills ==
    ASSUME NEW h, NEW c, NEW e, \E i \in DOMAIN e : e[i] # "RETRY"
    PROVE  next_action(h, c, e) = "KILLED"
  BY DEF next_action, ends_the_node

\* The ladder passes a node on its last attempt.
LEMMA PassedByLast ==
    ASSUME NEW h, NEW c, NEW e, next_action(h, c, e) = "PASSED"
    PROVE  h # << >> /\ Last(h).pass
  BY DEF next_action

LEMMA RecordedLast ==
    ASSUME TypeOK
    PROVE  Recorded # << >> /\ Last(Recorded).pass = verdict.pass
<1> DEFINE r == [persona |-> IF hand_back THEN NodePersona ELSE persona,
                 pass |-> verdict.pass, rewrite |-> verdict.rewrite,
                 pre |-> ~hand_back /\ ended = "pre_agent"]
<1>1. history \in Seq(AttemptRecord) /\ Recorded = Append(history, r) /\ r.pass = verdict.pass
  BY DEF Recorded, TypeOK
<1> HIDE DEF r
<1>2. Len(Recorded) = Len(history) + 1 /\ Len(history) \in Nat /\ Recorded[Len(history) + 1] = r
  BY <1>1
<1>3. Recorded # << >>
  BY <1>2
<1> QED
  BY <1>1, <1>2, <1>3 DEF Last

\* An answer is recorded and settles the node, or the page was refused.
LEMMA ResolveAnswers ==
    ASSUME TypeOK, NEW r \in Resolution, Resolve(r)
    PROVE  \/ action' = "KILLED" /\ UNCHANGED <<escalations, parked, paused, kill_requested>>
           \/ /\ Answered' => action' = "KILLED"
              /\ action' = "PASSED" => history # << >> /\ Last(history).pass
              /\ Answered => Answered'
              /\ r = "PAUSE_EPIC" => Answered'
              /\ parked' => r = "PAUSE_EPIC" \/ parked
              /\ paused' => paused \/ parked'
              /\ kill_requested => kill_requested'
<1>1. CASE is_unoffered(r, offered)
  BY <1>1 DEF Resolve, epic
<1>2. CASE ~is_unoffered(r, offered)
  <2>1. escalations \in Seq(Resolution) /\ escalations' = Append(escalations, r)
    BY <1>2 DEF Resolve, TypeOK
  <2>2. (Answered => Answered') /\ (r = "PAUSE_EPIC" => Answered')
    BY <2>1 DEF Answered
  <2>3. kill_requested => kill_requested'
    BY <1>2 DEF Resolve
  <2>4. CASE launch_page
    BY <1>2, <2>2, <2>3, <2>4 DEF Resolve
  <2>5. CASE ~launch_page
    <3> DEFINE a == next_action(history, config, escalations')
               d == IF a = "ESCALATE" THEN "KILLED" ELSE a
    <3>1. action' = d
      BY <1>2, <2>5 DEF Resolve, Chosen
    <3>2. Answered' => a = "KILLED"
      BY EndingKills DEF Answered
    <3>3. a = "PASSED" => history # << >> /\ Last(history).pass
      BY PassedByLast
    <3>4. parked' = (r = "PAUSE_EPIC") /\ paused' = (paused \/ r = "PAUSE_EPIC")
      BY <1>2, <2>5 DEF Resolve
    <3> QED
      BY <2>2, <2>3, <3>1, <3>2, <3>3, <3>4
  <2> QED
    BY <2>4, <2>5
<1> QED
  BY <1>1, <1>2

\* A step either answers a page or leaves the answers alone.
LEMMA AnswersOnlyGrow ==
    ASSUME [Next]_vars
    PROVE  \/ UNCHANGED escalations
           \/ \E r \in Resolution : Resolve(r)
<1>1. CASE Press
  BY <1>1 DEF Press, Resolution
<1>2. CASE PageExpires
  BY <1>2 DEF PageExpires, Silence, Resolution, Choice
<1>3. CASE Coroutine
  BY <1>3
     DEF Coroutine, Prepare, AdmitOwner, ResolveStandards, IssueKey, AgentEnds, CancelAgent,
     ReleaseOwner, ScanMarker, AskOperator, CloseForPark, KillParked, RunGates, RunJudge,
     CloseJudge, RecordVerification, KillPage, Teardown, Salvage, Sweep, Reap, ladder
<1>4. CASE Others \/ UNCHANGED vars \/ Faults \/ kill_epic \/ complete_externally \/ Unpark(TRUE) \/ Unpark(FALSE)
  BY <1>4
     DEF Faults, RaiseOutside, RaiseInside, RaiseParked, kill_epic, complete_externally, Unpark,
     vars, Others, LeaseTaken, LeaseReturned, ladder
<1> QED
  BY <1>1, <1>2, <1>3, <1>4 DEF Next, Timers, Operator

\* How an attempt is left, or the loop entered, with the decision in hand.
LEMMA TeardownSettles ==
    ASSUME Teardown, action \in TERMINAL_ACTIONS
    PROVE  /\ action' = action /\ pc' \in {"raised", "salvage", "ended"}
           /\ UNCHANGED <<escalations, history>>
           /\ verified' # verified \/ state' # state => action = "PASSED"
           /\ action = "PASSED" => pc' \in {"raised", "salvage"}
           /\ action = "PASSED" /\ pc' = "salvage" => state' = "PASSED"
  BY LeaveMoves DEF Teardown, Leave, TERMINAL_ACTIONS

LEMMA AnsweredStep == TypeOK /\ AnsweredInv /\ PassInv /\ [Next]_vars => AnsweredInv'
<1> SUFFICES ASSUME TypeOK /\ AnsweredInv /\ PassInv, [Next]_vars PROVE AnsweredInv'
  OBVIOUS
<1>1. CASE Prepare
  BY <1>1, EnterMoves
     DEF Prepare, AnsweredInv, Answered, Closing, ladder, pages, bracket, epic, node, flow
<1>2. CASE AdmitOwner
  BY <1>2 DEF AdmitOwner, AnsweredInv, Answered, Closing, ladder, pages, bracket, epic, node, flow
<1>3. CASE ResolveStandards
  BY <1>3
     DEF ResolveStandards, AnsweredInv, Answered, Closing, ladder, pages, bracket, epic, node,
     flow
<1>4. CASE IssueKey
  BY <1>4 DEF IssueKey, AnsweredInv, Answered, Closing, ladder, pages, bracket, epic, node, flow
<1>5. CASE AgentEnds
  BY <1>5 DEF AgentEnds, AnsweredInv, Answered, Closing, ladder, pages, bracket, epic, node, flow
<1>6. CASE CancelAgent
  BY <1>6
     DEF CancelAgent, AnsweredInv, Answered, Closing, ladder, pages, bracket, epic, node, flow
<1>7. CASE ReleaseOwner
  BY <1>7, ReleaseMoves
     DEF ReleaseOwner, AnsweredInv, Answered, Closing, ladder, pages, bracket, epic, node, flow
<1>8. CASE ScanMarker
  BY <1>8 DEF ScanMarker, AnsweredInv, Answered, Closing, ladder, pages, bracket, epic, node, flow
<1>9. CASE AskOperator
  BY <1>9
     DEF AskOperator, AnsweredInv, Answered, Closing, ladder, pages, bracket, epic, node, flow
<1>10. CASE CloseForPark
  BY <1>10
     DEF CloseForPark, AnsweredInv, Answered, Closing, ladder, pages, bracket, epic, node, flow
<1>11. CASE KillParked
  BY <1>11, LeaveMoves
     DEF KillParked, AnsweredInv, Answered, Closing, ladder, pages, bracket, epic, node, flow
<1>12. CASE RunGates
  BY <1>12 DEF RunGates, AnsweredInv, Answered, Closing, ladder, pages, bracket, epic, node, flow
<1>13. CASE RunJudge
  BY <1>13 DEF RunJudge, AnsweredInv, Answered, Closing, ladder, pages, bracket, epic, node, flow
<1>14. CASE CloseJudge
  BY <1>14
     DEF CloseJudge, AnsweredInv, Answered, Closing, ladder, pages, bracket, epic, node, flow
<1>15. CASE RecordVerification
  BY <1>15, RecordMoves
     DEF RecordVerification, AnsweredInv, Answered, Closing, ladder, pages, bracket, epic, node,
     flow
<1>16. CASE KillPage
  BY <1>16 DEF KillPage, AnsweredInv, Answered, Closing, ladder, pages, bracket, epic, node, flow
<1>17. CASE Teardown
  <2>1. CASE Answered
    BY <1>17, <2>1, TeardownSettles DEF AnsweredInv, Answered, Closing, TERMINAL_ACTIONS
  <2>2. CASE ~Answered
    BY <1>17, <2>2 DEF Teardown, AnsweredInv, Answered
  <2> QED
    BY <2>1, <2>2
<1>18. CASE Salvage
  BY <1>18 DEF Salvage, AnsweredInv, PassInv, Answered, Closing, ladder
<1>19. CASE Sweep
  BY <1>19 DEF Sweep, AnsweredInv, Answered, Closing, ladder, pages, bracket, epic, node, flow
<1>20. CASE Reap
  BY <1>20 DEF Reap, AnsweredInv, Answered, Closing, ladder, pages, bracket, epic, node, flow
<1>21. CASE PageExpires
  <2>1. PICK r \in Resolution : Resolve(r)
    BY <1>21 DEF PageExpires, Press, Silence, Resolution, Choice
  <2>2. pc = "page" /\ pc' = "teardown"
    BY <2>1, ResolveMoves
  <2>3. ~Answered
    BY <2>2 DEF AnsweredInv, Closing
  <2>4. Answered' => action' = "KILLED"
    BY <2>1, <2>3, ResolveAnswers DEF Answered
  <2> QED
    BY <2>2, <2>4 DEF AnsweredInv, Closing
<1>22. CASE Unpark(TRUE)
  BY <1>22, EnterMoves
     DEF Unpark, AnsweredInv, Answered, Closing, ladder, pages, bracket, epic, node, flow
<1>23. CASE Press
  <2>1. PICK r \in Resolution : Resolve(r)
    BY <1>23 DEF PageExpires, Press, Silence, Resolution, Choice
  <2>2. pc = "page" /\ pc' = "teardown"
    BY <2>1, ResolveMoves
  <2>3. ~Answered
    BY <2>2 DEF AnsweredInv, Closing
  <2>4. Answered' => action' = "KILLED"
    BY <2>1, <2>3, ResolveAnswers DEF Answered
  <2> QED
    BY <2>2, <2>4 DEF AnsweredInv, Closing
<1>24. CASE Unpark(FALSE)
  BY <1>24, EnterMoves
     DEF Unpark, AnsweredInv, Answered, Closing, ladder, pages, bracket, epic, node, flow
<1>25. CASE kill_epic
  BY <1>25 DEF kill_epic, AnsweredInv, Answered, Closing, ladder, pages, bracket, epic, node, flow
<1>26. CASE complete_externally
  BY <1>26
     DEF complete_externally, AnsweredInv, Answered, Closing, ladder, pages, bracket, epic, node,
     flow
<1>27. CASE RaiseOutside
  BY <1>27
     DEF RaiseOutside, AnsweredInv, Answered, Closing, ladder, pages, bracket, epic, node, flow
<1>28. CASE RaiseInside
  BY <1>28
     DEF RaiseInside, AnsweredInv, Answered, Closing, ladder, pages, bracket, epic, node, flow
<1>29. CASE RaiseParked
  BY <1>29
     DEF RaiseParked, AnsweredInv, Answered, Closing, ladder, pages, bracket, epic, node, flow
<1>30. CASE Others \/ UNCHANGED vars
  BY <1>30 DEF AnsweredInv, Answered, Closing, vars, Others, LeaseTaken, LeaseReturned, ladder, pages, bracket, epic, node, flow
<1> QED
  BY <1>1, <1>2, <1>3, <1>4, <1>5, <1>6, <1>7, <1>8, <1>9, <1>10, <1>11, <1>12, <1>13, <1>14,
     <1>15, <1>16, <1>17, <1>18, <1>19, <1>20, <1>21, <1>22, <1>23, <1>24, <1>25, <1>26, <1>27,
     <1>28, <1>29, <1>30
     DEF Next, Coroutine, Timers, Operator, Faults

LEMMA ParkStep == TypeOK /\ AnsweredInv /\ ParkInv /\ [Next]_vars => ParkInv'
<1> SUFFICES ASSUME TypeOK /\ AnsweredInv /\ ParkInv, [Next]_vars PROVE ParkInv'
  OBVIOUS
<1>1. CASE Prepare
  BY <1>1, EnterMoves DEF Prepare, ParkInv, Answered, ladder, pages, bracket, epic, node, flow
<1>2. CASE AdmitOwner
  BY <1>2 DEF AdmitOwner, ParkInv, Answered, ladder, pages, bracket, epic, node, flow
<1>3. CASE ResolveStandards
  BY <1>3 DEF ResolveStandards, ParkInv, Answered, ladder, pages, bracket, epic, node, flow
<1>4. CASE IssueKey
  BY <1>4 DEF IssueKey, ParkInv, Answered, ladder, pages, bracket, epic, node, flow
<1>5. CASE AgentEnds
  BY <1>5 DEF AgentEnds, ParkInv, Answered, ladder, pages, bracket, epic, node, flow
<1>6. CASE CancelAgent
  BY <1>6 DEF CancelAgent, ParkInv, Answered, ladder, pages, bracket, epic, node, flow
<1>7. CASE ReleaseOwner
  BY <1>7, ReleaseMoves
     DEF ReleaseOwner, ParkInv, Answered, ladder, pages, bracket, epic, node, flow
<1>8. CASE ScanMarker
  BY <1>8 DEF ScanMarker, ParkInv, Answered, ladder, pages, bracket, epic, node, flow
<1>9. CASE AskOperator
  BY <1>9 DEF AskOperator, ParkInv, Answered, ladder, pages, bracket, epic, node, flow
<1>10. CASE CloseForPark
  BY <1>10 DEF CloseForPark, ParkInv, Answered, ladder, pages, bracket, epic, node, flow
<1>11. CASE KillParked
  BY <1>11, LeaveMoves DEF KillParked, ParkInv, Answered, ladder, pages, bracket, epic, node, flow
<1>12. CASE RunGates
  BY <1>12 DEF RunGates, ParkInv, Answered, ladder, pages, bracket, epic, node, flow
<1>13. CASE RunJudge
  BY <1>13 DEF RunJudge, ParkInv, Answered, ladder, pages, bracket, epic, node, flow
<1>14. CASE CloseJudge
  BY <1>14 DEF CloseJudge, ParkInv, Answered, ladder, pages, bracket, epic, node, flow
<1>15. CASE RecordVerification
  BY <1>15, RecordMoves
     DEF RecordVerification, ParkInv, Answered, ladder, pages, bracket, epic, node, flow
<1>16. CASE KillPage
  BY <1>16 DEF KillPage, ParkInv, Answered, ladder, pages, bracket, epic, node, flow
<1>17. CASE Teardown
  BY <1>17, TeardownMoves
     DEF Teardown, ParkInv, Answered, ladder, pages, bracket, epic, node, flow
<1>18. CASE Salvage
  BY <1>18 DEF Salvage, ParkInv, Answered, ladder, pages, bracket, epic, node, flow
<1>19. CASE Sweep
  BY <1>19 DEF Sweep, ParkInv, Answered, ladder, pages, bracket, epic, node, flow
<1>20. CASE Reap
  BY <1>20 DEF Reap, ParkInv, Answered, ladder, pages, bracket, epic, node, flow
<1>21. CASE PageExpires
  <2>1. PICK r \in Resolution : Resolve(r)
    BY <1>21 DEF PageExpires, Press, Silence, Resolution, Choice
  <2>2. pc = "page" /\ pc' = "teardown"
    BY <2>1, ResolveMoves
  <2>3. ~Answered /\ ~parked /\ (paused => kill_requested)
    BY <2>2 DEF AnsweredInv, ParkInv, Closing
  <2>4. (parked' => Answered') /\ (paused' => parked' \/ kill_requested')
    BY <2>1, <2>3, ResolveAnswers DEF Answered
  <2> QED
    BY <2>4 DEF ParkInv
<1>22. CASE Unpark(TRUE)
  BY <1>22, EnterMoves DEF Unpark, ParkInv, Answered, ladder, pages, bracket, epic, node, flow
<1>23. CASE Press
  <2>1. PICK r \in Resolution : Resolve(r)
    BY <1>23 DEF PageExpires, Press, Silence, Resolution, Choice
  <2>2. pc = "page" /\ pc' = "teardown"
    BY <2>1, ResolveMoves
  <2>3. ~Answered /\ ~parked /\ (paused => kill_requested)
    BY <2>2 DEF AnsweredInv, ParkInv, Closing
  <2>4. (parked' => Answered') /\ (paused' => parked' \/ kill_requested')
    BY <2>1, <2>3, ResolveAnswers DEF Answered
  <2> QED
    BY <2>4 DEF ParkInv
<1>24. CASE Unpark(FALSE)
  BY <1>24, EnterMoves DEF Unpark, ParkInv, Answered, ladder, pages, bracket, epic, node, flow
<1>25. CASE kill_epic
  BY <1>25 DEF kill_epic, ParkInv, Answered, ladder, pages, bracket, epic, node, flow
<1>26. CASE complete_externally
  BY <1>26 DEF complete_externally, ParkInv, Answered, ladder, pages, bracket, epic, node, flow
<1>27. CASE RaiseOutside
  BY <1>27 DEF RaiseOutside, ParkInv, Answered, ladder, pages, bracket, epic, node, flow
<1>28. CASE RaiseInside
  BY <1>28 DEF RaiseInside, ParkInv, Answered, ladder, pages, bracket, epic, node, flow
<1>29. CASE RaiseParked
  BY <1>29 DEF RaiseParked, ParkInv, Answered, ladder, pages, bracket, epic, node, flow
<1>30. CASE Others \/ UNCHANGED vars
  BY <1>30 DEF ParkInv, Answered, vars, Others, LeaseTaken, LeaseReturned, ladder, pages, bracket, epic, node, flow
<1> QED
  BY <1>1, <1>2, <1>3, <1>4, <1>5, <1>6, <1>7, <1>8, <1>9, <1>10, <1>11, <1>12, <1>13, <1>14,
     <1>15, <1>16, <1>17, <1>18, <1>19, <1>20, <1>21, <1>22, <1>23, <1>24, <1>25, <1>26, <1>27,
     <1>28, <1>29, <1>30
     DEF Next, Coroutine, Timers, Operator, Faults

LEMMA PassStep == TypeOK /\ PassInv /\ [Next]_vars => PassInv'
<1> SUFFICES ASSUME TypeOK /\ PassInv, [Next]_vars PROVE PassInv'
  OBVIOUS
<1>1. CASE Prepare
  BY <1>1, EnterMoves
     DEF Prepare, Enter, Leave, PassInv, Closing, Last, ladder, pages, bracket, epic, node, flow
<1>2. CASE AdmitOwner
  BY <1>2 DEF AdmitOwner, PassInv, Closing, Last, ladder, pages, bracket, epic, node, flow
<1>3. CASE ResolveStandards
  BY <1>3 DEF ResolveStandards, PassInv, Closing, Last, ladder, pages, bracket, epic, node, flow
<1>4. CASE IssueKey
  BY <1>4 DEF IssueKey, PassInv, Closing, Last, ladder, pages, bracket, epic, node, flow
<1>5. CASE AgentEnds
  BY <1>5 DEF AgentEnds, PassInv, Closing, Last, ladder, pages, bracket, epic, node, flow
<1>6. CASE CancelAgent
  BY <1>6 DEF CancelAgent, PassInv, Closing, Last, ladder, pages, bracket, epic, node, flow
<1>7. CASE ReleaseOwner
  BY <1>7, ReleaseMoves
     DEF ReleaseOwner, LaunchFailed, OpenPage, PassInv, Closing, Last, ladder, pages, bracket,
     epic, node, flow
<1>8. CASE ScanMarker
  BY <1>8 DEF ScanMarker, PassInv, Closing, Last, ladder, pages, bracket, epic, node, flow
<1>9. CASE AskOperator
  BY <1>9 DEF AskOperator, PassInv, Closing, Last, ladder, pages, bracket, epic, node, flow
<1>10. CASE CloseForPark
  BY <1>10 DEF CloseForPark, PassInv, Closing, Last, ladder, pages, bracket, epic, node, flow
<1>11. CASE KillParked
  BY <1>11, LeaveMoves
     DEF KillParked, Leave, PassInv, Closing, Last, ladder, pages, bracket, epic, node, flow
<1>12. CASE RunGates
  BY <1>12 DEF RunGates, PassInv, Closing, Last, ladder, pages, bracket, epic, node, flow
<1>13. CASE RunJudge
  BY <1>13 DEF RunJudge, PassInv, Closing, Last, ladder, pages, bracket, epic, node, flow
<1>14. CASE CloseJudge
  BY <1>14 DEF CloseJudge, PassInv, Closing, Last, ladder, pages, bracket, epic, node, flow
<1>15. CASE RecordVerification
  <2>1. pc = "record" /\ pc' \in {"teardown", "page", "gates"} /\ action # "PASSED"
        /\ ~verified /\ state # "PASSED" /\ UNCHANGED <<verified, state>> /\ history' = Recorded
    BY <1>15, RecordMoves DEF RecordVerification, PassInv, Closing, node
  <2>2. action' = "PASSED" => pc' = "teardown" /\ Recorded # << >> /\ Last(Recorded).pass
    BY <1>15, <2>1, PassedByLast, RecordedLast
       DEF RecordVerification, Chosen, OpenPage, external_action
  <2> QED
    BY <2>1, <2>2 DEF PassInv, Closing, Last
<1>16. CASE KillPage
  BY <1>16 DEF KillPage, PassInv, Closing, Last, ladder, pages, bracket, epic, node, flow
<1>17. CASE Teardown
  <2>1. CASE action \in TERMINAL_ACTIONS
    BY <1>17, <2>1, TeardownSettles, TeardownMoves DEF PassInv, Closing, Last
  <2>2. CASE action \notin TERMINAL_ACTIONS
    BY <1>17, <2>2, TeardownMoves DEF Teardown, Enter, Leave, PassInv, Closing, TERMINAL_ACTIONS
  <2> QED
    BY <2>1, <2>2
<1>18. CASE Salvage
  BY <1>18 DEF Salvage, PassInv, Closing, Last, ladder, pages, bracket, epic, node, flow
<1>19. CASE Sweep
  BY <1>19 DEF Sweep, PassInv, Closing, Last, ladder, pages, bracket, epic, node, flow
<1>20. CASE Reap
  BY <1>20 DEF Reap, PassInv, Closing, Last, ladder, pages, bracket, epic, node, flow
<1>21. CASE PageExpires
  <2>1. PICK r \in Resolution : Resolve(r)
    BY <1>21 DEF PageExpires, Press, Silence, Resolution, Choice
  <2>2. pc = "page" /\ pc' = "teardown"
    BY <2>1, ResolveMoves
  <2>3. ~verified /\ state # "PASSED" /\ UNCHANGED <<verified, state, history>>
    BY <2>1, <2>2 DEF PassInv, Resolve, node
  <2>4. action' = "PASSED" => history # << >> /\ Last(history).pass
    BY <2>1, ResolveAnswers
  <2> QED
    BY <2>2, <2>3, <2>4 DEF PassInv, Closing
<1>22. CASE Unpark(TRUE)
  BY <1>22, EnterMoves
     DEF Unpark, Enter, Leave, PassInv, Closing, Last, ladder, pages, bracket, epic, node, flow
<1>23. CASE Press
  <2>1. PICK r \in Resolution : Resolve(r)
    BY <1>23 DEF PageExpires, Press, Silence, Resolution, Choice
  <2>2. pc = "page" /\ pc' = "teardown"
    BY <2>1, ResolveMoves
  <2>3. ~verified /\ state # "PASSED" /\ UNCHANGED <<verified, state, history>>
    BY <2>1, <2>2 DEF PassInv, Resolve, node
  <2>4. action' = "PASSED" => history # << >> /\ Last(history).pass
    BY <2>1, ResolveAnswers
  <2> QED
    BY <2>2, <2>3, <2>4 DEF PassInv, Closing
<1>24. CASE Unpark(FALSE)
  BY <1>24, EnterMoves
     DEF Unpark, Enter, Leave, PassInv, Closing, Last, ladder, pages, bracket, epic, node, flow
<1>25. CASE kill_epic
  BY <1>25 DEF kill_epic, PassInv, Closing, Last, ladder, pages, bracket, epic, node, flow
<1>26. CASE complete_externally
  BY <1>26
     DEF complete_externally, PassInv, Closing, Last, ladder, pages, bracket, epic, node, flow
<1>27. CASE RaiseOutside
  BY <1>27 DEF RaiseOutside, PassInv, Closing, Last, ladder, pages, bracket, epic, node, flow
<1>28. CASE RaiseInside
  BY <1>28 DEF RaiseInside, PassInv, Closing, Last, ladder, pages, bracket, epic, node, flow
<1>29. CASE RaiseParked
  BY <1>29 DEF RaiseParked, PassInv, Closing, Last, ladder, pages, bracket, epic, node, flow
<1>30. CASE Others \/ UNCHANGED vars
  BY <1>30 DEF PassInv, Closing, Last, vars, Others, LeaseTaken, LeaseReturned, ladder, pages, bracket, epic, node, flow
<1> QED
  BY <1>1, <1>2, <1>3, <1>4, <1>5, <1>6, <1>7, <1>8, <1>9, <1>10, <1>11, <1>12, <1>13, <1>14,
     <1>15, <1>16, <1>17, <1>18, <1>19, <1>20, <1>21, <1>22, <1>23, <1>24, <1>25, <1>26, <1>27,
     <1>28, <1>29, <1>30
     DEF Next, Coroutine, Timers, Operator, Faults

-----------------------------------------------------------------------------
(* The invariant, and what follows from it.                                 *)

LEMMA NodeInvInit == Init => NodeInv
<1> SUFFICES ASSUME Init PROVE NodeInv
  OBVIOUS
<1>1. TypeOK
  BY TypeInit
<1>2. ~Answered
  BY DEF Init, Answered
<1>3. QuestionOpen /\ KeysInv /\ RaisingInv /\ OwnerInv
  BY DEF Init, QuestionOpen, KeysInv, RaisingInv, OwnerInv, Inside, Outside
<1>4. AnsweredInv /\ ParkInv /\ PassInv
  BY <1>2 DEF Init, AnsweredInv, ParkInv, PassInv
<1> QED
  BY <1>1, <1>3, <1>4 DEF NodeInv

LEMMA NodeInvStep == NodeInv /\ [Next]_vars => NodeInv'
  BY TypeStep, QuestionStep, KeysStep, RaisingStep, OwnerStep, AnsweredStep, ParkStep, PassStep
     DEF NodeInv

THEOREM NodeInvariant == Spec => []NodeInv
<1>1. Init => NodeInv
  BY NodeInvInit
<1>2. NodeInv /\ [Next]_vars => NodeInv'
  BY NodeInvStep
<1> QED
  BY <1>1, <1>2, PTL DEF Spec

\* Every variable keeps its type.
THEOREM TypeCorrect == Spec => []TypeOK
<1>1. NodeInv => TypeOK
  BY DEF NodeInv
<1> QED
  BY <1>1, NodeInvariant, PTL

\* No key outlives its bracket, however an attempt ends: with a verdict, a
\* question, a kill, a launch failure or a raise (_run_node's `finally`).
THEOREM KeysStayBracketed == Spec => []KeysBracketed
<1>1. NodeInv => KeysBracketed
  BY DEF NodeInv, KeysInv, KeysBracketed, Inside, Outside
<1> QED
  BY <1>1, NodeInvariant, PTL

\* A node that is over leaves no question's pause on the epic.
THEOREM ParksAreReleased == Spec => []ParkReleased
<1>1. NodeInv => ParkReleased
  BY DEF NodeInv, ParkInv, ParkReleased
<1> QED
  BY <1>1, NodeInvariant, PTL

\* A node only passes on its last attempt, and never over an ending answer.
THEOREM PassesAreLast == Spec => []PassIsLast
<1>1. NodeInv => PassIsLast
  BY DEF NodeInv, PassInv, AnsweredInv, Answered, PassIsLast
<1> QED
  BY <1>1, NodeInvariant, PTL

\* The Codex owner is never held across a verification, a page or a park.
THEOREM OwnerIsGivenBack == Spec => []OwnerNotHeldWaiting
<1>1. NodeInv => OwnerNotHeldWaiting
  BY DEF NodeInv, OwnerInv, OwnerNotHeldWaiting
<1> QED
  BY <1>1, NodeInvariant, PTL

\* Whatever path an attempt takes, its keys and its owner are given back with it.
THEOREM BracketsAlwaysClose == Spec => []BracketsClose
<1>1. KeysBracketed /\ OwnerNotHeldWaiting => BracketsClose
  BY DEF BracketsClose
<1> QED
  BY <1>1, KeysStayBracketed, OwnerIsGivenBack, PTL

\* After an ending answer no step numbers an attempt or raises a page: the node
\* only closes, and none of the closing steps does either.
LEMMA ClosingStep ==
    ASSUME NodeInv, [Next]_vars, Answered
    PROVE  attempt' = attempt /\ pc' # "page"
<1>1. action = "KILLED" /\ pc \in Closing
  BY DEF NodeInv, AnsweredInv
<1>2. CASE Teardown
  BY <1>1, <1>2, TeardownMoves DEF Teardown, TERMINAL_ACTIONS
<1>3. CASE Salvage \/ Sweep \/ Reap \/ RaiseOutside \/ RaiseInside
  BY <1>1, <1>3 DEF Salvage, Sweep, Reap, RaiseOutside, RaiseInside, ladder
<1>4. CASE kill_epic \/ complete_externally \/ Others \/ UNCHANGED vars
  BY <1>1, <1>4 DEF kill_epic, complete_externally, vars, Others, LeaseTaken, LeaseReturned, ladder, flow, Closing
<1>5. CASE Press \/ PageExpires
  BY <1>1, <1>5, ResolveMoves DEF Press, PageExpires, Closing
<1>6. CASE Prepare \/ AdmitOwner \/ ResolveStandards \/ IssueKey \/ AgentEnds \/ CancelAgent
           \/ ReleaseOwner \/ ScanMarker \/ AskOperator \/ CloseForPark \/ KillParked \/ RunGates
           \/ RunJudge \/ CloseJudge \/ RecordVerification \/ KillPage \/ RaiseParked
           \/ Unpark(TRUE) \/ Unpark(FALSE)
  BY <1>1, <1>6 DEF Prepare, AdmitOwner, ResolveStandards, IssueKey, AgentEnds, CancelAgent,
     ReleaseOwner, ScanMarker, AskOperator, CloseForPark, KillParked, RunGates, RunJudge,
     CloseJudge, RecordVerification, KillPage, RaiseParked, Unpark, Closing
<1> QED
  BY <1>2, <1>3, <1>4, <1>5, <1>6 DEF Next, Coroutine, Timers, Operator, Faults

\* An ending answer is final (_page_the_operator's two refusals).
THEOREM EndingAnswersAreFinal == Spec => EndingAnswerIsFinal
<1>1. NodeInv /\ [Next]_vars
        => [(\E i \in DOMAIN escalations : escalations[i] # "RETRY")
              => attempt' = attempt /\ pc' # "page"]_vars
  BY ClosingStep DEF Answered
<1> QED
  BY <1>1, NodeInvariant, PTL DEF Spec, EndingAnswerIsFinal

-----------------------------------------------------------------------------
(***************************************************************************)
(* The budget: what an attempt may run on, how many attempts a node can    *)
(* run, and what a page offers.                                            *)
(*                                                                         *)
(* The three roles of the ladder are told apart by persona name alone, so  *)
(* these theorems are about epics in which the names differ                *)
(* (DistinctRoles).                                                        *)
(***************************************************************************)

\* The node runs as neither the debugger nor a promotion persona, and no
\* promotion persona is the debugger.
DistinctRoles ==
    /\ NodePersona # Debugger
    /\ \A c \in Configs : c.promotion_persona \notin {NodePersona, Debugger}

-----------------------------------------------------------------------------
(* Counting.                                                                *)

LEMMA CardGrows ==
    ASSUME NEW n \in Nat, NEW A \in SUBSET (1..n), NEW b \in BOOLEAN
    PROVE  /\ Cardinality(A) \in Nat
           /\ Cardinality(IF b THEN A \cup {n + 1} ELSE A)
                = Cardinality(A) + (IF b THEN 1 ELSE 0)
<1>1. IsFiniteSet(A)
  <2>1. IsFiniteSet(1..n)
    BY FS_Interval
  <2> QED
    BY <2>1, FS_Subset
<1>2. Cardinality(A) \in Nat
  BY <1>1, FS_CardinalityType
<1>3. n + 1 \notin A
  OBVIOUS
<1> QED
  BY <1>1, <1>2, <1>3, FS_AddElement

\* What one more record adds to each count.
LEMMA AppendCounts ==
    ASSUME NEW h \in Seq(AttemptRecord), NEW r \in AttemptRecord, NEW c
    PROVE  LET g == Append(h, r) IN
           /\ attempts_spent(h, c) \in Nat /\ debugger_cycles_spent(h) \in Nat
           /\ promotion_cycles_spent(h, c) \in Nat
           /\ attempts_spent(g, c) = attempts_spent(h, c)
                + (IF r.persona \notin {Debugger, c.promotion_persona} /\ ~r.pre THEN 1 ELSE 0)
           /\ debugger_cycles_spent(g) = debugger_cycles_spent(h)
                + (IF r.persona = Debugger THEN 1 ELSE 0)
           /\ promotion_cycles_spent(g, c) = promotion_cycles_spent(h, c)
                + (IF r.persona = c.promotion_persona THEN 1 ELSE 0)
<1> DEFINE g == Append(h, r)
           n == Len(h)
<1>1. n \in Nat /\ DOMAIN h = 1..n /\ DOMAIN g = 1..(n + 1)
  OBVIOUS
<1>2. (\A i \in 1..n : g[i] = h[i]) /\ g[n + 1] = r
  OBVIOUS
<1>3. r.pre \in BOOLEAN
  BY DEF AttemptRecord
<1> HIDE DEF g, n
<1>4. /\ attempts_spent(h, c) \in Nat
      /\ attempts_spent(g, c) = attempts_spent(h, c)
           + (IF r.persona \notin {Debugger, c.promotion_persona} /\ ~r.pre THEN 1 ELSE 0)
  <2> DEFINE A == {i \in DOMAIN h : h[i].persona \notin {Debugger, c.promotion_persona} /\ ~h[i].pre}
             B == {i \in DOMAIN g : g[i].persona \notin {Debugger, c.promotion_persona} /\ ~g[i].pre}
             b == r.persona \notin {Debugger, c.promotion_persona} /\ ~r.pre
  <2>1. A \in SUBSET (1..n) /\ b \in BOOLEAN
    BY <1>1
  <2>2. B = IF b THEN A \cup {n + 1} ELSE A
    BY <1>1, <1>2
  <2>3. attempts_spent(h, c) = Cardinality(A) /\ attempts_spent(g, c) = Cardinality(B)
    BY DEF attempts_spent
  <2> HIDE DEF A, B, b
  <2>4. /\ Cardinality(A) \in Nat
        /\ Cardinality(IF b THEN A \cup {n + 1} ELSE A) = Cardinality(A) + (IF b THEN 1 ELSE 0)
    BY <1>1, <2>1, CardGrows
  <2> QED
    BY <2>2, <2>3, <2>4 DEF b
<1>5. /\ debugger_cycles_spent(h) \in Nat
      /\ debugger_cycles_spent(g) = debugger_cycles_spent(h)
           + (IF r.persona = Debugger THEN 1 ELSE 0)
  <2> DEFINE A == {i \in DOMAIN h : h[i].persona = Debugger}
             B == {i \in DOMAIN g : g[i].persona = Debugger}
             b == r.persona = Debugger
  <2>1. A \in SUBSET (1..n) /\ b \in BOOLEAN
    BY <1>1
  <2>2. B = IF b THEN A \cup {n + 1} ELSE A
    BY <1>1, <1>2
  <2> QED
    BY ZenonT(40), <1>1, <2>1, <2>2, CardGrows DEF debugger_cycles_spent
<1>6. /\ promotion_cycles_spent(h, c) \in Nat
      /\ promotion_cycles_spent(g, c) = promotion_cycles_spent(h, c)
           + (IF r.persona = c.promotion_persona THEN 1 ELSE 0)
  <2> DEFINE A == {i \in DOMAIN h : h[i].persona = c.promotion_persona}
             B == {i \in DOMAIN g : g[i].persona = c.promotion_persona}
             b == r.persona = c.promotion_persona
  <2>1. A \in SUBSET (1..n) /\ b \in BOOLEAN
    BY <1>1
  <2>2. B = IF b THEN A \cup {n + 1} ELSE A
    BY <1>1, <1>2
  <2> QED
    BY ZenonT(40), <1>1, <2>1, <2>2, CardGrows DEF promotion_cycles_spent
<1> QED
  BY <1>4, <1>5, <1>6 DEF g

\* One more record lengthens the tail of pre-agent failures by one, or ends it.
LEMMA AppendTail ==
    ASSUME NEW h \in Seq(AttemptRecord), NEW r \in AttemptRecord
    PROVE  /\ pre_agent_failures_spent(h) \in Nat
           /\ pre_agent_failures_spent(Append(h, r))
                = IF r.pre THEN pre_agent_failures_spent(h) + 1 ELSE 0
<1> DEFINE g == Append(h, r)
           n == Len(h)
           A == {i \in DOMAIN h : \A j \in i..Len(h) : h[j].pre}
           B == {i \in DOMAIN g : \A j \in i..Len(g) : g[j].pre}
<1>1. n \in Nat /\ DOMAIN h = 1..n /\ DOMAIN g = 1..(n + 1) /\ Len(g) = n + 1
  OBVIOUS
<1>2. (\A i \in 1..n : g[i] = h[i]) /\ g[n + 1] = r
  OBVIOUS
<1>3. r.pre \in BOOLEAN
  BY DEF AttemptRecord
<1>4. A \in SUBSET (1..n)
  BY <1>1
<1> HIDE DEF g
<1>5. CASE r.pre
  <2>1. B = A \cup {n + 1}
    <3>1. \A i \in B : i = n + 1 \/ i \in A
      BY <1>1, <1>2
    <3>2. \A i \in A : i \in B
      BY <1>1, <1>2, <1>5
    <3>3. n + 1 \in B
      BY <1>1, <1>2, <1>5
    <3> QED
      BY <3>1, <3>2, <3>3
  <2> QED
    BY ZenonT(40), <1>1, <1>4, <1>5, <2>1, CardGrows DEF pre_agent_failures_spent, g
<1>6. CASE ~r.pre
  <2>1. B = {}
    BY <1>1, <1>2, <1>6
  <2> QED
    BY <1>1, <1>4, <1>6, <2>1, CardGrows, FS_EmptySet DEF pre_agent_failures_spent, g
<1> QED
  BY <1>3, <1>5, <1>6

-----------------------------------------------------------------------------
(* The ladder's decisions, and what they leave room for.                    *)

\* By how much a count runs past its dial, and three counts past theirs.
Over(x, dial)           == IF x > dial THEN x - dial ELSE 0
Excess(a, d, p, m, n, o) == Over(a, m) + Over(d, n) + Over(p, o)

LEMMA ExcessType ==
    ASSUME NEW a \in Nat, NEW d \in Nat, NEW p \in Nat, NEW m \in Nat, NEW n \in Nat, NEW o \in Nat
    PROVE  Excess(a, d, p, m, n, o) \in Nat /\ a + d + p <= m + n + o + Excess(a, d, p, m, n, o)
  BY DEF Excess, Over

LEMMA ExcessGrant ==
    ASSUME NEW a \in Nat, NEW d \in Nat, NEW p \in Nat, NEW m \in Nat, NEW n \in Nat, NEW o \in Nat
    PROVE  Excess(a, d, p, m + 1, n, o) <= Excess(a, d, p, m, n, o)
  BY DEF Excess, Over

LEMMA ExcessByOne ==
    ASSUME NEW a \in Nat, NEW d \in Nat, NEW p \in Nat, NEW m \in Nat, NEW n \in Nat, NEW o \in Nat,
           NEW i \in Nat, NEW j \in Nat, NEW k \in Nat, i + j + k <= 1
    PROVE  /\ Excess(a + i, d + j, p + k, m, n, o) <= Excess(a, d, p, m, n, o) + 1
           /\ Excess(a, d, p, m, n, o) <= Excess(a + i, d + j, p + k, m, n, o)
           /\ Excess(a + i, d + j, p + k, m, n, o) \in Nat
  BY DEF Excess, Over

LEMMA ExcessWithin ==
    ASSUME NEW a \in Nat, NEW d \in Nat, NEW p \in Nat, NEW m \in Nat, NEW n \in Nat, NEW o \in Nat,
           NEW i \in Nat, NEW j \in Nat, NEW k \in Nat, NEW s \in Nat,
           Excess(a + i, d + j, p + k, m, n, o) <= s
    PROVE  (i = 1 => a < m + s) /\ (j = 1 => d < n + s) /\ (k = 1 => p < o + s)
  BY DEF Excess, Over

\* What an attempt of `p` is charged to: the attempts, the debugger, the promotion.
ToAttempts(p)  == IF p \notin {Debugger, config.promotion_persona} THEN 1 ELSE 0
ToDebugger(p)  == IF p = Debugger THEN 1 ELSE 0
ToPromotion(p) == IF p = config.promotion_persona THEN 1 ELSE 0

\* The excess of a history when `e` was answered, and with one more attempt of
\* `p` charged to it.
Overrun(h, e) ==
    Excess(attempts_spent(h, config), debugger_cycles_spent(h), promotion_cycles_spent(h, config),
           config.max_attempts + Len(e), config.debugger_cycles, config.promotion_cycles)

OverrunBy(h, e, p) ==
    Excess(attempts_spent(h, config) + ToAttempts(p), debugger_cycles_spent(h) + ToDebugger(p),
           promotion_cycles_spent(h, config) + ToPromotion(p),
           config.max_attempts + Len(e), config.debugger_cycles, config.promotion_cycles)

LEMMA ChargeTypes ==
    ASSUME DistinctRoles, config \in Configs, NEW p
    PROVE  /\ ToAttempts(p) \in Nat /\ ToDebugger(p) \in Nat /\ ToPromotion(p) \in Nat
           /\ ToAttempts(p) + ToDebugger(p) + ToPromotion(p) <= 1
  BY DEF DistinctRoles, ToAttempts, ToDebugger, ToPromotion

LEMMA DialTypes ==
    ASSUME config \in Configs, NEW e \in Seq(Resolution)
    PROVE  /\ config.max_attempts + Len(e) \in Nat /\ config.debugger_cycles \in Nat
           /\ config.promotion_cycles \in Nat
  BY SMTT(30), NodeAssumption DEF VerificationConfig

LEMMA SpentTypes ==
    ASSUME NEW h \in Seq(AttemptRecord), NEW c
    PROVE  /\ attempts_spent(h, c) \in Nat /\ debugger_cycles_spent(h) \in Nat
           /\ promotion_cycles_spent(h, c) \in Nat /\ pre_agent_failures_spent(h) \in Nat
<1>1. PICK p : p \in Persona
  BY PersonaAssumption
<1>2. [persona |-> p, pass |-> FALSE, rewrite |-> FALSE, pre |-> FALSE] \in AttemptRecord
  BY <1>1 DEF AttemptRecord
<1> QED
  BY <1>2, AppendCounts, AppendTail

\* The ladder only chooses a rung with room on it, and never with the
\* pre-agent bound spent.
LEMMA DecisionBudget ==
    ASSUME NEW h, NEW c, NEW e, next_action(h, c, e) \in PRODUCES_WORK
    PROVE  /\ ~pre_agent_bound_spent(h, c, Len(e))
           /\ next_action(h, c, e) = "RETRY" => attempts_spent(h, c) < c.max_attempts + Len(e)
           /\ next_action(h, c, e) = "PROMOTE"
                => promotion_cycles_spent(h, c) < c.promotion_cycles
           /\ next_action(h, c, e) = "DEBUGGER" => debugger_cycles_spent(h) < c.debugger_cycles
  BY DEF next_action, PRODUCES_WORK, attempt_available, promotion_available

\* So the attempt it chooses overruns nothing its history had not.
LEMMA DecisionOverrun ==
    ASSUME DistinctRoles, config \in Configs, NEW h \in Seq(AttemptRecord),
           NEW e \in Seq(Resolution), next_action(h, config, e) \in PRODUCES_WORK
    PROVE  OverrunBy(h, e, RungSelection(next_action(h, config, e))) = Overrun(h, e)
<1> DEFINE w == next_action(h, config, e)
           r == RungSelection(w)
           a == attempts_spent(h, config)
           d == debugger_cycles_spent(h)
           p == promotion_cycles_spent(h, config)
           m == config.max_attempts + Len(e)
           n == config.debugger_cycles
           o == config.promotion_cycles
           i == ToAttempts(r)
           j == ToDebugger(r)
           k == ToPromotion(r)
<1>1. w \in {"RETRY", "PROMOTE", "DEBUGGER"}
  BY DEF PRODUCES_WORK
<1>2. NodePersona # Debugger /\ config.promotion_persona \notin {NodePersona, Debugger}
  BY DEF DistinctRoles
<1>3. (w = "RETRY" => a < m) /\ (w = "DEBUGGER" => d < n) /\ (w = "PROMOTE" => p < o)
  BY DecisionBudget
<1> HIDE DEF w
<1>4. (i = 1 => w = "RETRY") /\ (j = 1 => w = "DEBUGGER") /\ (k = 1 => w = "PROMOTE")
  BY <1>1, <1>2 DEF ToAttempts, ToDebugger, ToPromotion, RungSelection
<1>5. a \in Nat /\ d \in Nat /\ p \in Nat
  BY SpentTypes
<1>6. m \in Nat /\ n \in Nat /\ o \in Nat
  BY DialTypes
<1>7. i \in Nat /\ j \in Nat /\ k \in Nat /\ i + j + k <= 1
  BY ChargeTypes
<1>8. OverrunBy(h, e, r) = Excess(a + i, d + j, p + k, m, n, o)
  BY DEF OverrunBy
<1>9. Overrun(h, e) = Excess(a, d, p, m, n, o)
  BY DEF Overrun
<1> HIDE DEF a, d, p, m, n, o, i, j, k
<1>10. Excess(a + i, d + j, p + k, m, n, o) = Excess(a, d, p, m, n, o)
  BY <1>3, <1>4, <1>5, <1>6, <1>7 DEF Excess, Over
<1> QED
  BY <1>8, <1>9, <1>10 DEF w

\* The record of an attempt spends at most what was charged for it.
LEMMA AppendOverrun ==
    ASSUME DistinctRoles, config \in Configs, NEW h \in Seq(AttemptRecord),
           NEW e \in Seq(Resolution), NEW r \in AttemptRecord
    PROVE  Overrun(Append(h, r), e) <= OverrunBy(h, e, r.persona)
<1> DEFINE a == attempts_spent(h, config)
           d == debugger_cycles_spent(h)
           p == promotion_cycles_spent(h, config)
           m == config.max_attempts + Len(e)
           n == config.debugger_cycles
           o == config.promotion_cycles
           i == ToAttempts(r.persona)
           j == ToDebugger(r.persona)
           k == ToPromotion(r.persona)
           x == IF r.persona \notin {Debugger, config.promotion_persona} /\ ~r.pre THEN 1 ELSE 0
<1>1. Overrun(Append(h, r), e) = Excess(a + x, d + j, p + k, m, n, o)
  BY AppendCounts DEF Overrun, ToDebugger, ToPromotion
<1>2. OverrunBy(h, e, r.persona) = Excess(a + i, d + j, p + k, m, n, o)
  BY DEF OverrunBy
<1>3. a \in Nat /\ d \in Nat /\ p \in Nat
  BY SpentTypes
<1>4. m \in Nat /\ n \in Nat /\ o \in Nat
  BY DialTypes
<1>5. i \in Nat /\ j \in Nat /\ k \in Nat
  BY ChargeTypes
<1>6. x \in Nat /\ x <= i
  BY DEF ToAttempts
<1> HIDE DEF a, d, p, m, n, o, i, j, k, x
<1>7. Excess(a + x, d + j, p + k, m, n, o) <= Excess(a + i, d + j, p + k, m, n, o)
  BY <1>3, <1>4, <1>5, <1>6 DEF Excess, Over
<1> QED
  BY <1>1, <1>2, <1>7

\* One attempt charges one slot at most.
LEMMA OverrunByOne ==
    ASSUME DistinctRoles, config \in Configs, NEW h \in Seq(AttemptRecord),
           NEW e \in Seq(Resolution), NEW p
    PROVE  /\ Overrun(h, e) \in Nat /\ OverrunBy(h, e, p) \in Nat
           /\ Overrun(h, e) <= OverrunBy(h, e, p)
           /\ OverrunBy(h, e, p) <= Overrun(h, e) + 1
  BY DialTypes, SpentTypes, ChargeTypes, ExcessType, ExcessByOne DEF Overrun, OverrunBy

\* A grant only makes room.
LEMMA GrantOverrun ==
    ASSUME config \in Configs, NEW h \in Seq(AttemptRecord), NEW e \in Seq(Resolution),
           NEW r \in Resolution
    PROVE  Overrun(h, Append(e, r)) <= Overrun(h, e)
<1>1. config.max_attempts + Len(Append(e, r)) = (config.max_attempts + Len(e)) + 1
  <2>1. config.max_attempts \in Nat
    BY NodeAssumption DEF VerificationConfig
  <2>2. Len(e) \in Nat /\ Len(Append(e, r)) = Len(e) + 1
    OBVIOUS
  <2> QED
    BY <2>1, <2>2
<1> QED
  BY <1>1, DialTypes, SpentTypes, ExcessGrant DEF Overrun

-----------------------------------------------------------------------------
(* The invariant of the budget.                                             *)

\* The awaits of an attempt, from its launch to its verdict; the ones a
\* hand-back is verified at.
Busy      == {"prep", "admit", "standards", "issue", "run", "release", "marker", "ask",
              "parkclose", "parked", "gates", "judge", "judgeclose", "record"}
Verifying == {"gates", "judge", "judgeclose", "record"}

\* An attempt of `persona` is under way, or decided on.
Underway ==
    /\ ~raising /\ ~hand_back
    /\ pc \in Busy \/ (pc = "teardown" /\ action \notin TERMINAL_ACTIONS)

\* A hand-back is verified, and its verification ends the node.
HandBackInv ==
    hand_back => /\ pc \in Verifying \cup Closing \cup {"landing"}
                 /\ pc = "teardown" /\ ~raising => action \in TERMINAL_ACTIONS

\* A hand-back is on the record, and no attempt was charged for it.
HandedBack == IF hand_back /\ pc \notin Verifying THEN 1 ELSE 0

\* What was spent, and what is about to be, overruns the dials by the expired
\* questions at most, and by the hand-back once it is recorded.
BudgetInv ==
    /\ Underway => /\ OverrunBy(history, escalations, persona) <= expiries
                   /\ ~pre_agent_bound_spent(history, config, Len(escalations))
    /\ Overrun(history, escalations) <= expiries + HandedBack
    /\ pc = "prep" => persona = NodePersona

BudgetNodeInv == NodeInv /\ HandBackInv /\ BudgetInv /\ PageOffersWork

LEMMA HandBackStep == RaisingInv /\ HandBackInv /\ [Next]_vars => HandBackInv'
<1> SUFFICES ASSUME RaisingInv, HandBackInv, [Next]_vars PROVE HandBackInv'
  OBVIOUS
<1> USE DEF RaisingInv, HandBackInv, Verifying, Closing, TERMINAL_ACTIONS
<1>1. CASE Prepare
  BY <1>1, EnterMoves DEF Prepare
<1>2. CASE AdmitOwner
  BY <1>2 DEF AdmitOwner, Launch
<1>3. CASE ResolveStandards
  BY <1>3 DEF ResolveStandards
<1>4. CASE IssueKey
  BY <1>4 DEF IssueKey
<1>5. CASE AgentEnds
  BY <1>5 DEF AgentEnds
<1>6. CASE CancelAgent
  BY <1>6 DEF CancelAgent
<1>7. CASE ReleaseOwner
  BY <1>7, ReleaseMoves DEF ReleaseOwner
<1>8. CASE ScanMarker
  BY <1>8 DEF ScanMarker
<1>9. CASE AskOperator
  BY <1>9 DEF AskOperator
<1>10. CASE CloseForPark
  BY <1>10 DEF CloseForPark
<1>11. CASE KillParked
  BY <1>11, LeaveMoves DEF KillParked
<1>12. CASE RunGates
  BY <1>12 DEF RunGates
<1>13. CASE RunJudge
  BY <1>13 DEF RunJudge
<1>14. CASE CloseJudge
  BY <1>14 DEF CloseJudge
<1>15. CASE RecordVerification
  BY <1>15, RecordMoves DEF RecordVerification, external_action
<1>16. CASE KillPage
  BY <1>16 DEF KillPage
<1>17. CASE Teardown
  <2>1. CASE raising
    BY <1>17, <2>1, TeardownMoves DEF Teardown
  <2>2. CASE ~raising /\ ~hand_back
    BY <1>17, <2>2 DEF Teardown
  <2>3. CASE ~raising /\ hand_back
    <3>1. action \in TERMINAL_ACTIONS
      BY <1>17, <2>3 DEF Teardown
    <3> QED
      BY <1>17, <3>1, TeardownSettles
  <2> QED
    BY <2>1, <2>2, <2>3
<1>18. CASE Salvage
  BY <1>18 DEF Salvage
<1>19. CASE Sweep
  BY <1>19 DEF Sweep
<1>20. CASE Reap
  BY <1>20 DEF Reap
<1>21. CASE PageExpires
  BY <1>21, ResolveMoves DEF PageExpires, Resolve
<1>22. CASE Unpark(TRUE)
  BY <1>22, EnterMoves DEF Unpark
<1>23. CASE Press
  BY <1>23, ResolveMoves DEF Press, Resolve
<1>24. CASE Unpark(FALSE)
  BY <1>24, EnterMoves DEF Unpark
<1>25. CASE kill_epic
  BY <1>25 DEF kill_epic, flow
<1>26. CASE complete_externally
  BY <1>26 DEF complete_externally, flow
<1>27. CASE RaiseOutside
  BY <1>27 DEF RaiseOutside
<1>28. CASE RaiseInside
  BY <1>28 DEF RaiseInside
<1>29. CASE RaiseParked
  BY <1>29 DEF RaiseParked
<1>30. CASE Others \/ UNCHANGED vars
  BY <1>30 DEF vars, Others, LeaseTaken, LeaseReturned, flow
<1> QED
  BY <1>1, <1>2, <1>3, <1>4, <1>5, <1>6, <1>7, <1>8, <1>9, <1>10, <1>11, <1>12, <1>13, <1>14,
     <1>15, <1>16, <1>17, <1>18, <1>19, <1>20, <1>21, <1>22, <1>23, <1>24, <1>25, <1>26, <1>27,
     <1>28, <1>29, <1>30
     DEF Next, Coroutine, Timers, Operator, Faults

\* A step that leaves the accounts alone keeps them.
LEMMA BudgetFrame ==
    ASSUME TypeOK, DistinctRoles, BudgetInv, Underway' => Underway,
           UNCHANGED <<config, history, escalations, persona, expiries, hand_back>>,
           hand_back /\ pc' \in Verifying => pc \in Verifying, pc' = "prep" => pc = "prep"
    PROVE  BudgetInv'
<1>1. Underway' => /\ OverrunBy(history, escalations, persona)' <= expiries'
                   /\ ~pre_agent_bound_spent(history, config, Len(escalations))'
  BY DEF BudgetInv, OverrunBy, ToAttempts, ToDebugger, ToPromotion
<1>2. Overrun(history, escalations)' = Overrun(history, escalations)
  BY DEF Overrun
<1>3. Overrun(history, escalations)' <= expiries' + HandedBack'
  <2>1. HandedBack \in Nat /\ HandedBack' \in Nat /\ HandedBack <= HandedBack'
    BY DEF HandedBack
  <2>2. Overrun(history, escalations) <= expiries + HandedBack
    BY DEF BudgetInv
  <2>3. Overrun(history, escalations) \in Nat
    BY OverrunByOne DEF TypeOK
  <2>4. expiries \in Nat
    BY WorldType DEF TypeOK
  <2> QED
    BY <1>2, <2>1, <2>2, <2>3, <2>4
<1>4. (pc = "prep" => persona = NodePersona)'
  BY DEF BudgetInv
<1> QED
  BY <1>1, <1>3, <1>4 DEF BudgetInv

\* An expired question is charged to the attempt that asked it, and the next
\* attempt starts on the slot the expiry is counted for.
LEMMA ExpiryBudget ==
    ASSUME TypeOK, DistinctRoles, RaisingInv, HandBackInv, BudgetInv, Unpark(TRUE)
    PROVE  BudgetInv'
<1> DEFINE r == [persona |-> persona, pass |-> FALSE, rewrite |-> FALSE, pre |-> FALSE]
           h == Append(history, r)
<1>1. /\ history' = h /\ expiries' = expiries + 1 /\ persona' = persona
      /\ UNCHANGED <<config, escalations, hand_back>>
  BY DEF Unpark, Enter
<1>2. r \in AttemptRecord /\ r.persona = persona /\ r.pre = FALSE
  BY DEF TypeOK, AttemptRecord
<1>3. /\ config \in Configs /\ history \in Seq(AttemptRecord) /\ h \in Seq(AttemptRecord)
      /\ escalations \in Seq(Resolution) /\ expiries \in Nat
  BY <1>2, WorldType DEF TypeOK
<1>4. Underway
  BY DEF Unpark, Underway, Busy, RaisingInv, HandBackInv, Verifying, Closing
<1>5. OverrunBy(history, escalations, persona) <= expiries
  BY <1>4 DEF BudgetInv
<1> HIDE DEF r
<1>6. Overrun(h, escalations) \in Nat /\ Overrun(h, escalations) <= expiries
  <2>1. Overrun(h, escalations) <= OverrunBy(history, escalations, persona)
    BY <1>2, <1>3, AppendOverrun
  <2>2. OverrunBy(history, escalations, persona) \in Nat /\ Overrun(h, escalations) \in Nat
    BY <1>3, OverrunByOne
  <2> QED
    BY <1>3, <1>5, <2>1, <2>2
<1>7. OverrunBy(h, escalations, persona) <= expiries + 1
  <2>1. /\ OverrunBy(h, escalations, persona) \in Nat
        /\ OverrunBy(h, escalations, persona) <= Overrun(h, escalations) + 1
    BY <1>3, OverrunByOne
  <2> QED
    BY <1>3, <1>6, <2>1
<1>8. ~pre_agent_bound_spent(h, config, Len(escalations))
  <2>1. pre_agent_failures_spent(h) = 0
    BY <1>2, <1>3, AppendTail
  <2>2. config.max_pre_agent_failures \in Nat \ {0} /\ Len(escalations) \in Nat
    BY SMTT(30), <1>3, NodeAssumption DEF VerificationConfig
  <2> QED
    BY <2>1, <2>2 DEF pre_agent_bound_spent
<1> HIDE DEF h
<1>9. OverrunBy(history, escalations, persona)' = OverrunBy(h, escalations, persona)
  BY <1>1 DEF OverrunBy, ToAttempts, ToDebugger, ToPromotion
<1>10. Overrun(history, escalations)' = Overrun(h, escalations)
  BY <1>1 DEF Overrun
<1>11. pre_agent_bound_spent(history, config, Len(escalations))'
          = pre_agent_bound_spent(h, config, Len(escalations))
  BY <1>1
<1>12. HandedBack' \in Nat
  BY DEF HandedBack
<1>13. Overrun(history, escalations)' <= expiries' + HandedBack'
  BY <1>1, <1>3, <1>6, <1>10, <1>12
<1>14. pc' # "prep"
  BY EnterMoves DEF Unpark
<1> QED
  BY <1>1, <1>7, <1>8, <1>9, <1>11, <1>13, <1>14 DEF BudgetInv

\* The recorded attempt spends what was charged for it, and a hand-back one
\* slot nobody charged.
LEMMA RecordedOverrun ==
    ASSUME TypeOK, DistinctRoles, RaisingInv, BudgetInv, pc = "record"
    PROVE  /\ Overrun(Recorded, escalations) \in Nat
           /\ Overrun(Recorded, escalations) <= expiries + (IF hand_back THEN 1 ELSE 0)
<1> DEFINE q == IF hand_back THEN NodePersona ELSE persona
           r == [persona |-> q, pass |-> verdict.pass, rewrite |-> verdict.rewrite,
                 pre |-> ~hand_back /\ ended = "pre_agent"]
<1>1. Recorded = Append(history, r)
  BY DEF Recorded
<1>2. r \in AttemptRecord /\ r.persona = q
  BY NodeAssumption DEF TypeOK, Verdict, AttemptRecord
<1> HIDE DEF r, q
<1>3. /\ config \in Configs /\ history \in Seq(AttemptRecord)
      /\ escalations \in Seq(Resolution) /\ expiries \in Nat
  BY WorldType DEF TypeOK
<1>4. Overrun(Recorded, escalations) <= OverrunBy(history, escalations, q)
  BY <1>1, <1>2, <1>3, AppendOverrun
<1>5. Overrun(Recorded, escalations) \in Nat
  BY <1>3, RecordedType, OverrunByOne
<1>6. /\ OverrunBy(history, escalations, q) \in Nat /\ Overrun(history, escalations) \in Nat
      /\ OverrunBy(history, escalations, q) <= Overrun(history, escalations) + 1
  BY <1>3, OverrunByOne
<1>7. CASE hand_back
  <2>1. Overrun(history, escalations) <= expiries + 0
    BY <1>7 DEF BudgetInv, HandedBack, Verifying
  <2> QED
    BY <1>3, <1>4, <1>5, <1>6, <1>7, <2>1
<1>8. CASE ~hand_back
  <2>1. OverrunBy(history, escalations, q) <= expiries
    BY <1>8 DEF BudgetInv, Underway, Busy, RaisingInv, q
  <2> QED
    BY <1>3, <1>4, <1>5, <1>6, <1>8, <2>1
<1> QED
  BY <1>7, <1>8

LEMMA RecordBudget ==
    ASSUME TypeOK, DistinctRoles, RaisingInv, BudgetInv, RecordVerification
    PROVE  BudgetInv'
<1> DEFINE a == next_action(Recorded, config, escalations)
<1>1. pc = "record" /\ history' = Recorded /\ UNCHANGED <<config, escalations, expiries>>
  BY DEF RecordVerification
<1>2. /\ Overrun(Recorded, escalations) \in Nat
      /\ Overrun(Recorded, escalations) <= expiries + (IF hand_back THEN 1 ELSE 0)
  BY <1>1, RecordedOverrun
<1>3. /\ config \in Configs /\ Recorded \in Seq(AttemptRecord)
      /\ escalations \in Seq(Resolution) /\ expiries \in Nat
  BY RecordedType, WorldType DEF TypeOK
<1>4. pc' \in {"teardown", "page", "gates"}
  BY RecordMoves
<1>5. hand_back => hand_back' /\ pc' = "teardown" /\ action' \in TERMINAL_ACTIONS
  BY DEF RecordVerification, external_action, TERMINAL_ACTIONS
<1>6. Overrun(history, escalations)' <= expiries' + HandedBack'
  <2>1. Overrun(history, escalations)' = Overrun(Recorded, escalations)
    BY <1>1 DEF Overrun
  <2>2. (IF hand_back THEN 1 ELSE 0) <= HandedBack' /\ HandedBack' \in Nat
    BY <1>5 DEF HandedBack, Verifying
  <2> QED
    BY <1>1, <1>2, <1>3, <2>1, <2>2
<1>7. Underway' => ~hand_back /\ a # "ESCALATE" /\ Chosen(a) /\ a \notin TERMINAL_ACTIONS
  BY <1>4, <1>5 DEF RecordVerification, Underway, Busy, OpenPage, Chosen, TERMINAL_ACTIONS
<1>8. ASSUME Underway'
      PROVE  /\ OverrunBy(history, escalations, persona)' <= expiries'
             /\ ~pre_agent_bound_spent(history, config, Len(escalations))'
  <2>1. a \in PRODUCES_WORK
    BY <1>7, <1>8, NextActionType DEF Action, TERMINAL_ACTIONS, PRODUCES_WORK
  <2>2. persona' = RungSelection(a)
    BY <1>7, <1>8 DEF Chosen
  <2>3. OverrunBy(Recorded, escalations, RungSelection(a)) = Overrun(Recorded, escalations)
    BY <1>3, <2>1, DecisionOverrun
  <2>4. ~pre_agent_bound_spent(Recorded, config, Len(escalations))
    BY <2>1, DecisionBudget
  <2> HIDE DEF a
  <2>5. OverrunBy(history, escalations, persona)' = OverrunBy(Recorded, escalations, RungSelection(a))
    BY <1>1, <2>2 DEF OverrunBy, ToAttempts, ToDebugger, ToPromotion
  <2> QED
    BY <1>1, <1>2, <1>3, <1>7, <1>8, <2>3, <2>4, <2>5
<1> QED
  BY <1>4, <1>6, <1>8 DEF BudgetInv

\* An answer decides for a rung that has room, or ends the node; the grant it
\* may carry only makes room.
LEMMA ResolveBudget ==
    ASSUME TypeOK, DistinctRoles, HandBackInv, BudgetInv, NEW r \in Resolution, Resolve(r)
    PROVE  BudgetInv'
<1> DEFINE a == next_action(history, config, escalations')
<1>1. pc = "page" /\ pc' = "teardown"
  BY ResolveMoves
<1>2. ~hand_back /\ UNCHANGED <<config, history, expiries, hand_back>>
  BY <1>1 DEF Resolve, HandBackInv, Verifying, Closing
<1>3. /\ config \in Configs /\ history \in Seq(AttemptRecord)
      /\ escalations \in Seq(Resolution) /\ expiries \in Nat
  BY WorldType DEF TypeOK
<1>4. escalations' \in {escalations, Append(escalations, r)}
  BY DEF Resolve
<1>5. Overrun(history, escalations') <= Overrun(history, escalations)
  <2>1. Overrun(history, escalations) \in Nat
    BY <1>3, OverrunByOne
  <2>2. CASE escalations' = escalations
    BY <2>1, <2>2
  <2>3. CASE escalations' = Append(escalations, r)
    BY <1>3, <2>3, GrantOverrun
  <2> QED
    BY <1>4, <2>2, <2>3
<1>6. /\ Overrun(history, escalations') \in Nat /\ Overrun(history, escalations') <= expiries
      /\ escalations' \in Seq(Resolution)
  <2>1. Overrun(history, escalations) <= expiries + 0
    BY <1>2 DEF BudgetInv, HandedBack
  <2>2. escalations' \in Seq(Resolution)
    BY <1>3, <1>4
  <2>3. Overrun(history, escalations) \in Nat /\ Overrun(history, escalations') \in Nat
    BY <1>3, <2>2, OverrunByOne
  <2> QED
    BY <1>3, <1>5, <2>1, <2>2, <2>3
<1>7. Overrun(history, escalations)' <= expiries' + HandedBack'
  <2>1. Overrun(history, escalations)' = Overrun(history, escalations')
    BY <1>2 DEF Overrun
  <2>2. HandedBack' = 0
    BY <1>2 DEF HandedBack
  <2> QED
    BY <1>2, <1>3, <1>6, <2>1, <2>2
<1>8. ASSUME Underway'
      PROVE  /\ OverrunBy(history, escalations, persona)' <= expiries'
             /\ ~pre_agent_bound_spent(history, config, Len(escalations))'
  <2>1. action' \notin TERMINAL_ACTIONS
    BY <1>1, <1>8 DEF Underway, Busy
  <2>2. Chosen(IF a = "ESCALATE" THEN "KILLED" ELSE a)
    BY <2>1 DEF Resolve, TERMINAL_ACTIONS
  <2>3. a \in PRODUCES_WORK /\ persona' = RungSelection(a)
    BY <2>1, <2>2, NextActionType DEF Chosen, Action, TERMINAL_ACTIONS, PRODUCES_WORK
  <2>4. OverrunBy(history, escalations', RungSelection(a)) = Overrun(history, escalations')
    BY <1>3, <1>6, <2>3, DecisionOverrun
  <2>5. ~pre_agent_bound_spent(history, config, Len(escalations'))
    BY <2>3, DecisionBudget
  <2> HIDE DEF a
  <2>6. OverrunBy(history, escalations, persona)' = OverrunBy(history, escalations', RungSelection(a))
    BY <1>2, <2>3 DEF OverrunBy, ToAttempts, ToDebugger, ToPromotion
  <2> QED
    BY <1>2, <1>6, <2>4, <2>5, <2>6
<1> QED
  BY <1>1, <1>7, <1>8 DEF BudgetInv

\* Only a verification's record, an answer and an expired question move the
\* accounts; every other step keeps them, and starts no attempt of its own.
Kept == UNCHANGED <<config, history, escalations, persona, expiries, hand_back>>

LEMMA AccountsKept ==
    ASSUME RaisingInv, HandBackInv, BudgetInv, [Next]_vars
    PROVE  \/ RecordVerification \/ Press \/ PageExpires \/ Unpark(TRUE)
           \/ /\ Kept /\ (Underway' => Underway)
              /\ hand_back /\ pc' \in Verifying => pc \in Verifying
              /\ pc' = "prep" => pc = "prep"
<1> DEFINE Goal == /\ Kept /\ (Underway' => Underway)
                   /\ hand_back /\ pc' \in Verifying => pc \in Verifying
                   /\ pc' = "prep" => pc = "prep"
<1> USE DEF Kept, Underway, Busy, Verifying, Closing, RaisingInv, HandBackInv, TERMINAL_ACTIONS
<1>1. ASSUME Prepare PROVE Goal
  BY <1>1, EnterMoves DEF BudgetInv, Prepare, Enter
<1>2. ASSUME AdmitOwner PROVE Goal
  BY <1>2 DEF AdmitOwner, Launch, pages
<1>3. ASSUME ResolveStandards PROVE Goal
  BY <1>3 DEF ResolveStandards, ladder, pages
<1>4. ASSUME IssueKey PROVE Goal
  BY <1>4 DEF IssueKey, ladder, pages
<1>5. ASSUME AgentEnds PROVE Goal
  BY <1>5 DEF AgentEnds, ladder, pages
<1>6. ASSUME CancelAgent PROVE Goal
  BY <1>6 DEF CancelAgent, ladder, pages
<1>7. ASSUME ReleaseOwner PROVE Goal
  BY <1>7, ReleaseMoves DEF ReleaseOwner, LaunchFailed, OpenPage
<1>8. ASSUME ScanMarker PROVE Goal
  BY <1>8 DEF ScanMarker, ladder
<1>9. ASSUME AskOperator PROVE Goal
  BY <1>9 DEF AskOperator, ladder, pages
<1>10. ASSUME CloseForPark PROVE Goal
  BY <1>10 DEF CloseForPark, ladder, pages
<1>11. ASSUME KillParked PROVE Goal
  BY <1>11, LeaveMoves DEF KillParked, ladder
<1>12. ASSUME RunGates PROVE Goal
  BY <1>12 DEF RunGates, ladder, pages
<1>13. ASSUME RunJudge PROVE Goal
  BY <1>13 DEF RunJudge, ladder, pages
<1>14. ASSUME CloseJudge PROVE Goal
  BY <1>14 DEF CloseJudge, ladder, pages
<1>15. ASSUME KillPage PROVE Goal
  BY <1>15 DEF KillPage, ladder, pages
<1>16. ASSUME Teardown PROVE Goal
  <2>1. ASSUME Underway' PROVE Underway
    <3>1. ~raising /\ ~hand_back
      BY <1>16, <2>1 DEF Teardown
    <3>2. CASE action \in TERMINAL_ACTIONS
      BY <1>16, <2>1, <3>2, TeardownSettles
    <3>3. CASE action \notin TERMINAL_ACTIONS
      BY <1>16, <3>1, <3>3 DEF Teardown
    <3> QED
      BY <3>2, <3>3
  <2>2. Kept /\ pc' \notin Verifying \cup {"prep"}
    BY <1>16, TeardownMoves DEF Teardown, Enter
  <2> QED
    BY <2>1, <2>2
<1>17. ASSUME Salvage PROVE Goal
  BY <1>17 DEF Salvage, ladder, pages
<1>18. ASSUME Sweep PROVE Goal
  BY <1>18 DEF Sweep, ladder, pages
<1>19. ASSUME Reap PROVE Goal
  BY <1>19 DEF Reap, ladder, pages
<1>20. ASSUME Unpark(FALSE) PROVE Goal
  BY <1>20, EnterMoves DEF Unpark, Enter
<1>21. ASSUME kill_epic PROVE Goal
  BY <1>21 DEF kill_epic, ladder, pages, flow
<1>22. ASSUME complete_externally PROVE Goal
  BY <1>22 DEF complete_externally, ladder, flow
<1>23. ASSUME RaiseOutside PROVE Goal
  BY <1>23 DEF RaiseOutside, ladder, pages
<1>24. ASSUME RaiseInside PROVE Goal
  BY <1>24 DEF RaiseInside, ladder, pages
<1>25. ASSUME RaiseParked PROVE Goal
  BY <1>25 DEF RaiseParked, ladder, pages
<1>26. ASSUME Others \/ UNCHANGED vars PROVE Goal
  BY <1>26 DEF vars, Others, LeaseTaken, LeaseReturned, ladder, pages, flow
<1> QED
  BY <1>1, <1>2, <1>3, <1>4, <1>5, <1>6, <1>7, <1>8, <1>9, <1>10, <1>11, <1>12, <1>13, <1>14,
     <1>15, <1>16, <1>17, <1>18, <1>19, <1>20, <1>21, <1>22, <1>23, <1>24, <1>25, <1>26
     DEF Next, Coroutine, Timers, Operator, Faults

LEMMA BudgetStep ==
    ASSUME TypeOK, DistinctRoles, RaisingInv, HandBackInv, BudgetInv, [Next]_vars
    PROVE  BudgetInv'
<1>1. CASE RecordVerification
  BY <1>1, RecordBudget
<1>2. CASE Press
  BY <1>2, ResolveBudget DEF Press, Resolution
<1>3. CASE PageExpires
  <2>1. Silence \in Resolution
    BY DEF Silence, Resolution, Choice
  <2> QED
    BY <1>3, <2>1, ResolveBudget DEF PageExpires
<1>4. CASE Unpark(TRUE)
  BY <1>4, ExpiryBudget
<1>5. CASE /\ Kept /\ (Underway' => Underway)
           /\ hand_back /\ pc' \in Verifying => pc \in Verifying
           /\ pc' = "prep" => pc = "prep"
  BY <1>5, BudgetFrame DEF Kept
<1> QED
  BY <1>1, <1>2, <1>3, <1>4, <1>5, AccountsKept

-----------------------------------------------------------------------------
(* What a page offers.                                                      *)

\* A ladder that is exhausted, on a history that overran nothing and did not
\* start on a spent pre-agent bound, works again on one more grant.
LEMMA GrantWorks ==
    ASSUME TypeOK, DistinctRoles, RaisingInv, BudgetInv, pc = "record", ~hand_back, expiries = 0,
           next_action(Recorded, config, escalations) = "ESCALATE"
    PROVE  grant_produces_work(Recorded, config, escalations)
<1> DEFINE e == Append(escalations, "RETRY")
           r == [persona |-> persona, pass |-> verdict.pass, rewrite |-> verdict.rewrite,
                 pre |-> ended = "pre_agent"]
<1>1. /\ config \in Configs /\ history \in Seq(AttemptRecord) /\ Recorded \in Seq(AttemptRecord)
      /\ escalations \in Seq(Resolution) /\ expiries \in Nat
  BY RecordedType, WorldType DEF TypeOK
<1>2. Len(e) = Len(escalations) + 1 /\ Len(escalations) \in Nat
  BY <1>1 DEF Resolution, Choice
<1>3. \A i \in DOMAIN e : e[i] = "RETRY"
  <2>1. \A i \in DOMAIN escalations : escalations[i] = "RETRY"
    BY DEF next_action, ends_the_node
  <2> QED
    BY <1>1, <2>1 DEF Resolution, Choice
<1>4. ~(Recorded # << >> /\ Last(Recorded).pass)
  BY DEF next_action
<1>5. /\ config.max_attempts \in Nat /\ config.debugger_cycles \in Nat
      /\ config.promotion_cycles \in Nat /\ config.max_pre_agent_failures \in Nat
  BY <1>1, NodeAssumption DEF VerificationConfig
<1>6. attempt_available(Recorded, config, Len(e))
  <2>1. Overrun(Recorded, escalations) \in Nat /\ Overrun(Recorded, escalations) <= 0
    BY RecordedOverrun
  <2>2. /\ attempts_spent(Recorded, config) \in Nat /\ debugger_cycles_spent(Recorded) \in Nat
        /\ promotion_cycles_spent(Recorded, config) \in Nat
    BY <1>1, SpentTypes
  <2>3. attempts_spent(Recorded, config) <= config.max_attempts + Len(escalations)
    <3> DEFINE x == attempts_spent(Recorded, config)
               y == debugger_cycles_spent(Recorded)
               z == promotion_cycles_spent(Recorded, config)
               m == config.max_attempts + Len(escalations)
    <3>1. Excess(x, y, z, m, config.debugger_cycles, config.promotion_cycles) <= 0
      BY <2>1 DEF Overrun
    <3>2. m \in Nat /\ x \in Nat /\ y \in Nat /\ z \in Nat
      BY <1>2, <1>5, <2>2
    <3> HIDE DEF x, y, z, m
    <3>3. x <= m
      BY <1>5, <3>1, <3>2 DEF Excess, Over
    <3> QED
      BY <3>3 DEF x, m
  <2> QED
    BY <1>2, <1>5, <2>2, <2>3 DEF attempt_available
<1>7. ~pre_agent_bound_spent(Recorded, config, Len(e))
  <2>1. Recorded = Append(history, r) /\ r \in AttemptRecord
    BY DEF Recorded, TypeOK, Verdict, AttemptRecord
  <2> HIDE DEF r
  <2>2. /\ pre_agent_failures_spent(history) \in Nat /\ pre_agent_failures_spent(Recorded) \in Nat
        /\ pre_agent_failures_spent(Recorded) <= pre_agent_failures_spent(history) + 1
    <3>1. /\ pre_agent_failures_spent(history) \in Nat
          /\ pre_agent_failures_spent(Recorded)
               = IF r.pre THEN pre_agent_failures_spent(history) + 1 ELSE 0
      BY <1>1, <2>1, AppendTail
    <3> QED
      BY <3>1
  <2>3. ~(pre_agent_failures_spent(history) >= config.max_pre_agent_failures + Len(escalations))
    BY DEF BudgetInv, Underway, Busy, RaisingInv, pre_agent_bound_spent
  <2> QED
    BY <1>2, <1>5, <2>2, <2>3 DEF pre_agent_bound_spent
<1>8. ~judge_vetoes_a_retry(Recorded, config, Len(e))
  BY <1>2 DEF judge_vetoes_a_retry
<1> HIDE DEF e
<1>9. next_action(Recorded, config, e) = "RETRY"
  BY <1>3, <1>4, <1>6, <1>7, <1>8 DEF next_action, ends_the_node
<1> QED
  BY <1>9 DEF grant_produces_work, PRODUCES_WORK, e

\* Only these steps raise a page.
LEMMA PageOpens ==
    ASSUME [Next]_vars, pc' = "page"
    PROVE  \/ ReleaseOwner \/ RecordVerification
           \/ UNCHANGED <<pc, launch_page, expiries, offered>>
<1>1. CASE kill_epic \/ complete_externally \/ Others \/ UNCHANGED vars
  BY <1>1 DEF kill_epic, complete_externally, vars, Others, LeaseTaken, LeaseReturned, ladder, pages, flow
<1>2. CASE Prepare \/ KillParked \/ Teardown \/ Press \/ PageExpires \/ Unpark(TRUE) \/ Unpark(FALSE)
  BY <1>2, EnterMoves, LeaveMoves, TeardownMoves, ResolveMoves
     DEF Prepare, KillParked, Press, PageExpires, Unpark
<1>3. CASE AdmitOwner \/ ResolveStandards \/ IssueKey \/ AgentEnds \/ CancelAgent \/ ScanMarker
           \/ AskOperator \/ CloseForPark \/ RunGates \/ RunJudge \/ CloseJudge \/ KillPage
           \/ Salvage \/ Sweep \/ Reap \/ RaiseOutside \/ RaiseInside \/ RaiseParked
  BY <1>3 DEF AdmitOwner, Launch, ResolveStandards, IssueKey, AgentEnds, CancelAgent, ScanMarker,
     AskOperator, CloseForPark, RunGates, RunJudge, CloseJudge, KillPage, Salvage, Sweep, Reap,
     RaiseOutside, RaiseInside, RaiseParked
<1> QED
  BY <1>1, <1>2, <1>3 DEF Next, Coroutine, Timers, Operator, Faults

LEMMA OfferStep ==
    ASSUME TypeOK, DistinctRoles, RaisingInv, BudgetInv, PageOffersWork, [Next]_vars
    PROVE  PageOffersWork'
<1> SUFFICES ASSUME pc' = "page", ~launch_page', expiries' = 0
             PROVE  "RETRY" \in offered'
  BY DEF PageOffersWork
<1>1. CASE ReleaseOwner
  BY <1>1, ReleaseMoves DEF ReleaseOwner, LaunchFailed, OpenPage
<1>2. CASE RecordVerification
  <2>1. /\ pc = "record" /\ expiries = 0 /\ ~hand_back
        /\ next_action(Recorded, config, escalations) = "ESCALATE"
        /\ offered' = offered_choices(grant_produces_work(Recorded, config, escalations))
    BY <1>2 DEF RecordVerification, OpenPage, Chosen
  <2>2. grant_produces_work(Recorded, config, escalations)
    BY <2>1, GrantWorks
  <2> QED
    BY <2>1, <2>2 DEF offered_choices
<1>3. CASE UNCHANGED <<pc, launch_page, expiries, offered>>
  BY <1>3 DEF PageOffersWork
<1> QED
  BY <1>1, <1>2, <1>3, PageOpens

-----------------------------------------------------------------------------
(* The invariant, and what follows from it.                                 *)

LEMMA BudgetInit ==
    ASSUME DistinctRoles, Init
    PROVE  HandBackInv /\ BudgetInv /\ PageOffersWork
<1>1. history = << >> /\ escalations = << >> /\ persona = NodePersona /\ expiries = 0
  BY DEF Init
<1>2. config \in Configs
  BY DEF Init
<1>3. /\ config.max_attempts \in Nat \ {0} /\ config.debugger_cycles \in Nat
      /\ config.promotion_cycles \in Nat /\ config.max_pre_agent_failures \in Nat \ {0}
  BY <1>2, NodeAssumption DEF VerificationConfig
<1>4. Cardinality({}) = 0
  BY FS_EmptySet
<1>5. /\ attempts_spent(<< >>, config) = 0 /\ debugger_cycles_spent(<< >>) = 0
      /\ promotion_cycles_spent(<< >>, config) = 0 /\ pre_agent_failures_spent(<< >>) = 0
  <2>1. /\ {i \in DOMAIN << >> : << >>[i].persona \notin {Debugger, config.promotion_persona}
                                  /\ ~<< >>[i].pre} = {}
        /\ {i \in DOMAIN << >> : << >>[i].persona = Debugger} = {}
        /\ {i \in DOMAIN << >> : << >>[i].persona = config.promotion_persona} = {}
        /\ {i \in DOMAIN << >> : \A j \in i..Len(<< >>) : << >>[j].pre} = {}
    OBVIOUS
  <2> QED
    BY <1>4, <2>1
       DEF attempts_spent, debugger_cycles_spent, promotion_cycles_spent, pre_agent_failures_spent
<1>6. /\ ToAttempts(NodePersona) = 1 /\ ToDebugger(NodePersona) = 0 /\ ToPromotion(NodePersona) = 0
  BY <1>2 DEF DistinctRoles, ToAttempts, ToDebugger, ToPromotion
<1>7. OverrunBy(history, escalations, persona) = 0 /\ Overrun(history, escalations) = 0
  BY <1>1, <1>3, <1>5, <1>6 DEF OverrunBy, Overrun, Excess, Over
<1>8. ~pre_agent_bound_spent(history, config, Len(escalations))
  BY <1>1, <1>3, <1>5 DEF pre_agent_bound_spent
<1>9. HandedBack = 0
  BY DEF Init, HandedBack
<1> QED
  BY <1>1, <1>7, <1>8, <1>9 DEF Init, HandBackInv, BudgetInv, PageOffersWork

LEMMA BudgetInvariant == DistinctRoles /\ Spec => []BudgetNodeInv
<1> SUFFICES ASSUME DistinctRoles PROVE Spec => []BudgetNodeInv
  OBVIOUS
<1>1. Init => BudgetNodeInv
  BY NodeInvInit, BudgetInit DEF BudgetNodeInv
<1>2. BudgetNodeInv /\ [Next]_vars => BudgetNodeInv'
  BY NodeInvStep, HandBackStep, BudgetStep, OfferStep DEF BudgetNodeInv, NodeInv
<1> QED
  BY <1>1, <1>2, PTL DEF Spec

\* An attempt only runs on budget, but for the questions that expired
\* (next_action's counters, and _run_node's `continue` past an expiry).
THEOREM AttemptsRunOnBudget == DistinctRoles /\ Spec => []RunsOnBudget
<1> SUFFICES ASSUME DistinctRoles PROVE Spec => []RunsOnBudget
  OBVIOUS
<1>1. BudgetNodeInv => RunsOnBudget
  <2> SUFFICES ASSUME BudgetNodeInv, pc = "run" PROVE RunsOnBudget
    BY DEF RunsOnBudget, OnBudget
  <2> DEFINE a == attempts_spent(history, config)
             d == debugger_cycles_spent(history)
             p == promotion_cycles_spent(history, config)
             m == config.max_attempts + Len(escalations)
             n == config.debugger_cycles
             o == config.promotion_cycles
             i == ToAttempts(persona)
             j == ToDebugger(persona)
             k == ToPromotion(persona)
  <2>1. TypeOK /\ RaisingInv /\ HandBackInv /\ BudgetInv
    BY DEF BudgetNodeInv, NodeInv
  <2>2. Underway
    BY <2>1 DEF Underway, Busy, RaisingInv, HandBackInv, Verifying, Closing
  <2>3. Excess(a + i, d + j, p + k, m, n, o) <= expiries
    BY <2>1, <2>2 DEF BudgetInv, OverrunBy
  <2>4. a \in Nat /\ d \in Nat /\ p \in Nat
    BY <2>1, SpentTypes DEF TypeOK
  <2>5. m \in Nat /\ n \in Nat /\ o \in Nat
    BY <2>1, DialTypes DEF TypeOK
  <2>6. i \in Nat /\ j \in Nat /\ k \in Nat /\ expiries \in Nat
    BY <2>1, ChargeTypes, WorldType DEF TypeOK
  <2> HIDE DEF a, d, p, m, n, o, i, j, k
  <2>7. (i = 1 => a < m + expiries) /\ (j = 1 => d < n + expiries) /\ (k = 1 => p < o + expiries)
    BY <2>3, <2>4, <2>5, <2>6, ExcessWithin
  <2> QED
    BY <2>7
       DEF RunsOnBudget, OnBudget, ToAttempts, ToDebugger, ToPromotion, a, d, p, m, n, o, i, j, k
<1> QED
  BY <1>1, BudgetInvariant, PTL

\* The attempts of a node that were not lost before the agent spoke are
\* bounded by its dials, the answers it got and the questions that expired.
THEOREM AttemptsAreBounded == DistinctRoles /\ Spec => []AttemptTotalBounded
<1> SUFFICES ASSUME DistinctRoles PROVE Spec => []AttemptTotalBounded
  OBVIOUS
<1>1. BudgetNodeInv => AttemptTotalBounded
  <2> SUFFICES ASSUME BudgetNodeInv PROVE AttemptTotalBounded
    OBVIOUS
  <2> DEFINE R == {i \in DOMAIN history : ~history[i].pre}
             A == {i \in DOMAIN history :
                     history[i].persona \notin {Debugger, config.promotion_persona} /\ ~history[i].pre}
             D == {i \in DOMAIN history : history[i].persona = Debugger}
             P == {i \in DOMAIN history : history[i].persona = config.promotion_persona}
             m == config.max_attempts + Len(escalations)
             n == config.debugger_cycles
             o == config.promotion_cycles
  <2>1. TypeOK /\ HandBackInv /\ BudgetInv
    BY DEF BudgetNodeInv, NodeInv
  <2>2. /\ IsFiniteSet(A) /\ IsFiniteSet(D) /\ IsFiniteSet(P) /\ R \subseteq (A \cup D) \cup P
    <3>1. DOMAIN history = 1..Len(history) /\ Len(history) \in Nat
      BY <2>1 DEF TypeOK
    <3>2. IsFiniteSet(DOMAIN history)
      BY <3>1, FS_Interval
    <3> QED
      BY <3>2, FS_Subset
  <2>3. /\ attempts_spent(history, config) = Cardinality(A)
        /\ debugger_cycles_spent(history) = Cardinality(D)
        /\ promotion_cycles_spent(history, config) = Cardinality(P)
    BY DEF attempts_spent, debugger_cycles_spent, promotion_cycles_spent
  <2>4. Overrun(history, escalations)
          = Excess(Cardinality(A), Cardinality(D), Cardinality(P), m, n, o)
    BY <2>3 DEF Overrun
  <2>5. m \in Nat /\ n \in Nat /\ o \in Nat
    BY <2>1, DialTypes DEF TypeOK
  <2> HIDE DEF R, A, D, P
  <2>6. /\ Cardinality(R) \in Nat /\ Cardinality(A) \in Nat
        /\ Cardinality(D) \in Nat /\ Cardinality(P) \in Nat
        /\ Cardinality(R) <= Cardinality(A) + Cardinality(D) + Cardinality(P)
    <3>1. /\ IsFiniteSet(A \cup D) /\ IsFiniteSet((A \cup D) \cup P)
      BY <2>2, FS_Union
    <3>2. Cardinality((A \cup D) \cup P)
            = Cardinality(A \cup D) + Cardinality(P) - Cardinality((A \cup D) \cap P)
      BY <2>2, <3>1, FS_Union
    <3>3. Cardinality(A \cup D) = Cardinality(A) + Cardinality(D) - Cardinality(A \cap D)
      BY <2>2, FS_Union
    <3>4. IsFiniteSet(R) /\ Cardinality(R) <= Cardinality((A \cup D) \cup P)
      BY <2>2, <3>1, FS_Subset
    <3>5. IsFiniteSet(A \cap D) /\ IsFiniteSet((A \cup D) \cap P)
      BY <2>2, <3>1, FS_Subset
    <3>6. /\ Cardinality(A) \in Nat /\ Cardinality(D) \in Nat /\ Cardinality(P) \in Nat
          /\ Cardinality(A \cap D) \in Nat /\ Cardinality((A \cup D) \cap P) \in Nat
          /\ Cardinality(R) \in Nat /\ Cardinality(A \cup D) \in Nat
          /\ Cardinality((A \cup D) \cup P) \in Nat
      BY <2>2, <3>1, <3>4, <3>5, FS_CardinalityType
    <3> QED
      BY <3>2, <3>3, <3>4, <3>6
  <2>7. expiries \in Nat
    BY <2>1, WorldType DEF TypeOK
  <2>8. Excess(Cardinality(A), Cardinality(D), Cardinality(P), m, n, o)
          <= expiries + (IF hand_back THEN 1 ELSE 0)
    <3>1. Overrun(history, escalations) <= expiries + HandedBack
      BY <2>1 DEF BudgetInv
    <3>2. HandedBack <= (IF hand_back THEN 1 ELSE 0) /\ HandedBack \in Nat
      BY DEF HandedBack
    <3>3. Overrun(history, escalations) \in Nat
      BY <2>1, OverrunByOne DEF TypeOK
    <3> QED
      BY <2>4, <2>7, <3>1, <3>2, <3>3
  <2>9. /\ Excess(Cardinality(A), Cardinality(D), Cardinality(P), m, n, o) \in Nat
        /\ Cardinality(A) + Cardinality(D) + Cardinality(P)
             <= m + n + o + Excess(Cardinality(A), Cardinality(D), Cardinality(P), m, n, o)
    BY <2>5, <2>6, ExcessType
  <2>10. config.max_attempts \in Nat /\ Len(escalations) \in Nat
    <3>1. config \in VerificationConfig /\ escalations \in Seq(Resolution)
      BY <2>1, NodeAssumption DEF TypeOK
    <3> QED
      BY <3>1 DEF VerificationConfig
  <2>11. Cardinality(R) <= config.max_attempts + config.debugger_cycles + config.promotion_cycles
            + Len(escalations) + expiries + (IF hand_back THEN 1 ELSE 0)
    <3> DEFINE x == Excess(Cardinality(A), Cardinality(D), Cardinality(P), m, n, o)
               t == Cardinality(A) + Cardinality(D) + Cardinality(P)
               w == IF hand_back THEN 1 ELSE 0
               l == Len(escalations)
    <3>1. m = config.max_attempts + l /\ n = config.debugger_cycles /\ o = config.promotion_cycles
      OBVIOUS
    <3>2. t \in Nat /\ w \in Nat
      BY <2>6
    <3>3. x \in Nat /\ x <= expiries + w /\ t <= m + n + o + x /\ Cardinality(R) <= t
      BY <2>6, <2>8, <2>9
    <3>4. l \in Nat
      BY <2>10
    <3> HIDE DEF x, t, w, l, m, n, o
    <3>5. Cardinality(R) <= m + n + o + expiries + w
      BY <2>5, <2>6, <2>7, <3>2, <3>3
    <3>6. m + n + o = config.max_attempts + config.debugger_cycles + config.promotion_cycles + l
      BY SMTT(30), <2>5, <2>10, <3>1, <3>4
    <3> QED
      BY <3>5, <3>6 DEF w, l
  <2> QED
    BY <2>11 DEF AttemptTotalBounded, R
<1> QED
  BY <1>1, BudgetInvariant, PTL

\* The ladder's two budgets together: each attempt's, and all of theirs.
THEOREM AttemptsStayOnBudget == DistinctRoles /\ Spec => []StaysOnBudget
<1>1. RunsOnBudget /\ AttemptTotalBounded => StaysOnBudget
  BY DEF StaysOnBudget
<1> QED
  BY <1>1, AttemptsRunOnBudget, AttemptsAreBounded, PTL

\* A page of the ladder always offers a RETRY that works (_run_node's
\* grant_produces_work, put to the answer an hour later).
THEOREM PagesOfferWork == DistinctRoles /\ Spec => []PageOffersWork
<1>1. BudgetNodeInv => PageOffersWork
  BY DEF BudgetNodeInv
<1> QED
  BY <1>1, BudgetInvariant, PTL

-----------------------------------------------------------------------------
(***************************************************************************)
(* The attempt loop as the epic sees it: every step of the coroutine is a  *)
(* step of AttemptLoop, or one it does not tell apart from standing still. *)
(***************************************************************************)

\* What the loop has in hand: a worktree from its first step to its sweep, a
\* running agent's node is RUNNING, the ladder only pages over a verification
\* that failed, and only a verified node passes or is handed to its landing.
LoopInv ==
    /\ pc \notin {"prep", "raised", "ended"} => worktree
    /\ pc \in {"run", "release", "marker", "ask"} => state = "RUNNING"
    /\ pc = "page" /\ ~launch_page => history # << >> /\ ~Last(history).pass
    /\ pc = "landing" \/ state = "PASSED" => verified

\* A page of the ladder's is opened over the verification it failed.
LEMMA RecordPages ==
    ASSUME TypeOK, RecordVerification, pc' = "page"
    PROVE  history' # << >> /\ ~Last(history').pass
<1> DEFINE a == next_action(Recorded, config, escalations)
<1>1. history' = Recorded /\ a = "ESCALATE"
  BY DEF RecordVerification, Chosen
<1>2. ~\E i \in DOMAIN escalations : ends_the_node(escalations[i])
  BY <1>1 DEF next_action
<1>3. ~(Recorded # << >> /\ Last(Recorded).pass)
  BY <1>1, <1>2 DEF next_action
<1> QED
  BY <1>1, <1>3, RecordedLast

\* An agent that never started opens the launch failure's page only.
LEMMA ReleasePages ==
    ASSUME ReleaseOwner, pc' = "page"
    PROVE  launch_page'
<1>1. LaunchFailed
  BY DEF ReleaseOwner
<1> QED
  BY <1>1 DEF LaunchFailed, OpenPage

LEMMA LoopInvStep == NodeInv /\ LoopInv /\ [Next]_vars => LoopInv'
<1> SUFFICES ASSUME NodeInv, LoopInv, [Next]_vars PROVE LoopInv'
  OBVIOUS
<1>t. TypeOK /\ PassInv /\ RaisingInv
  BY DEF NodeInv
<1>l. ASSUME NEW a, NEW pk, Leave(a, pk) PROVE state' = "PASSED" /\ (state = "PASSED" => verified) => verified'
  BY <1>l DEF Leave
<1>e. ASSUME NEW p, NEW b, Enter(p, b) PROVE state' = "PASSED" /\ (state = "PASSED" => verified) => verified'
  BY <1>e, <1>l DEF Enter
<1>1. CASE Prepare
  BY <1>1, <1>e, EnterMoves DEF Prepare, LoopInv
<1>2. CASE AdmitOwner \/ ResolveStandards \/ IssueKey
  BY <1>2 DEF AdmitOwner, Launch, ResolveStandards, IssueKey, LoopInv, node, ladder
<1>3. CASE AgentEnds \/ CancelAgent \/ ScanMarker \/ AskOperator \/ CloseForPark
  BY <1>3 DEF AgentEnds, CancelAgent, ScanMarker, AskOperator, CloseForPark, LoopInv, node, ladder
<1>4. CASE ReleaseOwner
  BY <1>4, ReleaseMoves, ReleasePages DEF ReleaseOwner, LoopInv, node
<1>5. CASE KillParked \/ Unpark(TRUE) \/ Unpark(FALSE)
  BY <1>5, <1>e, <1>l, EnterMoves, LeaveMoves DEF KillParked, Unpark, LoopInv
<1>6. CASE RunGates \/ RunJudge \/ CloseJudge
  BY <1>6 DEF RunGates, RunJudge, CloseJudge, LoopInv, node, ladder
<1>7. CASE RecordVerification
  BY <1>7, <1>t, RecordMoves, RecordPages DEF RecordVerification, LoopInv, node
<1>8. CASE Press \/ PageExpires
  BY <1>8, ResolveMoves DEF Press, PageExpires, Resolve, LoopInv, node
<1>9. CASE KillPage
  BY <1>9 DEF KillPage, LoopInv, node
<1>10. CASE Teardown
  BY <1>10, <1>e, <1>l, TeardownMoves DEF Teardown, LoopInv
<1>11. CASE Salvage \/ Sweep \/ Reap
  BY <1>11, <1>t DEF Salvage, Sweep, Reap, LoopInv, PassInv, node
<1>12. CASE RaiseOutside \/ RaiseInside \/ RaiseParked
  BY <1>12 DEF RaiseOutside, RaiseInside, RaiseParked, LoopInv, node
<1>13. CASE kill_epic \/ complete_externally \/ Others \/ UNCHANGED vars
  BY <1>13 DEF kill_epic, complete_externally, vars, Others, LeaseTaken, LeaseReturned, flow, node, ladder, pages, LoopInv
<1> QED
  BY <1>1, <1>2, <1>3, <1>4, <1>5, <1>6, <1>7, <1>8, <1>9, <1>10, <1>11, <1>12, <1>13
     DEF Next, Coroutine, Timers, Operator, Faults

\* A pass is for good, and nothing of what follows it is the loop's.
LEMMA VerifiedStays == ASSUME [Next]_vars, verified PROVE verified' = TRUE
<1>l. ASSUME NEW a, NEW pk, Leave(a, pk) PROVE verified' = TRUE
  BY <1>l DEF Leave
<1>e. ASSUME NEW p, NEW b, Enter(p, b) PROVE verified' = TRUE
  BY <1>e, <1>l DEF Enter
<1>1. CASE Coroutine
  BY <1>1, <1>l, <1>e
     DEF Coroutine, Prepare, AdmitOwner, ResolveStandards, IssueKey, AgentEnds, CancelAgent,
     ReleaseOwner, ScanMarker, AskOperator, CloseForPark, KillParked, RunGates, RunJudge,
     CloseJudge, RecordVerification, KillPage, Teardown, Salvage, Sweep, Reap, node
<1>2. CASE Timers \/ Operator \/ Faults \/ Others \/ UNCHANGED vars
  BY <1>2, <1>e
     DEF Timers, Operator, Faults, PageExpires, Press, Resolve, Unpark, kill_epic,
     complete_externally, RaiseOutside, RaiseInside, RaiseParked, vars, Others, LeaseTaken, LeaseReturned, node
<1> QED
  BY <1>1, <1>2 DEF Next

LEMMA PassedIsOver ==
    ASSUME verified, verified'
    PROVE  UNCHANGED Loop!loop
<1>1. LoopAt = "passed" /\ LoopCarry = "none" /\ LoopState = "PASSED"
  BY DEF LoopAt, LoopCarry, LoopState
<1>2. LoopAt' = "passed" /\ LoopCarry' = "none" /\ LoopState' = "PASSED"
  BY DEF LoopAt, LoopCarry, LoopState
<1>3. (key /\ ~verified) = FALSE /\ (key /\ ~verified)' = FALSE
  OBVIOUS
<1>4. (worktree \/ verified) = TRUE /\ (worktree \/ verified)' = TRUE
  OBVIOUS
<1> QED
  BY <1>1, <1>2, <1>3, <1>4, Zenon DEF Loop!loop

\* What the epic sees of a node that has not passed.
LEMMA Seen ==
    ASSUME TypeOK, ~verified
    PROVE  /\ pc = "prep" => LoopAt = "start"
           /\ pc \in {"admit", "standards", "issue"} => LoopAt = "issue"
           /\ pc \in {"run", "marker", "ask"} => LoopAt = "agent"
           /\ pc = "release" => LoopAt = IF ended = "launch_failed" THEN "verify" ELSE "agent"
           /\ pc \in {"gates", "judge", "judgeclose", "record"} => LoopAt = "verify"
           /\ pc \in {"parkclose", "parked", "page", "teardown", "raised"} => LoopAt = pc
           /\ pc \in {"salvage", "sweep"} => LoopAt = "sweep"
           /\ pc = "ended" => LoopAt = "over"
           /\ pc \notin {"teardown", "salvage", "sweep"} => LoopCarry = "none"
           /\ pc \in {"salvage", "sweep"} => LoopCarry = Ending
           /\ pc = "teardown" => LoopCarry = IF raising THEN "raise"
                                             ELSE IF action = "KILLED" THEN Ending
                                             ELSE IF action = "PASSED" THEN "passed" ELSE "retry"
           /\ LoopState = IF state = "VERIFYING" THEN "RUNNING" ELSE state
           /\ (key /\ ~verified) = key /\ (worktree \/ verified) = worktree
<1>1. key \in BOOLEAN /\ worktree \in BOOLEAN
  BY DEF TypeOK
<1>2. (key /\ ~verified) = key /\ (worktree \/ verified) = worktree
  BY <1>1
<1> QED
  BY <1>2 DEF LoopAt, LoopCarry, LoopState

LEMMA SeenNext ==
    ASSUME TypeOK', ~verified'
    PROVE  /\ pc' = "prep" => LoopAt' = "start"
           /\ pc' \in {"admit", "standards", "issue"} => LoopAt' = "issue"
           /\ pc' \in {"run", "marker", "ask"} => LoopAt' = "agent"
           /\ pc' = "release" => LoopAt' = IF ended' = "launch_failed" THEN "verify" ELSE "agent"
           /\ pc' \in {"gates", "judge", "judgeclose", "record"} => LoopAt' = "verify"
           /\ pc' \in {"parkclose", "parked", "page", "teardown", "raised"} => LoopAt' = pc'
           /\ pc' \in {"salvage", "sweep"} => LoopAt' = "sweep"
           /\ pc' = "ended" => LoopAt' = "over"
           /\ pc' \notin {"teardown", "salvage", "sweep"} => LoopCarry' = "none"
           /\ pc' \in {"salvage", "sweep"} => LoopCarry' = Ending'
           /\ pc' = "teardown" => LoopCarry' = IF raising' THEN "raise"
                                              ELSE IF action' = "KILLED" THEN Ending'
                                              ELSE IF action' = "PASSED" THEN "passed" ELSE "retry"
           /\ LoopState' = IF state' = "VERIFYING" THEN "RUNNING" ELSE state'
           /\ (key /\ ~verified)' = key' /\ (worktree \/ verified)' = worktree'
<1>1. key' \in BOOLEAN /\ worktree' \in BOOLEAN
  BY DEF TypeOK
<1>2. (key /\ ~verified)' = key' /\ (worktree \/ verified)' = worktree'
  BY <1>1
<1> QED
  BY <1>2 DEF LoopAt, LoopCarry, LoopState

\* A step that shows: the node has not passed, and has not after it.
Shown == NodeInv /\ NodeInv' /\ LoopInv /\ LoopInv' /\ ~verified /\ ~verified'

\* The code after the attempt loop, of a node that was killed.
LEMMA LeavesKilled ==
    ASSUME Shown, Leave("KILLED", FALSE), ~parked'
    PROVE  Loop!Killed /\ LoopState' = LoopState
<1>1. /\ state' = state /\ LoopState = (IF state = "VERIFYING" THEN "RUNNING" ELSE state)
      /\ LoopState' = IF state' = "VERIFYING" THEN "RUNNING" ELSE state'
  BY Seen, SeenNext DEF Leave, Shown, NodeInv
<1>2. CASE state = "WAITING_OPERATOR"
  BY <1>1, <1>2, SeenNext DEF Leave, Shown, NodeInv, Loop!Killed
<1>3. CASE state # "WAITING_OPERATOR"
  BY <1>1, <1>3, SeenNext DEF Leave, Shown, NodeInv, Ending, Loop!Killed
<1> QED
  BY <1>1, <1>2, <1>3

\* The top of the attempt loop.
LEMMA EntersNext ==
    ASSUME Shown, NEW p, NEW b, Enter(p, b), ~parked'
    PROVE  Loop!NextAttempt /\ LoopState' = LoopState
<1>1. CASE kill_requested
  BY <1>1, LeavesKilled DEF Enter, Loop!NextAttempt
<1>2. CASE ~kill_requested
  <2>1. pc' \in {"admit", "standards", "raised"} /\ state' = state
    BY <1>2 DEF Enter, Launch
  <2>2. LoopAt' \in {"issue", "raised"} /\ LoopCarry' = "none"
    BY <2>1, SeenNext DEF Shown, NodeInv
  <2>3. LoopState' = LoopState
    BY <2>1, Seen, SeenNext DEF Shown, NodeInv
  <2> QED
    BY <2>2, <2>3 DEF Loop!NextAttempt
<1> QED
  BY <1>1, <1>2

\* Only the ending answer parks the node, and it only closes then.
LEMMA ParkedCloses ==
    ASSUME NodeInv, parked
    PROVE  action = "KILLED" /\ pc \in Closing
  BY DEF NodeInv, ParkInv, AnsweredInv

LEMMA PrepareImplements == ASSUME Shown, Prepare PROVE Loop!Prepare
<1>1. ~parked /\ parked' = parked
  BY ParkedCloses DEF Prepare, Closing, Shown
<1>2. Enter(NodePersona, 0) /\ UNCHANGED key /\ worktree' = TRUE
  BY DEF Prepare, bracket
<1>3. Loop!NextAttempt /\ LoopState' = LoopState
  BY <1>1, <1>2, EntersNext
<1>4. LoopAt = "start" /\ (key /\ ~verified)' = (key /\ ~verified) /\ (worktree \/ verified)' = TRUE
  BY <1>2, Seen DEF Prepare, Shown, NodeInv
<1> QED
  BY <1>3, <1>4 DEF Loop!Prepare

LEMMA IssueKeyImplements == ASSUME Shown, IssueKey PROVE Loop!IssueKey
  BY Seen, SeenNext DEF IssueKey, Shown, NodeInv, node, Loop!IssueKey

\* What the loop carries besides its place, when a step leaves the node's record,
\* its worktree and its key alone.
LEMMA KeptByStep ==
    ASSUME Shown, UNCHANGED <<node, key>>
    PROVE  /\ LoopState' = LoopState /\ (key /\ ~verified)' = (key /\ ~verified)
           /\ (worktree \/ verified)' = (worktree \/ verified)
  BY Seen, SeenNext DEF Shown, NodeInv, node

\* Steps inside one wait of the loop.
LEMMA QuietImplements ==
    ASSUME Shown,
           \/ ResolveStandards \/ CancelAgent \/ RunGates \/ RunJudge \/ Salvage
           \/ kill_epic \/ complete_externally \/ Others \/ UNCHANGED vars
           \/ AgentEnds /\ ended' # "launch_failed"
           \/ ScanMarker /\ pc' = "ask"
           \/ AdmitOwner /\ pc' # "raised"
           \/ CloseJudge /\ ~raising
           \/ ReleaseOwner /\ pc' = "marker"
           \/ RecordVerification /\ pc' = "gates"
    PROVE  UNCHANGED Loop!loop
<1>0. TypeOK /\ TypeOK' /\ ~verified /\ ~verified'
  BY DEF Shown, NodeInv
<1>1. LoopAt' = LoopAt /\ LoopCarry' = LoopCarry /\ UNCHANGED <<node, key>>
  <2>1. CASE ResolveStandards \/ (AdmitOwner /\ pc' # "raised")
    BY <1>0, <2>1, Seen, SeenNext DEF ResolveStandards, AdmitOwner, Launch, bracket
  <2>2. CASE CancelAgent \/ (AgentEnds /\ ended' # "launch_failed")
    BY <1>0, <2>2, Seen, SeenNext DEF CancelAgent, AgentEnds, bracket
  <2>3. CASE RunGates \/ RunJudge \/ (CloseJudge /\ ~raising)
    BY <1>0, <2>3, Seen, SeenNext DEF RunGates, RunJudge, CloseJudge, bracket
  <2>4. CASE Salvage
    <3>1. pc' = "sweep" /\ pc = "salvage" /\ UNCHANGED <<node, key, parked>>
      BY <1>0, <2>4 DEF Salvage, Shown, LoopInv, bracket, node
    <3> QED
      BY <1>0, <3>1, Seen, SeenNext DEF Ending
  <2>5. CASE kill_epic \/ complete_externally \/ Others \/ UNCHANGED vars
    <3>1. UNCHANGED <<node, flow, key>>
      BY <2>5 DEF kill_epic, complete_externally, vars, Others, LeaseTaken, LeaseReturned, bracket
    <3> QED
      BY <1>0, <3>1 DEF LoopAt, LoopCarry, Ending, node, flow
  <2>6. CASE ScanMarker /\ pc' = "ask"
    BY <1>0, <2>6, Seen, SeenNext DEF ScanMarker, bracket, node
  <2>7. CASE ReleaseOwner /\ pc' = "marker"
    <3>1. ended # "launch_failed" /\ pc = "release" /\ UNCHANGED <<node, key>>
      BY <2>7 DEF ReleaseOwner, LaunchFailed, OpenPage
    <3> QED
      BY <1>0, <2>7, <3>1, Seen, SeenNext
  <2>8. CASE RecordVerification /\ pc' = "gates"
    BY <1>0, <2>8, Seen, SeenNext DEF RecordVerification, bracket
  <2> QED
    BY <2>1, <2>2, <2>3, <2>4, <2>5, <2>6, <2>7, <2>8
<1> QED
  BY <1>1, KeptByStep DEF Loop!loop

\* An attempt that closes after `wait`, by a verdict, a page, a stop or a raise.
LEMMA ClosesFrom ==
    ASSUME Shown, pc' = "teardown", UNCHANGED <<node, key>>,
           LoopAt \in {"agent", "verify", "page", "parkclose"}, LoopCarry' \in Loop!Decides(LoopAt)
    PROVE  Loop!Decide
  BY KeptByStep, SeenNext DEF Loop!Decide, Shown, NodeInv

LEMMA RaisesInside ==
    ASSUME Shown, RaiseInside \/ (RaiseParked /\ pc = "parkclose") \/ (CloseJudge /\ raising)
           \/ (ReleaseOwner /\ raising)
    PROVE  Loop!Decide
<1>0. TypeOK /\ TypeOK' /\ ~verified /\ ~verified'
  BY DEF Shown, NodeInv
<1>1. /\ pc' = "teardown" /\ raising' = TRUE /\ UNCHANGED <<node, key>>
      /\ pc \in {"release", "marker", "ask", "gates", "judgeclose", "record", "page", "parkclose"}
  BY DEF RaiseInside, RaiseParked, CloseJudge, ReleaseOwner, bracket, Shown, NodeInv, TypeOK
<1>2. LoopCarry' = "raise" /\ LoopAt \in {"agent", "verify", "page", "parkclose"}
  BY <1>0, <1>1, Seen, SeenNext
<1>3. LoopCarry' \in Loop!Decides(LoopAt)
  BY <1>2 DEF Loop!Decides
<1> QED
  BY <1>1, <1>2, <1>3, ClosesFrom

LEMMA RaisesOutside ==
    ASSUME Shown, RaiseOutside \/ (RaiseParked /\ pc = "parked") \/ (AdmitOwner /\ pc' = "raised")
    PROVE  Loop!Raise
<1>0. TypeOK /\ TypeOK' /\ ~verified /\ ~verified'
  BY DEF Shown, NodeInv
<1>1. /\ pc' = "raised" /\ UNCHANGED <<node, key>>
      /\ pc \in {"prep", "admit", "standards", "issue", "parked", "teardown", "salvage", "sweep"}
  BY DEF RaiseOutside, RaiseParked, AdmitOwner, bracket
<1>2. LoopAt \in {"start", "issue", "parked", "teardown", "sweep"}
  BY <1>0, <1>1, Seen
<1>3. LoopAt' = "raised" /\ LoopCarry' = "none"
  BY <1>0, <1>1, SeenNext
<1> QED
  BY <1>1, <1>2, <1>3, KeptByStep DEF Loop!Raise

\* The agent is done, or never started.
LEMMA AgentEndsImplements ==
    ASSUME Shown, (AgentEnds /\ ended' = "launch_failed") \/ (ScanMarker /\ pc' = "gates")
    PROVE  Loop!AgentEnds
<1>0. TypeOK /\ TypeOK' /\ ~verified /\ ~verified'
  BY DEF Shown, NodeInv
<1>1. LoopAt = "agent" /\ LoopAt' = "verify" /\ LoopCarry = "none" /\ LoopCarry' = "none"
  BY <1>0, Seen, SeenNext DEF AgentEnds, ScanMarker
<1>2. /\ (key /\ ~verified)' = (key /\ ~verified) /\ (worktree \/ verified)' = (worktree \/ verified)
      /\ state = "RUNNING" /\ state' \in {"RUNNING", "VERIFYING"}
  BY DEF AgentEnds, ScanMarker, bracket, node, Shown, LoopInv
<1>3. LoopState = "RUNNING" /\ LoopState' = "RUNNING"
  BY <1>0, <1>2, Seen, SeenNext
<1> QED
  BY <1>1, <1>2, <1>3 DEF Loop!AgentEnds

\* A page is raised over a failed verification, or an agent that never started.
LEMMA EscalateImplements ==
    ASSUME Shown, pc' = "page", ReleaseOwner \/ RecordVerification
    PROVE  Loop!Escalate
<1>0. TypeOK /\ TypeOK' /\ ~verified /\ ~verified'
  BY DEF Shown, NodeInv
<1>1. LoopAt = "verify" /\ LoopCarry = "none" /\ UNCHANGED <<node, key>>
  BY <1>0, Seen DEF ReleaseOwner, RecordVerification, bracket
<1>2. LoopAt' = "page" /\ LoopCarry' = "none"
  BY <1>0, SeenNext
<1> QED
  BY <1>1, <1>2, KeptByStep DEF Loop!Escalate

\* What the loop carries from a decision that no exception unwinds.
LEMMA Carried ==
    ASSUME Shown, pc' = "teardown", ~raising'
    PROVE  LoopCarry' = IF action' = "KILLED" THEN Ending'
                        ELSE IF action' = "PASSED" THEN "passed" ELSE "retry"
  BY SeenNext DEF Shown, NodeInv

LEMMA ReleaseDecides ==
    ASSUME Shown, ReleaseOwner, ~raising, pc' = "teardown"
    PROVE  Loop!Decide
<1>0. TypeOK /\ TypeOK' /\ ~verified /\ ~verified'
  BY DEF Shown, NodeInv
<1>1. ~parked' /\ ~raising' /\ UNCHANGED <<node, key>> /\ pc = "release"
  BY ParkedCloses DEF ReleaseOwner, Closing, Shown
<1>2. \/ action' = "KILLED"
      \/ action' = "RETRY" /\ ended = "launch_failed"
  BY DEF ReleaseOwner, LaunchFailed, OpenPage
<1>3. LoopAt = IF ended = "launch_failed" THEN "verify" ELSE "agent"
  BY <1>0, <1>1, Seen
<1>4. LoopCarry' = IF action' = "KILLED" THEN "killed" ELSE "retry"
  BY <1>1, <1>2, Carried DEF Ending
<1>5. LoopAt \in {"agent", "verify"} /\ LoopCarry' \in Loop!Decides(LoopAt)
  BY <1>2, <1>3, <1>4 DEF Loop!Decides
<1> QED
  BY <1>1, <1>5, ClosesFrom

LEMMA RecordDecides ==
    ASSUME Shown, RecordVerification, pc' = "teardown"
    PROVE  Loop!Decide
<1>0. TypeOK /\ TypeOK' /\ ~verified /\ ~verified' /\ RaisingInv
  BY DEF Shown, NodeInv
<1>1. ~parked' /\ ~raising' /\ UNCHANGED <<node, key>> /\ pc = "record"
  BY <1>0, ParkedCloses DEF RecordVerification, Closing, Shown, RaisingInv, bracket
<1>2. LoopAt = "verify"
  BY <1>0, <1>1, Seen
<1>3. LoopCarry' \in {"killed", "passed", "retry"}
  BY <1>1, Carried DEF Ending
<1>4. LoopCarry' \in Loop!Decides(LoopAt)
  BY <1>2, <1>3 DEF Loop!Decides
<1> QED
  BY <1>1, <1>2, <1>4, ClosesFrom

\* A page ends the node, parks it or buys an attempt: it never passes it.
LEMMA PageDecides ==
    ASSUME Shown, KillPage \/ \E r \in Resolution : Resolve(r)
    PROVE  Loop!Decide
<1>0. TypeOK /\ TypeOK' /\ ~verified /\ ~verified' /\ RaisingInv
  BY DEF Shown, NodeInv
<1>1. /\ pc = "page" /\ pc' = "teardown" /\ UNCHANGED <<node, key>> /\ raising' = raising
  BY ResolveMoves DEF KillPage, Resolve, bracket
<1>2. action' # "PASSED"
  <2>1. CASE KillPage
    BY <2>1 DEF KillPage
  <2>2. CASE launch_page /\ ~KillPage
    BY <2>2 DEF Resolve
  <2>3. CASE ~launch_page /\ ~KillPage
    <3>1. PICK r \in Resolution : Resolve(r)
      BY <2>3
    <3>2. ~(history # << >> /\ Last(history).pass)
      BY <1>1, <2>3 DEF Shown, LoopInv
    <3> QED
      BY <1>0, <3>1, <3>2, ResolveAnswers
  <2> QED
    BY <2>1, <2>2, <2>3
<1>3. LoopAt = "page" /\ ~raising'
  BY <1>0, <1>1, Seen DEF RaisingInv
<1>4. LoopCarry' \in {"killed", "parked", "retry"}
  BY <1>1, <1>2, <1>3, Carried DEF Ending
<1>5. LoopCarry' \in Loop!Decides(LoopAt)
  BY <1>3, <1>4 DEF Loop!Decides
<1> QED
  BY <1>1, <1>3, <1>5, ClosesFrom

LEMMA AskOperatorImplements == ASSUME Shown, AskOperator PROVE Loop!AgentAsks
  BY Seen, SeenNext DEF AskOperator, bracket, Shown, NodeInv, Loop!AgentAsks

LEMMA CloseForParkImplements == ASSUME Shown, CloseForPark PROVE Loop!CloseForPark
  BY Seen, SeenNext DEF CloseForPark, node, Shown, NodeInv, Loop!CloseForPark

LEMMA UnparkImplements ==
    ASSUME Shown, KillParked \/ Unpark(TRUE) \/ Unpark(FALSE)
    PROVE  Loop!Unpark
<1>0. TypeOK /\ TypeOK' /\ ~verified /\ ~verified'
  BY DEF Shown, NodeInv
<1>1. pc = "parked" /\ ~parked' /\ UNCHANGED <<key, worktree>>
  <2>1. pc = "parked" /\ parked' = parked /\ UNCHANGED <<key, worktree>>
    BY DEF KillParked, Unpark, bracket
  <2>2. ~parked
    BY <2>1, ParkedCloses DEF Closing, Shown
  <2> QED
    BY <2>1, <2>2
<1>2. Loop!NextAttempt /\ LoopState' = LoopState
  <2>1. CASE KillParked
    BY <1>1, <2>1, LeavesKilled DEF KillParked, Loop!NextAttempt
  <2>2. CASE Unpark(TRUE) \/ Unpark(FALSE)
    BY <1>1, <2>2, EntersNext DEF Unpark
  <2> QED
    BY <2>1, <2>2
<1>3. LoopAt = "parked" /\ (key /\ ~verified)' = (key /\ ~verified)
      /\ (worktree \/ verified)' = (worktree \/ verified)
  BY <1>0, <1>1, Seen, SeenNext
<1> QED
  BY <1>2, <1>3 DEF Loop!Unpark

LEMMA SweepImplements == ASSUME Shown, Sweep PROVE Loop!Sweep
<1>0. TypeOK /\ TypeOK' /\ ~verified /\ ~verified'
  BY DEF Shown, NodeInv
<1>1. /\ LoopAt = "sweep" /\ LoopCarry = (IF parked THEN "parked" ELSE "killed")
      /\ LoopAt' = "over" /\ LoopCarry' = "none"
  BY <1>0, Seen, SeenNext DEF Sweep, Ending
<1>2. /\ LoopState' = (IF parked THEN "WAITING_OPERATOR" ELSE "KILLED")
      /\ (worktree \/ verified)' = FALSE /\ (key /\ ~verified)' = (key /\ ~verified)
  BY <1>0, Seen, SeenNext DEF Sweep, bracket
<1> QED
  BY <1>1, <1>2 DEF Loop!Sweep

LEMMA ReapImplements == ASSUME Shown, Reap PROVE Loop!Reap
  BY Seen, SeenNext DEF Reap, bracket, Shown, NodeInv, Loop!Reap

LEMMA TeardownImplements ==
    ASSUME NodeInv, NodeInv', LoopInv, LoopInv', ~verified, Teardown
    PROVE  Loop!Teardown
<1>0. TypeOK /\ TypeOK' /\ ~verified /\ worktree /\ worktree' /\ pc = "teardown"
  BY DEF NodeInv, LoopInv, Teardown
<1>1. /\ LoopAt = "teardown" /\ (worktree \/ verified)' = (worktree \/ verified)
      /\ (key /\ ~verified)' = FALSE
  BY <1>0, Seen DEF Teardown
<1>2. CASE raising
  <2>1. Shown /\ pc' = "raised" /\ state' = state
    BY <1>0, <1>2 DEF Teardown, Shown
  <2>2. LoopCarry = "raise" /\ LoopAt' = "raised" /\ LoopCarry' = "none" /\ LoopState' = LoopState
    BY <1>0, <1>2, <2>1, Seen, SeenNext DEF Shown
  <2> QED
    BY <1>1, <2>2 DEF Loop!Teardown
<1>3. CASE ~raising /\ action = "PASSED"
  <2>1. verified' = TRUE
    BY <1>3 DEF Teardown, Leave, TERMINAL_ACTIONS
  <2>2. LoopCarry = "passed" /\ LoopAt' = "passed" /\ LoopCarry' = "none" /\ LoopState' = "PASSED"
    BY <1>0, <1>3, <2>1, Seen DEF LoopAt, LoopCarry, LoopState
  <2> QED
    BY <1>1, <2>2 DEF Loop!Teardown
<1>4. CASE ~raising /\ action = "KILLED" /\ ~parked
  <2>1. Shown /\ Leave("KILLED", FALSE) /\ ~parked'
    BY <1>0, <1>4 DEF Teardown, Leave, TERMINAL_ACTIONS, Shown, NodeInv
  <2>2. LoopCarry = "killed" /\ Loop!Killed /\ LoopState' = LoopState
    BY <1>0, <1>4, <2>1, Seen, LeavesKilled DEF Ending
  <2> QED
    BY <1>1, <2>2 DEF Loop!Teardown
<1>5. CASE ~raising /\ action = "KILLED" /\ parked
  <2>1. Shown /\ pc' = "salvage" /\ parked' /\ state' = state
    BY <1>0, <1>5 DEF Teardown, Leave, TERMINAL_ACTIONS, Shown
  <2>2. /\ LoopCarry = "parked" /\ LoopAt' = "sweep" /\ LoopCarry' = "parked"
        /\ LoopState' = LoopState
    BY <1>0, <1>5, <2>1, Seen, SeenNext DEF Ending, Shown
  <2> QED
    BY <1>1, <2>2 DEF Loop!Teardown
<1>6. CASE ~raising /\ action \notin {"PASSED", "KILLED"}
  <2>1. Enter(persona, external) /\ parked' = parked /\ ~parked
    BY <1>0, <1>6, ParkedCloses DEF Teardown, TERMINAL_ACTIONS
  <2>2. verified' = verified
    BY <2>1 DEF Enter, Leave
  <2>3. Loop!NextAttempt /\ LoopState' = LoopState
    BY <1>0, <2>1, <2>2, EntersNext DEF Shown
  <2>4. LoopCarry = "retry"
    BY <1>0, <1>6, Seen
  <2> QED
    BY <1>1, <2>3, <2>4 DEF Loop!Teardown
<1> QED
  BY <1>2, <1>3, <1>4, <1>5, <1>6

LEMMA LoopStep ==
    ASSUME NodeInv, NodeInv', LoopInv, LoopInv', [Next]_vars
    PROVE  [Loop!LoopNext]_(Loop!loop)
<1>1. CASE verified
  BY <1>1, VerifiedStays, PassedIsOver
<1>2. CASE ~verified /\ Teardown
  BY <1>2, TeardownImplements DEF Loop!LoopNext
<1>3. CASE ~verified /\ ~Teardown
  <2>1. verified' = verified
    <3>1. CASE Coroutine
      BY <1>3, <3>1
         DEF Coroutine, Prepare, AdmitOwner, ResolveStandards, IssueKey, AgentEnds, CancelAgent,
         ReleaseOwner, ScanMarker, AskOperator, CloseForPark, KillParked, Enter, Leave, RunGates,
         RunJudge, CloseJudge, RecordVerification, KillPage, Salvage, Sweep, Reap, node
    <3>2. CASE Timers \/ Operator \/ Faults \/ Others \/ UNCHANGED vars
      BY <3>2
         DEF Timers, Operator, Faults, PageExpires, Press, Resolve, Unpark, Enter, Leave, kill_epic,
         complete_externally, RaiseOutside, RaiseInside, RaiseParked, vars, Others, LeaseTaken, LeaseReturned, node
    <3> QED
      BY <3>1, <3>2 DEF Next
  <2>2. Shown
    BY <1>3, <2>1 DEF Shown
  <2>3. CASE \/ ResolveStandards \/ CancelAgent \/ RunGates \/ RunJudge \/ Salvage
             \/ kill_epic \/ complete_externally \/ Others \/ UNCHANGED vars
    BY <2>2, <2>3, QuietImplements
  <2>4. CASE AgentEnds \/ ScanMarker
    <3>1. ScanMarker => pc' \in {"ask", "gates"}
      BY DEF ScanMarker
    <3> QED
      BY <2>2, <2>4, <3>1, QuietImplements, AgentEndsImplements DEF Loop!LoopNext
  <2>5. CASE AdmitOwner \/ RaiseOutside \/ RaiseInside \/ RaiseParked \/ CloseJudge
    <3>1. RaiseParked => pc \in {"parkclose", "parked"}
      BY DEF RaiseParked
    <3> QED
      BY <2>2, <2>5, <3>1, QuietImplements, RaisesInside, RaisesOutside DEF Loop!LoopNext
  <2>6. CASE ReleaseOwner
    <3>1. pc' \in {"teardown", "page", "marker"}
      BY <2>6, ReleaseMoves
    <3> QED
      BY <2>2, <2>6, <3>1, QuietImplements, RaisesInside, ReleaseDecides, EscalateImplements
         DEF Loop!LoopNext
  <2>7. CASE RecordVerification
    <3>1. pc' \in {"teardown", "gates", "page"}
      BY <2>7, RecordMoves
    <3> QED
      BY <2>2, <2>7, <3>1, QuietImplements, RecordDecides, EscalateImplements DEF Loop!LoopNext
  <2>8. CASE KillPage \/ Press \/ PageExpires
    <3>1. KillPage \/ \E r \in Resolution : Resolve(r)
      BY <2>8 DEF Press, PageExpires, Silence, Resolution, Choice
    <3> QED
      BY <2>2, <3>1, PageDecides DEF Loop!LoopNext
  <2>9. CASE Prepare \/ IssueKey \/ AskOperator \/ CloseForPark \/ Sweep \/ Reap
    BY <2>2, <2>9, PrepareImplements, IssueKeyImplements, AskOperatorImplements,
       CloseForParkImplements, SweepImplements, ReapImplements DEF Loop!LoopNext
  <2>10. CASE KillParked \/ Unpark(TRUE) \/ Unpark(FALSE)
    BY <2>2, <2>10, UnparkImplements DEF Loop!LoopNext
  <2> QED
    BY <1>3, <2>3, <2>4, <2>5, <2>6, <2>7, <2>8, <2>9, <2>10
       DEF Next, Coroutine, Timers, Operator, Faults
<1> QED
  BY <1>1, <1>2, <1>3

\* The coroutine of a node, with its ladder, brackets, pages, parks and raises, is
\* the attempt loop (EpicWorkflow._run_node as the epic's scheduler sees it).
THEOREM NodeImplementsAttemptLoop == Spec => AttemptLoopHolds
<1>1. Init => NodeInv /\ LoopInv
  BY NodeInvInit DEF Init, LoopInv
<1>2. Init => Loop!LoopInit
  <2> SUFFICES ASSUME Init PROVE Loop!LoopInit
    OBVIOUS
  <2>1. TypeOK /\ ~verified /\ pc = "prep" /\ state = "PENDING" /\ ~key /\ ~worktree
    BY TypeInit DEF Init
  <2> QED
    BY <2>1, Seen DEF Loop!LoopInit
<1>3. NodeInv /\ LoopInv /\ [Next]_vars => NodeInv' /\ LoopInv' /\ [Loop!LoopNext]_(Loop!loop)
  BY NodeInvStep, LoopInvStep, LoopStep
<1> QED
  BY <1>1, <1>2, <1>3, PTL DEF Spec, AttemptLoopHolds, Loop!LoopSpec
=============================================================================
