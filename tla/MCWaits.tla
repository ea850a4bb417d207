------------------------------- MODULE MCWaits ------------------------------
(***************************************************************************)
(* What somebody waits for comes, for TLC: the end of a page, of a         *)
(* question and of an attempt; and the page implements OneAnswer.  A       *)
(* behaviour is one component's: `part` names it, the others rest.         *)
(***************************************************************************)
EXTENDS Escalation, Question, AgentSession

VARIABLE part

waits == <<part, evars, qvars, svars>>

MCOffers == {{"RETRY", "KILL"}}
MCDefaults == {None, "PAUSE_EPIC"}

PageRests ==
    /\ request = [choices |-> {"RETRY", "KILL"}, default_choice |-> None]
    /\ \A p \in Presses : press[p].choice = Fallback /\ press[p].channel = "bot" /\ press[p].authorized
QuestionRests == \A m \in Replies : reply[m].row = "own" /\ reply[m].by = "bridge"
SessionRests == setup = [quarantines |-> TRUE, dies_with_parent |-> TRUE]

\* Two presses are told apart by what they are, so one order of them is enough.
Rank(p) ==
    (IF p.choice = "RETRY" THEN 4 ELSE IF p.choice = Fallback THEN 8 ELSE 0)
    + (IF p.channel = "bot" THEN 2 ELSE 0) + (IF p.authorized THEN 1 ELSE 0)

WaitsInit ==
    /\ EscalationInit /\ QuestionInit /\ SessionInit
    /\ \A p, q \in Presses : p < q => Rank(press[p]) <= Rank(press[q])
    /\ \/ part = "page" /\ QuestionRests /\ SessionRests
       \/ part = "question" /\ PageRests /\ SessionRests
       \/ part = "session" /\ PageRests /\ QuestionRests

InPage == part = "page" /\ UNCHANGED <<part, qvars, svars>>
InQuestion == part = "question" /\ UNCHANGED <<part, evars, svars>>
InSession == part = "session" /\ UNCHANGED <<part, evars, qvars>>

WaitsNext ==
    \/ InPage /\ EscalationNext
    \/ InQuestion /\ QuestionNext
    \/ InSession /\ SessionNext

\* Temporal runs what a workflow has scheduled, fires its timers and retries its
\* activities; nobody owes a press or a reply.
WaitsSpec ==
    /\ WaitsInit /\ [][WaitsNext]_waits
    /\ WF_waits(InPage /\ Workflow)
    /\ WF_waits(InQuestion /\ QuestionSteps)
    /\ \A e \in Exec : WF_waits(InSession /\ Attempt(e))

-----------------------------------------------------------------------------
(* Properties *)

\* Whoever waits waits no longer than the window: a page and a question end with
\* nobody pressing or typing anything (escalation/workflow.py, question.py), and
\* an attempt's execution that was started ends or is lost with its worker
\* (adapter.py).
WaitsEnd ==
    /\ part = "page" => PageEnds
    /\ part = "question" => QuestionEnds
    /\ part = "session" => AttemptComesToAnEnd
=============================================================================
