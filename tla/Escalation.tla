------------------------------ MODULE Escalation ----------------------------
(***************************************************************************)
(* One page to the operator: EscalationWorkflow                            *)
(* (factory/escalation/workflow.py), the activities that write its row     *)
(* (factory/activities/notify_activities.py), the bridge that carries a    *)
(* button press (factory/notify/service.py) and `ergane build resolve`     *)
(* (factory/cli/nouns/build.py).                                           *)
(*                                                                         *)
(* Three processes of three hosts' worth of failures meet at one row: the  *)
(* workflow with its durable window, an activity that runs at least once,  *)
(* and any number of presses, each of which reads the row, signals the     *)
(* workflow, and only then writes.  `wf` is the workflow's await:          *)
(*   send, wait, settle, expire, then one of closed, failed, cancelled.    *)
(* A press p is `at` idle, signal, record or over.                         *)
(***************************************************************************)
EXTENDS VerificationStore, FiniteSets

CONSTANTS
    Presses,         \* the presses the world makes
    EscalationChoice,         \* EscalationChoice
    Offers,          \* the offers a caller may make, subsets of EscalationChoice
    Defaults,        \* the default_choice a caller may pass; None is "no default"
    Fallback,        \* KILL
    MaxAttempts,     \* _RETRIES.maximum_attempts
    MaxCrashes       \* bound: bridge restarts

ASSUME EscalationAssumption ==
    /\ IsFiniteSet(Presses) /\ Offers \subseteq SUBSET EscalationChoice
    /\ None \notin EscalationChoice /\ EXPIRED \notin EscalationChoice /\ None # EXPIRED
    /\ Fallback \in EscalationChoice
    /\ Defaults \subseteq EscalationChoice \cup {None}
    /\ MaxAttempts \in Nat \ {0} /\ MaxCrashes \in Nat

VARIABLES
    request,    \* choices and default_choice of the EscalationRequest
    row,        \* the store's row
    wf, tries,  \* the workflow's await, and what it has spent of its activity's retries
    replies,    \* self._replies, by choice
    delivered,  \* sent.delivered
    buttons,    \* the message is on the operator's screen
    result,     \* what the last activity handed back, not yet read
    outcome,    \* the EscalationOutcome
    press,      \* the presses in flight, each with what its operator was told
    unreadable, \* history: an activity could not read the store
    crashes     \* bridge restarts so far

wfvars == <<request, wf, tries, delivered, result, outcome>>
pressvars == <<press, crashes>>
evars == <<wfvars, row, replies, buttons, pressvars, unreadable>>

Decision == EscalationChoice \cup {EXPIRED, None}
Told == {"nothing", "UNAUTHORIZED", "UNKNOWN", "INVALID_CHOICE", "EXPIRED", "ALREADY_RESOLVED",
         "SIGNAL_FAILED", "BRIDGE_ERROR", "RESOLVED", "SENT"}
Press == [choice : EscalationChoice, channel : {"bot", "cli"}, authorized : BOOLEAN,
          at : {"idle", "signal", "record", "over"}, told : Told]
Outcome == [resolution : EscalationChoice \cup {EXPIRED}, answered : BOOLEAN, delivered : BOOLEAN,
            late : Decision]
Closed == {"closed", "failed", "cancelled"}

\* NULL is not mistaken for an outcome.
ASSUME NoOutcomeAssumption == None \notin Outcome

EscalationTypeOK ==
    /\ request \in [choices : Offers, default_choice : Defaults]
    /\ row \in [recorded : BOOLEAN, resolution : Decision]
    /\ wf \in {"send", "wait", "settle", "expire"} \cup Closed
    /\ tries \in 0..MaxAttempts /\ replies \in Seq(EscalationChoice)
    /\ delivered \in BOOLEAN /\ buttons \in BOOLEAN /\ unreadable \in BOOLEAN
    /\ result \in [ready : BOOLEAN, final_state : Decision]
    /\ outcome \in {None} \cup Outcome
    /\ press \in [Presses -> Press] /\ crashes \in 0..MaxCrashes

NotReady == [ready |-> FALSE, final_state |-> None]

EscalationInit ==
    /\ request \in [choices : Offers, default_choice : Defaults]
    /\ row = [recorded |-> FALSE, resolution |-> None]
    /\ wf = "send" /\ tries = 0 /\ replies = <<>>
    /\ delivered = FALSE /\ buttons = FALSE /\ result = NotReady /\ outcome = None
    /\ press \in [Presses -> [choice : EscalationChoice, channel : {"bot", "cli"}, authorized : BOOLEAN,
                              at : {"idle"}, told : {"nothing"}]]
    /\ unreadable = FALSE /\ crashes = 0

-----------------------------------------------------------------------------
(* The workflow. *)

\* The first reply that was actually an answer, or None.
Answer ==
    LET answers == {i \in DOMAIN replies : replies[i] \in request.choices}
    IN  IF answers = {} THEN None ELSE replies[CHOOSE i \in answers : \A j \in answers : i <= j]

\* Variant: one run more than the policy allows.
Retry_once_more ==
    /\ tries' = tries + 1
    /\ wf' = IF tries = MaxAttempts THEN "failed" ELSE wf
    /\ UNCHANGED <<request, delivered, result, outcome>>

\* An activity attempt is lost or refused: Temporal runs it again, and the
\* workflow fails with the last one.
Retry ==
    /\ tries' = tries + 1
    /\ wf' = IF tries' = MaxAttempts THEN "failed" ELSE wf
    /\ UNCHANGED <<request, delivered, result, outcome>>

\* send_escalation: the row first, then the message.  A run after a lost one
\* finds the row and sends the message again.
Send ==
    /\ wf = "send"
    /\ \E sent \in BOOLEAN :
          /\ row' = [row EXCEPT !.recorded = TRUE]
          /\ buttons' = (buttons \/ sent)
          /\ \/ /\ delivered' = sent /\ tries' = 0
                /\ wf' = IF sent THEN "wait" ELSE "expire"
                /\ UNCHANGED <<request, result, outcome>>
             \/ Retry
    /\ UNCHANGED <<replies, pressvars, unreadable>>

\* The store refuses the row before any message exists.
SendRefused ==
    /\ wf = "send" /\ Retry
    /\ UNCHANGED <<row, replies, buttons, pressvars, unreadable>>

\* An answer is in the buffer.
Answered ==
    /\ wf = "wait" /\ Answer # None
    /\ wf' = "settle"
    /\ UNCHANGED <<request, tries, delivered, result, outcome, row, replies, buttons, pressvars,
                   unreadable>>

\* The window runs out with no answer in the buffer.
WindowElapses ==
    /\ wf = "wait" /\ Answer = None
    /\ wf' = "expire"
    /\ UNCHANGED <<request, tries, delivered, result, outcome, row, replies, buttons, pressvars,
                   unreadable>>

\* settle_escalation and expire_escalation: the guarded UPDATE, then the row as
\* it stands.  The attempt's answer may be lost after it has written.
Transition(await, r) ==
    /\ wf = await /\ ~result.ready
    /\ row' = transition(row, r)
    /\ \/ /\ result' = [ready |-> TRUE, final_state |-> row'.resolution]
          /\ UNCHANGED <<request, wf, tries, delivered, outcome>>
       \/ Retry
    /\ UNCHANGED <<replies, buttons, pressvars, unreadable>>

settle_escalation == Transition("settle", Answer)
expire_escalation == Transition("expire", EXPIRED)

\* Either activity, when it cannot read the store: it reports no resolution.
StoreUnreadable ==
    /\ wf \in {"settle", "expire"} /\ ~result.ready
    /\ result' = [ready |-> TRUE, final_state |-> None]
    /\ unreadable' = TRUE
    /\ UNCHANGED <<request, wf, tries, delivered, outcome, row, replies, buttons, pressvars>>

Close(settled) ==
    /\ outcome' = settled
    /\ wf' = "closed" /\ result' = NotReady
    /\ UNCHANGED <<request, tries, delivered, row, replies, buttons, pressvars, unreadable>>

Outcome_of(resolution, late) ==
    [resolution |-> resolution, answered |-> resolution # EXPIRED, delivered |-> delivered,
     late |-> late]

\* The row's decision stands; an answer that lost to it is carried as late.
settle_answer ==
    /\ wf = "settle" /\ result.ready
    /\ LET recorded == IF result.final_state = None THEN Answer ELSE result.final_state
       IN  Close(Outcome_of(recorded, IF recorded = Answer THEN None ELSE Answer))

\* Variant: the timer's word is final, whatever the row says.
settle_unanswered_by_timer ==
    /\ wf = "expire" /\ result.ready
    /\ Close([resolution |-> IF request.default_choice = None THEN Fallback
                             ELSE request.default_choice,
              answered |-> FALSE, delivered |-> delivered, late |-> None])

\* Silence applies the caller's default, KILL when there is not even a row; a
\* press that got to the row first decides instead.
settle_unanswered ==
    /\ wf = "expire" /\ result.ready
    /\ LET recorded == result.final_state
           default == request.default_choice
           silent(resolution) == [resolution |-> resolution, answered |-> FALSE,
                                  delivered |-> delivered, late |-> None]
       IN  CASE recorded = None -> Close(silent(IF default = None THEN Fallback ELSE default))
             [] recorded = EXPIRED -> Close(silent(IF default = None THEN EXPIRED ELSE default))
             [] OTHER -> Close(Outcome_of(recorded, EXPIRED))

\* The parent is killed and cancels its page, whatever it waits for.
Cancel ==
    /\ wf \notin Closed
    /\ wf' = "cancelled" /\ result' = NotReady
    /\ UNCHANGED <<request, tries, delivered, outcome, row, replies, buttons, pressvars,
                   unreadable>>

-----------------------------------------------------------------------------
(* A press.  Only the bot's writes the row. *)

Tell(p, told) == press' = [press EXCEPT ![p].at = "over", ![p].told = told]
Settled(resolution) ==
    CASE resolution = None -> "UNKNOWN" [] resolution = EXPIRED -> "EXPIRED"
      [] OTHER -> "ALREADY_RESOLVED"

\* What the row says before anything is signalled; a button outlives its page.
ReadRow(p) ==
    /\ press[p].at = "idle" /\ buttons
    /\ IF press[p].channel = "bot" /\ ~press[p].authorized THEN Tell(p, "UNAUTHORIZED")
       ELSE IF ~row.recorded THEN Tell(p, "UNKNOWN")
       ELSE IF press[p].choice \notin request.choices THEN Tell(p, "INVALID_CHOICE")
       ELSE IF row.resolution # None THEN Tell(p, Settled(row.resolution))
       ELSE press' = [press EXCEPT ![p].at = "signal"]
    /\ UNCHANGED <<wfvars, row, replies, buttons, unreadable, crashes>>

\* A closed workflow takes no signal, and an open one may be out of reach.
SignalWorkflow(p) ==
    /\ press[p].at = "signal"
    /\ \/ Tell(p, "SIGNAL_FAILED") /\ UNCHANGED replies
       \/ /\ wf \notin Closed
          /\ replies' = Append(replies, press[p].choice)
          /\ IF press[p].channel = "cli" THEN Tell(p, "SENT")
             ELSE press' = [press EXCEPT ![p].at = "record"]
    /\ UNCHANGED <<wfvars, row, buttons, unreadable, crashes>>

\* Variant: told before the row is asked.
RecordPress_trusting(p) ==
    /\ press[p].at = "record"
    /\ row' = transition(row, press[p].choice)
    /\ Tell(p, "RESOLVED")
    /\ UNCHANGED <<wfvars, replies, buttons, unreadable, crashes>>

\* The bridge's own guarded UPDATE: the workflow may have settled the row since.
RecordPress(p) ==
    /\ press[p].at = "record"
    /\ row' = transition(row, press[p].choice)
    /\ Tell(p, IF pending(row) THEN "RESOLVED" ELSE Settled(row.resolution))
    /\ UNCHANGED <<wfvars, replies, buttons, unreadable, crashes>>

\* Anything raised on the way becomes an answer; the row is left as it was.
BridgeError(p) ==
    /\ press[p].channel = "bot" /\ press[p].at \in {"signal", "record"}
    /\ Tell(p, "BRIDGE_ERROR")
    /\ UNCHANGED <<wfvars, row, replies, buttons, unreadable, crashes>>

\* The bridge restarts: a press it had not finished is delivered again.
BridgeRestarts ==
    /\ crashes < MaxCrashes
    /\ \E p \in Presses : press[p].channel = "bot" /\ press[p].at \in {"signal", "record"}
    /\ crashes' = crashes + 1
    /\ press' = [p \in Presses |->
                    IF press[p].channel = "bot" /\ press[p].at \in {"signal", "record"}
                    THEN [press[p] EXCEPT !.at = "idle"] ELSE press[p]]
    /\ UNCHANGED <<wfvars, row, replies, buttons, unreadable>>

-----------------------------------------------------------------------------
Workflow == Send \/ Answered \/ WindowElapses \/ settle_escalation \/ expire_escalation
            \/ settle_answer \/ settle_unanswered
Faults == SendRefused \/ StoreUnreadable \/ Cancel \/ BridgeRestarts
Press_steps(p) == ReadRow(p) \/ SignalWorkflow(p) \/ RecordPress(p) \/ BridgeError(p)

EscalationNext == Workflow \/ Faults \/ \E p \in Presses : Press_steps(p)

EscalationSpec == EscalationInit /\ [][EscalationNext]_evars

\* Temporal runs what a workflow has scheduled and fires its timers; an
\* operator owes nobody a press.
EscalationFair == WF_evars(Workflow)

-----------------------------------------------------------------------------
(* Properties *)

\* The page seen from outside: the row is the decision, the outcome the report.
Page == INSTANCE OneAnswer WITH
    terms <- [offered |-> request.choices,
              silence |-> IF request.default_choice = None THEN EXPIRED ELSE request.default_choice,
              failsafe |-> IF request.default_choice = None THEN Fallback ELSE request.default_choice],
    decided <- row.resolution,
    reported <- IF outcome = None THEN None ELSE outcome.resolution,
    unread <- unreadable

\* However the window, two channels, a repeated activity and a redelivered
\* press interleave, a page is decided once and reports that decision.
OneAnswerHolds == Page!Spec

\* An operator who is told "recorded" is obeyed: whatever the workflow reports,
\* it reports that choice, unless it could not read the store at all.
ToldIsObeyed ==
    \A p \in Presses :
        press[p].told = "RESOLVED" /\ outcome # None /\ ~unreadable
            => outcome.resolution = press[p].choice /\ outcome.answered

\* A page ends, with nobody pressing anything.
PageEnds == <>(wf \in Closed)
=============================================================================
