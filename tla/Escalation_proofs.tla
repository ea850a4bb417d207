-------------------------- MODULE Escalation_proofs -------------------------
(***************************************************************************)
(* A page, for any number of presses, choices, offers, retries and         *)
(* restarts: EscalationSpec implements OneAnswer, and an operator who is   *)
(* told "recorded" is obeyed.                                              *)
(*                                                                         *)
(* Neither follows from the row's guarded UPDATE alone.  What the workflow *)
(* reports is what an activity handed back earlier, so PageInv says when   *)
(* that is still the row: the row was there before anybody waited, only    *)
(* the expiry writes EXPIRED, and only an unreadable store hands back      *)
(* nothing.  What a press writes was checked when it read the row, so the  *)
(* presses in flight carry offered choices.                                *)
(*                                                                         *)
(* The second part is the question's, whose rows are settled by the same   *)
(* guarded UPDATE: the answer the next attempt carries is on record, and a *)
(* settled row stays as it is.                                             *)
(***************************************************************************)
EXTENDS Escalation, Question, TLAPS

\* What the workflow knows at its await.
AwaitInv ==
    /\ wf \notin Closed => tries < MaxAttempts
    /\ wf \in {"wait", "settle", "expire"} => row.recorded
    /\ wf \in {"send", "wait", "settle"} => row.resolution # EXPIRED
    /\ wf = "settle" => replies # <<>>

\* An activity's answer not yet read is the row, unless the store was out of reach.
ResultInv ==
    result.ready =>
        /\ wf \in {"settle", "expire"}
        /\ IF result.final_state = None THEN unreadable ELSE result.final_state = row.resolution

\* A report was made once, from the row.
OutcomeInv ==
    /\ wf # "closed" => outcome = None
    /\ outcome # None /\ ~unreadable =>
           /\ row.resolution # None
           /\ row.resolution # EXPIRED => outcome.resolution = row.resolution /\ outcome.answered

\* Presses in flight and delivered were offered; one told "recorded" decided.
PressInv ==
    /\ replies \in Seq(request.choices)
    /\ \A p \in Presses :
          /\ press[p].at \in {"signal", "record"} => press[p].choice \in request.choices
          /\ press[p].told = "RESOLVED" => row.resolution = press[p].choice

PageInv == EscalationTypeOK /\ AwaitInv /\ ResultInv /\ OutcomeInv /\ PressInv

-----------------------------------------------------------------------------
(* The pieces a step is made of *)

\* The guarded UPDATE decides a pending row and leaves any other alone.
LEMMA TransitionKeeps ==
    ASSUME NEW store \in [recorded : BOOLEAN, resolution : Decision],
           NEW r \in EscalationChoice \cup {EXPIRED}
    PROVE  /\ transition(store, r) \in [recorded : BOOLEAN, resolution : Decision]
           /\ transition(store, r).recorded = store.recorded
           /\ transition(store, r).resolution
                 = IF store.recorded /\ store.resolution = None THEN r ELSE store.resolution
BY DEF transition, pending, Decision

\* The workflow's answer is a choice it offered, and it has one once a reply is there.
LEMMA AnswerIsOffered ==
    ASSUME replies \in Seq(request.choices), request.choices \subseteq EscalationChoice
    PROVE  /\ Answer # None => Answer \in request.choices /\ replies # <<>>
           /\ replies # <<>> => Answer # None /\ Answer \in request.choices
<1> DEFINE answers == {i \in DOMAIN replies : replies[i] \in request.choices}
<1>1. answers = 1..Len(replies) /\ Len(replies) \in Nat
    OBVIOUS
<1>2. Answer = IF answers = {} THEN None
               ELSE replies[CHOOSE i \in answers : \A j \in answers : i <= j]
    BY DEF Answer
<1>3. CASE replies = <<>>
    <2>1. answers = {}
        BY <1>1, <1>3
    <2> QED BY <1>2, <1>3, <2>1
<1>4. CASE replies # <<>>
    <2>1. Len(replies) >= 1
        BY <1>4
    <2>2. 1 \in answers /\ \A j \in answers : 1 <= j
        BY <1>1, <2>1
    <2> HIDE DEF answers
    <2>3. PICK i \in answers : i = (CHOOSE k \in answers : \A j \in answers : k <= j)
        BY <2>2
    <2>4. Answer = replies[i] /\ i \in 1..Len(replies)
        BY <1>1, <1>2, <2>2, <2>3
    <2>5. Answer \in request.choices
        BY <2>4
    <2>6. None \notin EscalationChoice
        BY EscalationAssumption
    <2> QED BY <1>4, <2>5, <2>6
<1> QED BY <1>3, <1>4

\* What an offer is made of.
LEMMA RequestTypes ==
    ASSUME EscalationTypeOK
    PROVE  /\ request.choices \subseteq EscalationChoice
           /\ request.default_choice \in EscalationChoice \cup {None}
           /\ None \notin EscalationChoice /\ EXPIRED \notin EscalationChoice /\ None # EXPIRED
           /\ Fallback \in EscalationChoice /\ None \notin Outcome
           /\ MaxAttempts \in Nat \ {0}
BY EscalationAssumption, NoOutcomeAssumption DEF EscalationTypeOK

LEMMA PageInit == EscalationInit => PageInv
<1> SUFFICES ASSUME EscalationInit PROVE PageInv
    OBVIOUS
<1> DEFINE First == [choice : EscalationChoice, channel : {"bot", "cli"}, authorized : BOOLEAN,
                     at : {"idle"}, told : {"nothing"}]
<1>1. press \in [Presses -> First]
    BY DEF EscalationInit
<1>2. \A p \in First : p \in Press /\ p.at = "idle" /\ p.told = "nothing"
    BY DEF Press, Told
<1>3. \A p \in Presses : press[p] \in First
    BY <1>1
<1> HIDE DEF First
<1>4. press \in [Presses -> Press]
    BY <1>1, <1>2, <1>3
<1>5. row.recorded = FALSE /\ row.resolution = None /\ result.ready = FALSE
    BY DEF EscalationInit, NotReady
<1>6. EscalationTypeOK
    <2>1. /\ row \in [recorded : BOOLEAN, resolution : Decision]
          /\ result \in [ready : BOOLEAN, final_state : Decision]
        BY DEF EscalationInit, NotReady, Decision
    <2>2. tries \in 0..MaxAttempts /\ crashes \in 0..MaxCrashes
        BY EscalationAssumption DEF EscalationInit
    <2>3. replies \in Seq(EscalationChoice)
        BY DEF EscalationInit
    <2> QED BY <1>4, <2>1, <2>2, <2>3 DEF EscalationInit, EscalationTypeOK
<1>7. AwaitInv /\ ResultInv /\ OutcomeInv
    BY <1>5, EscalationAssumption DEF EscalationInit, AwaitInv, ResultInv, OutcomeInv
<1>8. PressInv
    BY <1>2, <1>3 DEF EscalationInit, PressInv
<1> QED BY <1>6, <1>7, <1>8 DEF PageInv

-----------------------------------------------------------------------------
(* Every step keeps it: first the steps of the workflow *)

\* A failed attempt of an activity moves the workflow to its end or nowhere.
LEMMA RetryKeeps ==
    ASSUME PageInv, Retry, wf \notin Closed
    PROVE  /\ tries' \in 0..MaxAttempts
           /\ wf' = "failed" \/ (wf' = wf /\ tries' < MaxAttempts)
           /\ UNCHANGED <<request, delivered, result, outcome>>
<1>1. tries \in 0..MaxAttempts /\ tries < MaxAttempts /\ MaxAttempts \in Nat
    BY RequestTypes DEF PageInv, EscalationTypeOK, AwaitInv
<1>2. tries' = tries + 1 /\ tries' \in 0..MaxAttempts
    BY <1>1 DEF Retry
<1> QED BY <1>1, <1>2 DEF Retry

LEMMA SendKeeps ==
    ASSUME PageInv, Send
    PROVE  PageInv'
<1>1. wf = "send" /\ UNCHANGED <<replies, press, crashes, unreadable, request, result, outcome>>
    BY DEF Send, Retry, pressvars
<1>2. PICK sent \in BOOLEAN :
         /\ row' = [row EXCEPT !.recorded = TRUE]
         /\ buttons' = (buttons \/ sent)
         /\ \/ /\ delivered' = sent /\ tries' = 0
               /\ wf' = IF sent THEN "wait" ELSE "expire"
            \/ Retry
    BY DEF Send
<1>3. /\ row \in [recorded : BOOLEAN, resolution : Decision]
      /\ row' \in [recorded : BOOLEAN, resolution : Decision]
      /\ row'.recorded = TRUE /\ row'.resolution = row.resolution
    BY <1>2 DEF PageInv, EscalationTypeOK
<1>4. /\ tries' \in 0..MaxAttempts /\ delivered' \in BOOLEAN
      /\ wf' \in {"send", "wait", "expire", "failed"} /\ (wf' # "failed" => tries' < MaxAttempts)
    <2>1. CASE delivered' = sent /\ tries' = 0 /\ wf' = IF sent THEN "wait" ELSE "expire"
        BY <2>1, RequestTypes DEF PageInv
    <2>2. CASE Retry
        BY <1>1, <2>2, RetryKeeps DEF Closed, PageInv, EscalationTypeOK
    <2> QED BY <1>2, <2>1, <2>2
<1>5. EscalationTypeOK'
    BY <1>1, <1>2, <1>3, <1>4 DEF PageInv, EscalationTypeOK, Closed
<1>6. AwaitInv'
    BY <1>1, <1>3, <1>4 DEF PageInv, AwaitInv, Closed
<1>7. ResultInv' /\ OutcomeInv'
    BY <1>1, <1>3, <1>4, RequestTypes DEF PageInv, ResultInv, OutcomeInv
<1>8. PressInv'
    BY <1>1, <1>3 DEF PageInv, PressInv
<1> QED BY <1>5, <1>6, <1>7, <1>8 DEF PageInv

LEMMA MoveKeeps ==
    ASSUME PageInv, SendRefused \/ Answered \/ WindowElapses \/ StoreUnreadable \/ Cancel
    PROVE  PageInv'
<1>1. /\ UNCHANGED <<row, replies, press, crashes, buttons, request, delivered, outcome>>
      /\ wf \notin Closed /\ outcome = None
    BY DEF SendRefused, Retry, Answered, WindowElapses, StoreUnreadable, Cancel, pressvars, wfvars,
           Closed, PageInv, OutcomeInv
<1>2. PressInv'
    BY <1>1 DEF PageInv, PressInv
<1>3. OutcomeInv'
    BY <1>1 DEF OutcomeInv
<1>4. CASE SendRefused
    <2>1. /\ wf = "send" /\ UNCHANGED <<result, unreadable>> /\ tries' \in 0..MaxAttempts
          /\ wf' = "failed" \/ (wf' = wf /\ tries' < MaxAttempts)
        BY <1>1, <1>4, RetryKeeps DEF SendRefused
    <2>2. EscalationTypeOK'
        BY <1>1, <2>1 DEF PageInv, EscalationTypeOK, Closed
    <2>3. AwaitInv' /\ ResultInv'
        BY <1>1, <2>1 DEF PageInv, AwaitInv, ResultInv, Closed
    <2> QED BY <1>2, <1>3, <2>2, <2>3 DEF PageInv
<1>5. CASE Answered
    <2>1. /\ wf = "wait" /\ wf' = "settle" /\ Answer # None
          /\ UNCHANGED <<tries, result, unreadable>>
        BY <1>5 DEF Answered
    <2>2. replies # <<>>
        BY <2>1, AnswerIsOffered, RequestTypes DEF PageInv, PressInv
    <2>3. EscalationTypeOK'
        BY <1>1, <2>1 DEF PageInv, EscalationTypeOK
    <2>4. AwaitInv' /\ ResultInv'
        BY <1>1, <2>1, <2>2 DEF PageInv, AwaitInv, ResultInv, Closed
    <2> QED BY <1>2, <1>3, <2>3, <2>4 DEF PageInv
<1>6. CASE WindowElapses
    <2>1. wf = "wait" /\ wf' = "expire" /\ UNCHANGED <<tries, result, unreadable>>
        BY <1>6 DEF WindowElapses
    <2>2. EscalationTypeOK'
        BY <1>1, <2>1 DEF PageInv, EscalationTypeOK
    <2>3. AwaitInv' /\ ResultInv'
        BY <1>1, <2>1 DEF PageInv, AwaitInv, ResultInv, Closed
    <2> QED BY <1>2, <1>3, <2>2, <2>3 DEF PageInv
<1>7. CASE StoreUnreadable
    <2>1. /\ wf \in {"settle", "expire"} /\ UNCHANGED <<wf, tries>> /\ unreadable' = TRUE
          /\ result' = [ready |-> TRUE, final_state |-> None]
        BY <1>7 DEF StoreUnreadable
    <2>2. EscalationTypeOK'
        BY <1>1, <2>1 DEF PageInv, EscalationTypeOK, Decision
    <2>3. AwaitInv' /\ ResultInv'
        BY <1>1, <2>1 DEF PageInv, AwaitInv, ResultInv
    <2> QED BY <1>2, <1>3, <2>2, <2>3 DEF PageInv
<1>8. CASE Cancel
    <2>1. /\ wf' = "cancelled" /\ UNCHANGED <<tries, unreadable>>
          /\ result' = [ready |-> FALSE, final_state |-> None]
        BY <1>8 DEF Cancel, NotReady
    <2>2. EscalationTypeOK'
        BY <1>1, <2>1 DEF PageInv, EscalationTypeOK, Decision, Closed
    <2>3. AwaitInv' /\ ResultInv'
        BY <2>1 DEF AwaitInv, ResultInv, Closed
    <2> QED BY <1>2, <1>3, <2>2, <2>3 DEF PageInv
<1> QED BY <1>4, <1>5, <1>6, <1>7, <1>8

\* settle_escalation and expire_escalation: what is handed back is the row.
LEMMA TransitionStepKeeps ==
    ASSUME PageInv, settle_escalation \/ expire_escalation
    PROVE  /\ PageInv'
           /\ UNCHANGED <<request, outcome, unreadable>>
           /\ row'.resolution # row.resolution
                 => row.resolution = None /\ row'.resolution \in request.choices \cup {EXPIRED}
<1>1. PICK r \in request.choices \cup {EXPIRED} :
         /\ wf = "settle" => r # EXPIRED
         /\ Transition(wf, r) /\ wf \in {"settle", "expire"}
    <2>1. CASE settle_escalation
        <3>1. wf = "settle" /\ replies # <<>>
            BY <2>1 DEF settle_escalation, Transition, PageInv, AwaitInv
        <3>2. Answer \in request.choices
            BY <3>1, AnswerIsOffered, RequestTypes DEF PageInv, PressInv
        <3> QED BY <2>1, <3>1, <3>2, RequestTypes DEF settle_escalation, PageInv
    <2>2. CASE expire_escalation
        BY <2>2 DEF expire_escalation, Transition
    <2> QED BY <2>1, <2>2
<1>2. /\ ~result.ready /\ row' = transition(row, r)
      /\ UNCHANGED <<request, delivered, outcome, replies, press, crashes, buttons, unreadable>>
      /\ outcome = None /\ wf \notin Closed
    BY <1>1, RetryKeeps DEF Transition, pressvars, PageInv, OutcomeInv, Closed
<1>3. /\ r \in EscalationChoice \cup {EXPIRED} /\ r # None
      /\ row \in [recorded : BOOLEAN, resolution : Decision] /\ row.recorded = TRUE
    BY <1>1, RequestTypes DEF PageInv, EscalationTypeOK, AwaitInv
<1>4. /\ row' \in [recorded : BOOLEAN, resolution : Decision] /\ row'.recorded = TRUE
      /\ row'.resolution = IF row.resolution = None THEN r ELSE row.resolution
    BY <1>2, <1>3, TransitionKeeps
<1>5. \/ /\ result' = [ready |-> TRUE, final_state |-> row'.resolution]
         /\ UNCHANGED <<wf, tries>>
      \/ /\ UNCHANGED result /\ tries' \in 0..MaxAttempts
         /\ wf' = "failed" \/ (wf' = wf /\ tries' < MaxAttempts)
    BY <1>1, <1>2, RetryKeeps DEF Transition
<1>6. EscalationTypeOK'
    <2>2. row'.resolution \in Decision
        BY <1>4
    <2>1. result' \in [ready : BOOLEAN, final_state : Decision]
        <3>1. CASE result' = [ready |-> TRUE, final_state |-> row'.resolution]
            BY <2>2, <3>1
        <3>2. CASE UNCHANGED result
            BY <3>2 DEF PageInv, EscalationTypeOK
        <3> QED BY <1>5, <3>1, <3>2
    <2> QED BY <1>1, <1>2, <1>4, <1>5, <2>1 DEF PageInv, EscalationTypeOK, Closed
<1>7. AwaitInv'
    BY <1>1, <1>2, <1>4, <1>5 DEF PageInv, AwaitInv, Closed
<1>8. ResultInv'
    BY <1>1, <1>2, <1>3, <1>4, <1>5 DEF ResultInv
<1>9. OutcomeInv'
    BY <1>2 DEF OutcomeInv
<1>10. PressInv'
    <2>1. \A p \in Presses : press[p].choice \in EscalationChoice
        BY DEF PageInv, EscalationTypeOK, Press
    <2>2. \A p \in Presses : press[p].told = "RESOLVED" => row'.resolution = press[p].choice
        BY <1>4, <2>1, RequestTypes DEF PageInv, PressInv
    <2> QED BY <1>2, <2>2 DEF PageInv, PressInv
<1>11. row'.resolution # row.resolution
          => row.resolution = None /\ row'.resolution \in request.choices \cup {EXPIRED}
    BY <1>1, <1>4
<1> QED BY <1>2, <1>6, <1>7, <1>8, <1>9, <1>10, <1>11 DEF PageInv

\* settle_answer and settle_unanswered: the report is the row's decision, or,
\* with the store out of reach, what was offered or the fail-safe.
LEMMA CloseKeeps ==
    ASSUME PageInv, settle_answer \/ settle_unanswered
    PROVE  /\ PageInv' /\ outcome = None /\ outcome' \in Outcome
           /\ UNCHANGED <<request, row, unreadable>>
           /\ \/ /\ row.resolution # None
                 /\ outcome'.resolution = IF row.resolution # EXPIRED THEN row.resolution
                                          ELSE IF request.default_choice = None THEN EXPIRED
                                          ELSE request.default_choice
              \/ /\ unreadable
                 /\ outcome'.resolution \in request.choices
                       \cup {IF request.default_choice = None THEN Fallback
                             ELSE request.default_choice}
<1> DEFINE f == result.final_state
<1>1. /\ result.ready /\ wf \in {"settle", "expire"} /\ outcome = None
      /\ f \in Decision /\ IF f = None THEN unreadable ELSE f = row.resolution
    BY DEF settle_answer, settle_unanswered, PageInv, ResultInv, OutcomeInv, EscalationTypeOK
<1>2. /\ UNCHANGED <<request, tries, delivered, row, replies, buttons, press, crashes, unreadable>>
      /\ wf' = "closed" /\ result' = [ready |-> FALSE, final_state |-> None]
    BY DEF settle_answer, settle_unanswered, Close, NotReady, pressvars
<1>3. /\ outcome' \in Outcome
      /\ \/ /\ f # None /\ f # EXPIRED /\ outcome'.resolution = f /\ outcome'.answered
         \/ /\ f = EXPIRED
            /\ outcome'.resolution = IF request.default_choice = None THEN EXPIRED
                                     ELSE request.default_choice
         \/ /\ f = None
            /\ outcome'.resolution \in request.choices
                  \cup {IF request.default_choice = None THEN Fallback
                        ELSE request.default_choice}
    <2>1. delivered \in BOOLEAN
        BY DEF PageInv, EscalationTypeOK
    <2>2. CASE settle_answer
        <3>1. wf = "settle" /\ replies # <<>> /\ row.resolution # EXPIRED
            BY <2>2 DEF settle_answer, PageInv, AwaitInv
        <3>2. Answer \in request.choices /\ Answer \in EscalationChoice
            BY <3>1, AnswerIsOffered, RequestTypes DEF PageInv, PressInv
        <3> DEFINE recorded == IF f = None THEN Answer ELSE f
        <3>3. outcome' = Outcome_of(recorded, IF recorded = Answer THEN None ELSE Answer)
            BY <2>2 DEF settle_answer, Close
        <3>4. recorded \in EscalationChoice /\ recorded # EXPIRED
            BY <1>1, <3>1, <3>2, RequestTypes DEF Decision, PageInv
        <3>5. f # EXPIRED
            BY <1>1, <3>1, RequestTypes DEF PageInv
        <3> HIDE DEF recorded
        <3>6. /\ outcome' \in Outcome /\ outcome'.resolution = recorded
              /\ outcome'.answered = TRUE
            BY <2>1, <3>2, <3>3, <3>4 DEF Outcome_of, Outcome, Decision
        <3> QED BY <3>2, <3>5, <3>6 DEF recorded
    <2>3. CASE settle_unanswered
        <3> DEFINE default == request.default_choice
                   silent(r) == [resolution |-> r, answered |-> FALSE,
                                 delivered |-> delivered, late |-> None]
        <3>1. default \in EscalationChoice \cup {None}
            BY RequestTypes DEF PageInv
        <3>2. CASE f = None
            <4>1. outcome' = silent(IF default = None THEN Fallback ELSE default)
                BY <2>3, <3>2, RequestTypes DEF settle_unanswered, Close, PageInv
            <4>2. outcome' \in Outcome
                BY <2>1, <3>1, <4>1, RequestTypes DEF Outcome, Decision, PageInv
            <4> QED BY <3>2, <4>1, <4>2
        <3>3. CASE f = EXPIRED
            <4>1. outcome' = silent(IF default = None THEN EXPIRED ELSE default)
                BY <2>3, <3>3, RequestTypes DEF settle_unanswered, Close, PageInv
            <4>2. outcome' \in Outcome
                BY <2>1, <3>1, <4>1, RequestTypes DEF Outcome, Decision, PageInv
            <4> QED BY <3>3, <4>1, <4>2
        <3>4. CASE f # None /\ f # EXPIRED
            <4>1. outcome' = Outcome_of(f, EXPIRED)
                BY <2>3, <3>4 DEF settle_unanswered, Close
            <4>2. f \in EscalationChoice
                BY <1>1, <3>4 DEF Decision
            <4> HIDE DEF f
            <4>3. outcome' \in Outcome /\ outcome'.resolution = f /\ outcome'.answered = TRUE
                BY <2>1, <3>4, <4>1, <4>2 DEF Outcome_of, Outcome, Decision
            <4> QED BY <3>4, <4>3
        <3> QED BY <3>2, <3>3, <3>4
    <2> QED BY <2>2, <2>3
<1>4. \/ /\ row.resolution # None
         /\ outcome'.resolution = IF row.resolution # EXPIRED THEN row.resolution
                                  ELSE IF request.default_choice = None THEN EXPIRED
                                  ELSE request.default_choice
      \/ /\ unreadable
         /\ outcome'.resolution \in request.choices
               \cup {IF request.default_choice = None THEN Fallback
                     ELSE request.default_choice}
    BY <1>1, <1>3, RequestTypes DEF PageInv
<1>5. EscalationTypeOK'
    BY <1>2, <1>3 DEF PageInv, EscalationTypeOK, Decision, Closed
<1>6. AwaitInv' /\ ResultInv'
    BY <1>2 DEF AwaitInv, ResultInv, Closed
<1>7. OutcomeInv'
    BY <1>1, <1>2, <1>3 DEF OutcomeInv
<1>8. PressInv'
    BY <1>2 DEF PageInv, PressInv
<1> QED BY <1>1, <1>2, <1>3, <1>4, <1>5, <1>6, <1>7, <1>8 DEF PageInv

-----------------------------------------------------------------------------
(* The steps of the presses *)

\* Telling a press's sender something ends the press.
LEMMA ToldPress ==
    ASSUME PageInv, NEW p \in Presses, NEW told \in Told, Tell(p, told)
    PROVE  /\ press' \in [Presses -> Press]
           /\ press'[p].at = "over" /\ press'[p].told = told
           /\ \A q \in Presses : press'[q].choice = press[q].choice /\ (q # p => press'[q] = press[q])
<1>1. press \in [Presses -> Press] /\ press[p] \in Press
    BY DEF PageInv, EscalationTypeOK
<1> DEFINE u == [press[p] EXCEPT !.at = "over", !.told = told]
<1>2. u \in Press /\ u.at = "over" /\ u.told = told /\ u.choice = press[p].choice
    BY <1>1 DEF Press
<1>3. press' = [press EXCEPT ![p] = u]
    BY <1>1 DEF Tell
<1> HIDE DEF u
<1> QED BY <1>1, <1>2, <1>3

\* A press goes on to its next call.
LEMMA MovedPress ==
    ASSUME PageInv, NEW p \in Presses, NEW at \in {"idle", "signal", "record", "over"},
           press' = [press EXCEPT ![p].at = at]
    PROVE  /\ press' \in [Presses -> Press]
           /\ press'[p].at = at /\ press'[p].told = press[p].told
           /\ \A q \in Presses : press'[q].choice = press[q].choice /\ (q # p => press'[q] = press[q])
<1>1. press \in [Presses -> Press] /\ press[p] \in Press
    BY DEF PageInv, EscalationTypeOK
<1> DEFINE u == [press[p] EXCEPT !.at = at]
<1>2. u \in Press /\ u.at = at /\ u.told = press[p].told /\ u.choice = press[p].choice
    BY <1>1 DEF Press
<1>3. press' = [press EXCEPT ![p] = u]
    BY <1>1
<1> HIDE DEF u
<1> QED BY <1>1, <1>2, <1>3

\* A step that moves presses only.
LEMMA PressOnlyKeeps ==
    ASSUME PageInv, press' \in [Presses -> Press], crashes' \in 0..MaxCrashes,
           UNCHANGED <<wfvars, row, buttons, unreadable, replies>>,
           \A p \in Presses :
              /\ press'[p].choice = press[p].choice
              /\ press'[p].at \in {"signal", "record"} => press[p].choice \in request.choices
              /\ press'[p].told = "RESOLVED" => press[p].told = "RESOLVED"
    PROVE  PageInv'
<1>1. /\ UNCHANGED <<request, wf, tries, delivered, result, outcome>>
      /\ UNCHANGED <<row, buttons, unreadable, replies>>
    BY DEF wfvars
<1>2. EscalationTypeOK'
    BY <1>1 DEF PageInv, EscalationTypeOK
<1>3. AwaitInv' /\ ResultInv' /\ OutcomeInv'
    BY <1>1 DEF PageInv, AwaitInv, ResultInv, OutcomeInv
<1>4. PressInv'
    BY <1>1 DEF PageInv, PressInv
<1> QED BY <1>2, <1>3, <1>4 DEF PageInv

LEMMA ReadRowKeeps ==
    ASSUME PageInv, NEW p \in Presses, ReadRow(p)
    PROVE  PageInv'
<1>1. UNCHANGED <<wfvars, row, buttons, unreadable, replies>> /\ crashes' \in 0..MaxCrashes
    BY DEF ReadRow, PageInv, EscalationTypeOK
<1>2. CASE \E told \in Told \ {"RESOLVED"} : Tell(p, told)
    <2>1. PICK told \in Told \ {"RESOLVED"} : Tell(p, told)
        BY <1>2
    <2>2. /\ press' \in [Presses -> Press] /\ press'[p].at = "over" /\ press'[p].told = told
          /\ \A q \in Presses : press'[q].choice = press[q].choice /\ (q # p => press'[q] = press[q])
        BY <2>1, ToldPress
    <2> QED BY <1>1, <2>2, PressOnlyKeeps DEF PageInv, PressInv
<1>3. CASE /\ press[p].choice \in request.choices
           /\ press' = [press EXCEPT ![p].at = "signal"]
    <2>1. /\ press' \in [Presses -> Press]
          /\ press'[p].at = "signal" /\ press'[p].told = press[p].told
          /\ \A q \in Presses : press'[q].choice = press[q].choice /\ (q # p => press'[q] = press[q])
        BY <1>3, MovedPress
    <2> QED BY <1>1, <1>3, <2>1, PressOnlyKeeps DEF PageInv, PressInv
<1>4. Settled(row.resolution) \in Told \ {"RESOLVED"}
    BY DEF Settled, Told
<1>5. {"UNAUTHORIZED", "UNKNOWN", "INVALID_CHOICE"} \subseteq Told \ {"RESOLVED"}
    BY DEF Told
<1> QED BY <1>2, <1>3, <1>4, <1>5 DEF ReadRow

LEMMA Appended ==
    ASSUME NEW S, NEW q \in Seq(S), NEW e \in S
    PROVE  Append(q, e) \in Seq(S) /\ Len(Append(q, e)) = Len(q) + 1
OBVIOUS

LEMMA SignalKeeps ==
    ASSUME PageInv, NEW p \in Presses, SignalWorkflow(p)
    PROVE  PageInv'
<1>1. /\ press[p].at = "signal" /\ press[p].choice \in request.choices
      /\ UNCHANGED <<wfvars, row, buttons, unreadable>> /\ crashes' \in 0..MaxCrashes
    BY DEF SignalWorkflow, PageInv, EscalationTypeOK, PressInv
<1>2. /\ press' \in [Presses -> Press]
      /\ press'[p].at \in {"record", "over"}
      /\ press'[p].told = "RESOLVED" => press[p].told = "RESOLVED"
      /\ \A q \in Presses : press'[q].choice = press[q].choice /\ (q # p => press'[q] = press[q])
    <2>1. CASE Tell(p, "SIGNAL_FAILED") \/ Tell(p, "SENT")
        BY <2>1, ToldPress DEF Told
    <2>2. CASE press' = [press EXCEPT ![p].at = "record"]
        BY <2>2, MovedPress
    <2> QED BY <2>1, <2>2 DEF SignalWorkflow
<1>3. CASE UNCHANGED replies
    BY <1>1, <1>2, <1>3, PressOnlyKeeps DEF PageInv, PressInv
<1>4. CASE replies' = Append(replies, press[p].choice)
    <2>1. /\ UNCHANGED <<request, wf, tries, delivered, result, outcome>>
          /\ UNCHANGED <<row, buttons, unreadable>>
        BY <1>1 DEF wfvars
    <2>2. /\ request.choices \subseteq EscalationChoice /\ replies \in Seq(request.choices)
          /\ replies' \in Seq(request.choices) /\ replies' # <<>>
        <3>1. request.choices \subseteq EscalationChoice /\ replies \in Seq(request.choices)
            BY RequestTypes DEF PageInv, PressInv
        <3>2. replies' \in Seq(request.choices) /\ Len(replies') = Len(replies) + 1
            BY <1>1, <1>4, <3>1, Appended
        <3>3. Len(replies) \in Nat /\ Len(replies') # 0
            BY <3>1, <3>2
        <3> QED BY <3>1, <3>2, <3>3
    <2>3. replies' \in Seq(EscalationChoice)
        BY <2>2
    <2>4. EscalationTypeOK'
        BY <1>1, <1>2, <2>1, <2>3 DEF PageInv, EscalationTypeOK
    <2>5. AwaitInv' /\ ResultInv' /\ OutcomeInv'
        BY <2>1, <2>2 DEF PageInv, AwaitInv, ResultInv, OutcomeInv
    <2>6. PressInv'
        BY <1>1, <1>2, <2>1, <2>2 DEF PageInv, PressInv
    <2> QED BY <2>4, <2>5, <2>6 DEF PageInv
<1> QED BY <1>3, <1>4 DEF SignalWorkflow

\* The bridge's own UPDATE: a press told "recorded" is the row's decision.
LEMMA RecordPressKeeps ==
    ASSUME PageInv, NEW p \in Presses, RecordPress(p)
    PROVE  /\ PageInv'
           /\ UNCHANGED <<request, outcome, unreadable>>
           /\ row'.resolution # row.resolution
                 => row.resolution = None /\ row'.resolution \in request.choices
<1>1. /\ press[p].at = "record" /\ press[p].choice \in request.choices
      /\ press[p].choice \in EscalationChoice
      /\ row' = transition(row, press[p].choice)
      /\ UNCHANGED <<request, wf, tries, delivered, result, outcome>>
      /\ UNCHANGED <<replies, buttons, unreadable, crashes>>
    BY RequestTypes DEF RecordPress, PageInv, PressInv, wfvars
<1> DEFINE told == IF pending(row) THEN "RESOLVED" ELSE Settled(row.resolution)
<1>2. told \in Told /\ (told = "RESOLVED" <=> row.recorded /\ row.resolution = None)
    BY DEF Settled, Told, pending
<1>3. Tell(p, told)
    BY DEF RecordPress
<1> HIDE DEF told
<1>4. /\ press' \in [Presses -> Press] /\ press'[p].at = "over" /\ press'[p].told = told
      /\ \A q \in Presses : press'[q].choice = press[q].choice /\ (q # p => press'[q] = press[q])
    BY <1>2, <1>3, ToldPress
<1>5. /\ row \in [recorded : BOOLEAN, resolution : Decision]
      /\ row' \in [recorded : BOOLEAN, resolution : Decision] /\ row'.recorded = row.recorded
      /\ row'.resolution = IF row.recorded /\ row.resolution = None THEN press[p].choice
                           ELSE row.resolution
    BY <1>1, TransitionKeeps DEF PageInv, EscalationTypeOK
<1>6. press[p].choice # None /\ press[p].choice # EXPIRED /\ None # EXPIRED
    BY <1>1, RequestTypes DEF PageInv
<1>7. EscalationTypeOK'
    BY <1>1, <1>4, <1>5 DEF PageInv, EscalationTypeOK
<1>8. AwaitInv'
    BY <1>1, <1>5, <1>6 DEF PageInv, AwaitInv
<1>9. ResultInv'
    BY <1>1, <1>5 DEF PageInv, ResultInv
<1>10. OutcomeInv'
    BY <1>1, <1>5 DEF PageInv, OutcomeInv
<1>11. PressInv'
    <2>1. \A q \in Presses : press[q].choice \in EscalationChoice
        BY DEF PageInv, EscalationTypeOK, Press
    <2>2. \A q \in Presses : press'[q].told = "RESOLVED" => row'.resolution = press'[q].choice
        BY <1>2, <1>4, <1>5, <2>1, RequestTypes DEF PageInv, PressInv
    <2> QED BY <1>1, <1>4, <2>2 DEF PageInv, PressInv
<1>12. row'.resolution # row.resolution
          => row.resolution = None /\ row'.resolution \in request.choices
    BY <1>1, <1>5
<1> QED BY <1>1, <1>7, <1>8, <1>9, <1>10, <1>11, <1>12 DEF PageInv

LEMMA BridgeErrorKeeps ==
    ASSUME PageInv, NEW p \in Presses, BridgeError(p)
    PROVE  PageInv'
<1>1. /\ UNCHANGED <<wfvars, row, buttons, unreadable, replies>> /\ crashes' \in 0..MaxCrashes
      /\ Tell(p, "BRIDGE_ERROR") /\ "BRIDGE_ERROR" \in Told
    BY DEF BridgeError, PageInv, EscalationTypeOK, Told
<1>2. /\ press' \in [Presses -> Press] /\ press'[p].at = "over" /\ press'[p].told = "BRIDGE_ERROR"
      /\ \A q \in Presses : press'[q].choice = press[q].choice /\ (q # p => press'[q] = press[q])
    BY <1>1, ToldPress
<1> QED BY <1>1, <1>2, PressOnlyKeeps DEF PageInv, PressInv

LEMMA BridgeRestartsKeeps ==
    ASSUME PageInv, BridgeRestarts
    PROVE  PageInv'
<1>1. /\ UNCHANGED <<wfvars, row, buttons, unreadable, replies>>
      /\ crashes < MaxCrashes /\ crashes' = crashes + 1
    BY DEF BridgeRestarts
<1>2. crashes' \in 0..MaxCrashes
    BY <1>1, EscalationAssumption DEF PageInv, EscalationTypeOK
<1>3. press \in [Presses -> Press]
    BY DEF PageInv, EscalationTypeOK
<1>4. \A p \in Presses : [press[p] EXCEPT !.at = "idle"] \in Press
    BY <1>3 DEF Press
<1>5. press' = [p \in Presses |->
                    IF press[p].channel = "bot" /\ press[p].at \in {"signal", "record"}
                    THEN [press[p] EXCEPT !.at = "idle"] ELSE press[p]]
    BY DEF BridgeRestarts
<1>6. press' \in [Presses -> Press]
    BY <1>3, <1>4, <1>5
<1>7. \A p \in Presses :
         /\ press'[p].choice = press[p].choice /\ press'[p].told = press[p].told
         /\ press'[p].at \in {press[p].at, "idle"}
    BY <1>3, <1>5 DEF Press
<1> QED BY <1>1, <1>2, <1>6, <1>7, PressOnlyKeeps DEF PageInv, PressInv

-----------------------------------------------------------------------------
(* Every step keeps the invariant and is a step of the promise or none *)

Stutters == UNCHANGED <<request, outcome, unreadable>> /\ row'.resolution = row.resolution

\* The steps that neither decide nor report, nor lose the store.
LEMMA OtherStepsStutter ==
    ASSUME PageInv,
           \/ Send \/ Answered \/ WindowElapses \/ SendRefused \/ Cancel \/ BridgeRestarts
           \/ \E p \in Presses : ReadRow(p) \/ SignalWorkflow(p) \/ BridgeError(p)
    PROVE  Stutters
<1>1. CASE Send
    BY <1>1 DEF Send, Retry, Stutters, PageInv, EscalationTypeOK
<1>2. CASE Answered \/ WindowElapses \/ SendRefused \/ Cancel
    BY <1>2 DEF Answered, WindowElapses, SendRefused, Retry, Cancel, Stutters
<1>3. CASE BridgeRestarts \/ \E p \in Presses : ReadRow(p) \/ SignalWorkflow(p) \/ BridgeError(p)
    BY <1>3 DEF BridgeRestarts, ReadRow, SignalWorkflow, BridgeError, wfvars, Stutters
<1> QED BY <1>1, <1>2, <1>3

LEMMA PageStep ==
    ASSUME PageInv, [EscalationNext]_evars
    PROVE  PageInv' /\ [Page!Next]_Page!promise
<1> USE DEF Page!promise
<1>1. CASE UNCHANGED evars
    <2>1. /\ UNCHANGED <<request, wf, tries, delivered, result, outcome>>
          /\ UNCHANGED <<row, replies, buttons, press, crashes, unreadable>>
        BY <1>1 DEF evars, wfvars, pressvars
    <2>2. EscalationTypeOK'
        BY <2>1 DEF PageInv, EscalationTypeOK
    <2>3. AwaitInv' /\ ResultInv' /\ OutcomeInv' /\ PressInv'
        BY <2>1 DEF PageInv, AwaitInv, ResultInv, OutcomeInv, PressInv
    <2> QED BY <2>1, <2>2, <2>3 DEF PageInv
<1>2. CASE \/ Send \/ Answered \/ WindowElapses \/ SendRefused \/ Cancel \/ BridgeRestarts
           \/ \E p \in Presses : ReadRow(p) \/ SignalWorkflow(p) \/ BridgeError(p)
    <2>1. PageInv'
        BY <1>2, SendKeeps, MoveKeeps, BridgeRestartsKeeps, ReadRowKeeps, SignalKeeps, BridgeErrorKeeps
    <2>2. Stutters
        BY <1>2, OtherStepsStutter
    <2> QED BY <2>1, <2>2 DEF Stutters
<1>3. CASE settle_escalation \/ expire_escalation
    <2>1. /\ PageInv' /\ UNCHANGED <<request, outcome, unreadable>>
          /\ row'.resolution # row.resolution
                => row.resolution = None /\ row'.resolution \in request.choices \cup {EXPIRED}
        BY <1>3, TransitionStepKeeps
    <2>2. CASE row'.resolution = row.resolution
        BY <2>1, <2>2
    <2>3. CASE row'.resolution # row.resolution
        BY <2>1, <2>3 DEF Page!Next, Page!Decide, EXPIRED, Page!EXPIRED
    <2> QED BY <2>1, <2>2, <2>3
<1>4. ASSUME NEW p \in Presses, RecordPress(p)
      PROVE  PageInv' /\ [Page!Next]_Page!promise
    <2>1. /\ PageInv' /\ UNCHANGED <<request, outcome, unreadable>>
          /\ row'.resolution # row.resolution
                => row.resolution = None /\ row'.resolution \in request.choices
        BY <1>4, RecordPressKeeps
    <2>2. CASE row'.resolution = row.resolution
        BY <2>1, <2>2
    <2>3. CASE row'.resolution # row.resolution
        BY <2>1, <2>3 DEF Page!Next, Page!Decide
    <2> QED BY <2>1, <2>2, <2>3
<1>5. CASE StoreUnreadable
    <2>1. PageInv'
        BY <1>5, MoveKeeps
    <2>2. outcome = None /\ unreadable' = TRUE /\ UNCHANGED <<request, row, outcome>>
        BY <1>5 DEF StoreUnreadable, PageInv, OutcomeInv
    <2> QED BY <2>1, <2>2 DEF Page!Next, Page!LoseRecord
<1>6. CASE settle_answer \/ settle_unanswered
    <2>1. /\ PageInv' /\ outcome = None /\ outcome' \in Outcome
          /\ UNCHANGED <<request, row, unreadable>>
          /\ \/ /\ row.resolution # None
                /\ outcome'.resolution = IF row.resolution # EXPIRED THEN row.resolution
                                         ELSE IF request.default_choice = None THEN EXPIRED
                                         ELSE request.default_choice
             \/ /\ unreadable
                /\ outcome'.resolution \in request.choices
                      \cup {IF request.default_choice = None THEN Fallback
                            ELSE request.default_choice}
        BY <1>6, CloseKeeps
    <2>2. outcome' # None
        BY <2>1, NoOutcomeAssumption
    <2>3. CASE /\ row.resolution # None
               /\ outcome'.resolution = IF row.resolution # EXPIRED THEN row.resolution
                                        ELSE IF request.default_choice = None THEN EXPIRED
                                        ELSE request.default_choice
        BY <2>1, <2>2, <2>3 DEF Page!Next, Page!Report, EXPIRED, Page!EXPIRED
    <2>4. CASE /\ unreadable
               /\ outcome'.resolution \in request.choices
                     \cup {IF request.default_choice = None THEN Fallback
                           ELSE request.default_choice}
        BY <2>1, <2>2, <2>4 DEF Page!Next, Page!ReportUnread
    <2> QED BY <2>1, <2>3, <2>4
<1> QED BY <1>1, <1>2, <1>3, <1>4, <1>5, <1>6
        DEF EscalationNext, Workflow, Faults, Press_steps

LEMMA PageAlways == EscalationSpec => []PageInv
<1>1. EscalationInit => PageInv
    BY PageInit
<1>2. PageInv /\ [EscalationNext]_evars => PageInv'
    BY PageStep
<1> QED BY <1>1, <1>2, PTL DEF EscalationSpec

-----------------------------------------------------------------------------

\* The page, its row, its replies and its presses keep their shape, and no
\* activity runs more often than its policy lets it (_RETRIES).
THEOREM EscalationTypeCorrect == EscalationSpec => []EscalationTypeOK
<1>1. PageInv => EscalationTypeOK
    BY DEF PageInv
<1> QED BY <1>1, PageAlways, PTL

\* An operator told "recorded" is obeyed: the bridge's UPDATE decided the row,
\* and the workflow reports the row unless it could not read the store.
THEOREM ToldIsAlwaysObeyed == EscalationSpec => []ToldIsObeyed
<1>1. PageInv => ToldIsObeyed
    <2> SUFFICES ASSUME PageInv, NEW p \in Presses,
                        press[p].told = "RESOLVED", outcome # None, ~unreadable
                 PROVE  outcome.resolution = press[p].choice /\ outcome.answered
        BY DEF ToldIsObeyed
    <2>1. row.resolution = press[p].choice
        BY DEF PageInv, PressInv
    <2>2. press[p].choice # EXPIRED
        BY EscalationAssumption DEF PageInv, EscalationTypeOK, Press
    <2> QED BY <2>1, <2>2 DEF PageInv, OutcomeInv
<1> QED BY <1>1, PageAlways, PTL

\* EscalationWorkflow implements OneAnswer: a page is decided at most once, by an
\* offered choice or its window, and reports that decision.
THEOREM PageKeepsItsPromise == EscalationSpec => OneAnswerHolds
<1>1. EscalationInit => Page!Init
    BY DEF EscalationInit, Page!Init
<1>2. PageInv /\ [EscalationNext]_evars => [Page!Next]_Page!promise
    BY PageStep
<1> QED BY <1>1, <1>2, PageAlways, PTL DEF EscalationSpec, OneAnswerHolds, Page!Spec

-----------------------------------------------------------------------------
(* The question.  AnswerOnRecord is not inductive: that the row an answer  *)
(* settles can only be pending or ANSWERED rests on who writes EXPIRED,    *)
(* and on the row being there before anybody waits on it.                  *)

\* What the question's workflow knows at its await.
AskInv ==
    /\ asks \notin QuestionEnded => spent < Attempts
    /\ asks \in {"wait", "settle", "expire"} => question[asked].recorded
    /\ asks = "settle" => heard # <<>>
    /\ asks \notin {"resumed", "closed"} => carried = None

\* Only the window's end writes EXPIRED.
ExpiryIsLast ==
    \A r \in Rows : question[r].resolution = EXPIRED => asks \in {"expire", "closed", "failed", "cancelled"}

QuestionInv == QuestionTypeOK /\ AskInv /\ ExpiryIsLast /\ AnswerOnRecord

\* What a settlement leaves: a pending row takes it, any other stays as it is.
LEMMA SettledRows ==
    ASSUME QuestionTypeOK, NEW r \in Rows, NEW resolution \in {ANSWERED, EXPIRED},
           NEW text \in Replies \cup {None}, Settle(r, resolution, text)
    PROVE  /\ question' \in [Rows -> Row]
           /\ \A q \in Rows : /\ question'[q].recorded = question[q].recorded
                              /\ q # r \/ ~pending(question[q]) => question'[q] = question[q]
                              /\ q = r /\ pending(question[q]) => question'[q].resolution = resolution
<1>1. question \in [Rows -> Row] /\ question[r] \in Row
    BY DEF QuestionTypeOK
<1>2. PICK new : new = IF pending(question[r])
                       THEN [transition(question[r], resolution) EXCEPT !.text = text] ELSE question[r]
    OBVIOUS
<1>3. question' = [question EXCEPT ![r] = new]
    BY <1>2 DEF Settle
<1>4. /\ new \in Row /\ new.recorded = question[r].recorded
      /\ pending(question[r]) => new.resolution = resolution
      /\ ~pending(question[r]) => new = question[r]
    BY <1>1, <1>2 DEF Row, transition
<1> QED BY <1>1, <1>3, <1>4

\* What recording or adopting a row leaves.
LEMMA RecordedRows ==
    ASSUME QuestionTypeOK, NEW r \in Rows, NEW waiter \in {"epic", "question"}, RecordQuestion(r, waiter)
    PROVE  /\ question' \in [Rows -> Row]
           /\ question'[r].recorded
           /\ \A q \in Rows : /\ question'[q].resolution = question[q].resolution
                              /\ question'[q].text = question[q].text
                              /\ question[q].recorded => question'[q].recorded
<1>1. question \in [Rows -> Row] /\ question[r] \in Row
    BY DEF QuestionTypeOK
<1>2. PICK new : new = [question[r] EXCEPT !.recorded = TRUE, !.workflow_id = waiter]
    OBVIOUS
<1>3. question' = [question EXCEPT ![r] = new]
    BY <1>1, <1>2 DEF RecordQuestion, Row
<1>4. new \in Row /\ new.recorded /\ new.resolution = question[r].resolution /\ new.text = question[r].text
    BY <1>1, <1>2 DEF Row
<1> QED BY <1>1, <1>3, <1>4

\* An activity that fails is run again or ends the workflow.
LEMMA RetriedQuestion ==
    ASSUME QuestionTypeOK, AskInv, asks \notin QuestionEnded, RetryQuestion
    PROVE  /\ spent' \in 0..Attempts
           /\ (asks' = asks /\ spent' < Attempts) \/ asks' = "failed"
<1>1. spent \in 0..Attempts /\ spent < Attempts /\ Attempts \in Nat \ {0}
    BY QuestionAssumption DEF QuestionTypeOK, AskInv
<1> QED BY <1>1 DEF RetryQuestion

LEMMA FerryKeeps ==
    ASSUME QuestionInv, ferry_send_question \/ ferry_read_answer \/ Degrade
    PROVE  QuestionInv'
<1>1. QuestionTypeOK /\ Attempts \in Nat \ {0} /\ "ferried" \in Rows
    BY QuestionAssumption DEF QuestionInv, Rows
<1>2. CASE ferry_send_question
    <2>1. /\ question' \in [Rows -> Row]
          /\ \A q \in Rows : question'[q].resolution = question[q].resolution
        BY <1>1, <1>2, RecordedRows DEF ferry_send_question
    <2> QED BY <1>1, <1>2, <2>1
            DEF QuestionInv, QuestionTypeOK, AskInv, ExpiryIsLast, AnswerOnRecord, QuestionEnded, ferry_send_question
<1>3. CASE ferry_read_answer
    <2>1. question["ferried"].text \in Replies \cup {None}
        BY <1>1 DEF QuestionTypeOK, Row
    <2>2. \A q \in Rows : question[q].resolution # EXPIRED
        BY <1>3 DEF QuestionInv, ExpiryIsLast, ferry_read_answer
    <2> QED BY <1>1, <1>3, <2>1, <2>2
            DEF QuestionInv, QuestionTypeOK, AskInv, ExpiryIsLast, AnswerOnRecord, QuestionEnded, Goto, ferry_read_answer
<1>4. CASE Degrade
    BY <1>1, <1>4 DEF QuestionInv, QuestionTypeOK, AskInv, ExpiryIsLast, AnswerOnRecord, QuestionEnded,
                      Goto, rest, Degrade
<1> QED BY <1>2, <1>3, <1>4

LEMMA AskKeeps ==
    ASSUME QuestionInv, find_ferried_question \/ send_question \/ Wake \/ CancelQuestion
    PROVE  QuestionInv'
<1>1. QuestionTypeOK /\ AskInv /\ Attempts \in Nat \ {0}
    BY QuestionAssumption DEF QuestionInv
<1>2. CASE find_ferried_question
    <2>1. asked' \in Rows
        BY <1>2 DEF find_ferried_question, Rows
    <2>2. /\ asks = "find" /\ asks' = "send" /\ spent' = 0 /\ unread' \in BOOLEAN
          /\ UNCHANGED <<question, heard, carried, reply>>
        BY <1>1, <1>2 DEF find_ferried_question, Goto, QuestionTypeOK
    <2>3. QuestionTypeOK' /\ AskInv'
        BY <1>1, <2>1, <2>2 DEF QuestionTypeOK, AskInv, QuestionEnded
    <2> QED BY <2>2, <2>3 DEF QuestionInv, ExpiryIsLast, AnswerOnRecord
<1>3. CASE send_question
    <2>1. /\ asks = "send" /\ asked \in Rows
          /\ UNCHANGED <<asked, heard, carried, reply, unread>> /\ carried = None
          /\ \A q \in Rows : question[q].resolution # EXPIRED
        BY <1>1, <1>3 DEF send_question, QuestionInv, QuestionTypeOK, AskInv, ExpiryIsLast
    <2>2. /\ question' \in [Rows -> Row]
          /\ \A q \in Rows : question'[q].resolution = question[q].resolution
          /\ asks' = "wait" => question'[asked].recorded
        BY <1>1, <1>3, <2>1, RecordedRows DEF send_question, RetryQuestion, QuestionTypeOK
    <2>3. /\ asks' \in {"send", "wait", "failed"} /\ spent' \in 0..Attempts
          /\ asks' # "failed" => spent' < Attempts
        <3>1. CASE Goto("wait")
            BY <1>1, <3>1 DEF Goto
        <3>2. CASE RetryQuestion
            BY <1>1, <2>1, <3>2, RetriedQuestion DEF QuestionEnded
        <3> QED BY <1>3, <3>1, <3>2 DEF send_question
    <2> QED BY <1>1, <2>1, <2>2, <2>3
            DEF QuestionInv, QuestionTypeOK, AskInv, ExpiryIsLast, AnswerOnRecord, QuestionEnded
<1>4. CASE Wake
    BY <1>1, <1>4 DEF QuestionInv, QuestionTypeOK, AskInv, ExpiryIsLast, AnswerOnRecord, QuestionEnded,
                      Goto, rest, Wake
<1>5. CASE CancelQuestion
    BY <1>1, <1>5 DEF QuestionInv, QuestionTypeOK, AskInv, ExpiryIsLast, AnswerOnRecord, QuestionEnded,
                      Goto, rest, CancelQuestion
<1> QED BY <1>2, <1>3, <1>4, <1>5

LEMMA SettleKeeps ==
    ASSUME QuestionInv, settle_question
    PROVE  QuestionInv'
<1>1. QuestionTypeOK /\ AskInv /\ Attempts \in Nat \ {0}
    BY QuestionAssumption DEF QuestionInv
<1>2. /\ asks = "settle" /\ asked \in Rows /\ question[asked].recorded /\ carried = None
      /\ UNCHANGED <<asked, heard, reply>> /\ Head(heard) \in Replies
      /\ \A q \in Rows : question[q].resolution # EXPIRED
    BY <1>1 DEF settle_question, QuestionInv, QuestionTypeOK, AskInv, ExpiryIsLast
<1>3. /\ question' \in [Rows -> Row]
      /\ \A q \in Rows : question'[q].resolution # EXPIRED
      /\ question'[asked].recorded
      /\ unread' \in BOOLEAN
      /\ ~unread' => question'[asked].resolution = ANSWERED
    <2>1. CASE Settle(asked, ANSWERED, Head(heard)) /\ UNCHANGED unread
        <3>1. /\ question' \in [Rows -> Row]
              /\ \A q \in Rows : /\ question'[q].recorded = question[q].recorded
                                 /\ q # asked \/ ~pending(question[q]) => question'[q] = question[q]
                                 /\ q = asked /\ pending(question[q]) => question'[q].resolution = ANSWERED
            BY <1>1, <1>2, <2>1, SettledRows
        <3>2. question[asked].resolution \in {ANSWERED, EXPIRED, None}
            BY <1>1, <1>2 DEF QuestionTypeOK, Row
        <3> QED BY <1>1, <1>2, <2>1, <3>1, <3>2 DEF pending, QuestionTypeOK, ANSWERED, EXPIRED
    <2>2. CASE unread' = TRUE /\ UNCHANGED question
        BY <1>1, <1>2, <2>2 DEF QuestionTypeOK
    <2> QED BY <2>1, <2>2 DEF settle_question
<1>4. CASE Goto("closed") /\ carried' = Head(heard)
    BY <1>1, <1>2, <1>3, <1>4
       DEF QuestionInv, QuestionTypeOK, AskInv, ExpiryIsLast, AnswerOnRecord, QuestionEnded, Goto
<1>5. CASE RetryQuestion /\ UNCHANGED carried
    <2>1. /\ spent' \in 0..Attempts
          /\ (asks' = asks /\ spent' < Attempts) \/ asks' = "failed"
        BY <1>1, <1>2, <1>5, RetriedQuestion DEF QuestionEnded
    <2> QED BY <1>1, <1>2, <1>3, <1>5, <2>1
            DEF QuestionInv, QuestionTypeOK, AskInv, ExpiryIsLast, AnswerOnRecord, QuestionEnded
<1> QED BY <1>4, <1>5 DEF settle_question

LEMMA ExpireKeeps ==
    ASSUME QuestionInv, expire_question
    PROVE  QuestionInv'
<1>1. QuestionTypeOK /\ AskInv /\ Attempts \in Nat \ {0}
    BY QuestionAssumption DEF QuestionInv
<1>2. /\ asks = "expire" /\ asked \in Rows /\ question[asked].recorded /\ carried = None
      /\ UNCHANGED <<asked, heard, carried, reply>>
    BY <1>1 DEF expire_question, QuestionInv, QuestionTypeOK, AskInv
<1>3. question' \in [Rows -> Row] /\ question'[asked].recorded /\ unread' \in BOOLEAN
    <2>1. CASE Settle(asked, EXPIRED, None) /\ UNCHANGED unread
        BY <1>1, <1>2, <2>1, SettledRows DEF QuestionTypeOK
    <2>2. CASE unread' = TRUE /\ UNCHANGED question
        BY <1>1, <1>2, <2>2 DEF QuestionTypeOK
    <2> QED BY <2>1, <2>2 DEF expire_question
<1>4. /\ spent' \in 0..Attempts /\ asks' \in {"expire", "closed", "failed"}
      /\ asks' = "expire" => spent' < Attempts
    <2>1. CASE Goto("closed")
        BY <1>1, <2>1 DEF Goto
    <2>2. CASE RetryQuestion
        BY <1>1, <1>2, <2>2, RetriedQuestion DEF QuestionEnded
    <2> QED BY <2>1, <2>2 DEF expire_question
<1> QED BY <1>1, <1>2, <1>3, <1>4
        DEF QuestionInv, QuestionTypeOK, AskInv, ExpiryIsLast, AnswerOnRecord, QuestionEnded

\* What a sender is told is one of the words the bridge has.
LEMMA SettledReplyIsTold ==
    ASSUME NEW resolution \in {ANSWERED, EXPIRED, None}
    PROVE  SettledReply(resolution) \in {"UNKNOWN", "EXPIRED", "ALREADY_RESOLVED"}
BY DEF SettledReply

\* What the replies may be.
ReplyState ==
    [row : Rows, to : {"epic", "question"}, by : {"bridge", "cli"}, at : {"idle", "signal", "record", "over"},
     told : {"nothing", "UNKNOWN", "EXPIRED", "ALREADY_RESOLVED", "SIGNAL_FAILED", "RESOLVED", "SENT"}]

LEMMA RepliesStay ==
    ASSUME QuestionTypeOK, NEW m \in Replies,
           NEW told \in {"nothing", "UNKNOWN", "EXPIRED", "ALREADY_RESOLVED", "SIGNAL_FAILED", "RESOLVED", "SENT"},
           TellReply(m, told)
    PROVE  reply' \in [Replies -> ReplyState]
<1>1. reply \in [Replies -> ReplyState] /\ reply[m] \in ReplyState
    BY DEF QuestionTypeOK, ReplyState
<1>2. PICK new : new = [reply[m] EXCEPT !.at = "over", !.told = told]
    OBVIOUS
<1>3. reply' = [reply EXCEPT ![m] = new]
    BY <1>1, <1>2 DEF TellReply, ReplyState
<1>4. new \in ReplyState
    BY <1>1, <1>2 DEF ReplyState
<1> QED BY <1>1, <1>3, <1>4

LEMMA ReplyKeeps ==
    ASSUME QuestionInv, NEW m \in Replies, ReadQuestion(m) \/ _answer_signal(m) \/ _settle_question(m)
    PROVE  QuestionInv'
<1>1. QuestionTypeOK /\ reply \in [Replies -> ReplyState] /\ reply[m] \in ReplyState
    BY DEF QuestionInv, QuestionTypeOK, ReplyState
<1>2. question[reply[m].row] \in Row /\ reply[m].row \in Rows
    BY <1>1 DEF QuestionTypeOK, ReplyState
<1>3. UNCHANGED <<asks, asked, spent, carried, unread>>
    BY DEF ReadQuestion, _answer_signal, _settle_question
<1>4. CASE ReadQuestion(m)
    <2>1. reply' \in [Replies -> ReplyState]
        <3>1. CASE ~pending(question[reply[m].row])
            <4>1. SettledReply(question[reply[m].row].resolution)
                     \in {"UNKNOWN", "EXPIRED", "ALREADY_RESOLVED"}
                BY <1>2, SettledReplyIsTold DEF Row
            <4> QED BY <1>1, <1>4, <3>1, <4>1, RepliesStay DEF ReadQuestion
        <3>2. CASE pending(question[reply[m].row])
            BY <1>1, <1>2, <1>4, <3>2 DEF ReadQuestion, Row, ReplyState
        <3> QED BY <3>1, <3>2
    <2> QED BY <1>1, <1>3, <1>4, <2>1
            DEF QuestionInv, QuestionTypeOK, AskInv, ExpiryIsLast, AnswerOnRecord, ReplyState, ReadQuestion
<1>5. CASE _answer_signal(m)
    <2>1. reply' \in [Replies -> ReplyState]
        <3>1. CASE TellReply(m, "SIGNAL_FAILED") \/ TellReply(m, "SENT")
            BY <1>1, <3>1, RepliesStay
        <3>2. CASE reply' = [reply EXCEPT ![m].at = "record"]
            BY <1>1, <3>2 DEF ReplyState
        <3> QED BY <1>5, <3>1, <3>2 DEF _answer_signal
    <2>2. heard' \in Seq(Replies) /\ (heard # <<>> => heard' # <<>>) /\ UNCHANGED question
        <3>1. heard \in Seq(Replies) /\ Append(heard, m) \in Seq(Replies) /\ Append(heard, m) # <<>>
            BY SMTT(30), <1>1 DEF QuestionTypeOK
        <3>2. (heard' = heard \/ heard' = Append(heard, m)) /\ UNCHANGED question
            BY <1>5 DEF _answer_signal
        <3> QED BY <3>1, <3>2
    <2> QED BY <1>1, <1>3, <2>1, <2>2
            DEF QuestionInv, QuestionTypeOK, AskInv, ExpiryIsLast, AnswerOnRecord, ReplyState
<1>6. CASE _settle_question(m)
    <2>1. /\ question' \in [Rows -> Row]
          /\ \A q \in Rows : /\ question'[q].recorded = question[q].recorded
                             /\ ~pending(question[q]) => question'[q] = question[q]
                             /\ pending(question[q]) => question'[q].resolution \in {None, ANSWERED}
        <3>1. /\ question' \in [Rows -> Row]
              /\ \A q \in Rows : /\ question'[q].recorded = question[q].recorded
                                 /\ q # reply[m].row \/ ~pending(question[q]) => question'[q] = question[q]
                                 /\ q = reply[m].row /\ pending(question[q])
                                       => question'[q].resolution = ANSWERED
            BY <1>1, <1>2, <1>6, SettledRows DEF _settle_question
        <3> QED BY <3>1 DEF pending
    <2>2. reply' \in [Replies -> ReplyState] /\ UNCHANGED heard
        <3>1. SettledReply(question[reply[m].row].resolution) \in {"UNKNOWN", "EXPIRED", "ALREADY_RESOLVED"}
            BY <1>2, SettledReplyIsTold DEF Row
        <3> QED BY <1>1, <1>6, <3>1, RepliesStay DEF _settle_question
    <2>3. \A q \in Rows : question'[q].resolution = EXPIRED => question[q].resolution = EXPIRED
        BY <2>1, QuestionAssumption DEF EXPIRED, ANSWERED, pending
    <2>4. \A q \in Rows : question[q].resolution = ANSWERED => question'[q].resolution = ANSWERED
        BY <2>1 DEF pending
    <2> QED BY <1>1, <1>3, <2>1, <2>2, <2>3, <2>4
            DEF QuestionInv, QuestionTypeOK, AskInv, ExpiryIsLast, AnswerOnRecord, ReplyState
<1> QED BY <1>4, <1>5, <1>6

LEMMA QuestionAlways == QuestionSpec => []QuestionInv
<1>1. QuestionInit => QuestionInv
    <2> SUFFICES ASSUME QuestionInit PROVE QuestionInv
        OBVIOUS
    <2>1. Attempts \in Nat \ {0}
        BY QuestionAssumption
    <2>2. QuestionTypeOK
        <3>1. question \in [Rows -> Row]
            BY DEF QuestionInit, Row
        <3>2. reply \in [Replies -> ReplyState]
            BY DEF QuestionInit, ReplyState
        <3>3. /\ asks = "attempt" /\ asked = "own" /\ spent = 0 /\ heard = <<>> /\ carried = None
              /\ unread = FALSE
            BY DEF QuestionInit
        <3>4. asked \in Rows /\ spent \in 0..Attempts /\ heard \in Seq(Replies)
            BY <2>1, <3>3 DEF Rows
        <3> QED BY <3>1, <3>2, <3>3, <3>4 DEF QuestionTypeOK, ReplyState
    <2>3. \A r \in Rows : question[r].resolution = None
        BY DEF QuestionInit
    <2>4. AskInv /\ AnswerOnRecord
        BY <2>1 DEF QuestionInit, AskInv, AnswerOnRecord
    <2>5. ExpiryIsLast
        BY <2>3, QuestionAssumption DEF ExpiryIsLast
    <2> QED BY <2>2, <2>4, <2>5 DEF QuestionInv
<1>2. QuestionInv /\ [QuestionNext]_qvars => QuestionInv'
    <2> SUFFICES ASSUME QuestionInv, [QuestionNext]_qvars PROVE QuestionInv'
        OBVIOUS
    <2>1. CASE UNCHANGED qvars
        BY <2>1 DEF QuestionInv, QuestionTypeOK, AskInv, ExpiryIsLast, AnswerOnRecord, qvars
    <2> QED BY <2>1, FerryKeeps, AskKeeps, SettleKeeps, ExpireKeeps, ReplyKeeps DEF QuestionNext, QuestionSteps
<1> QED BY <1>1, <1>2, PTL DEF QuestionSpec

\* An answer the next attempt carries is on record: the row it asked about is
\* ANSWERED, unless the store could not be read (escalation/question.py).
THEOREM AnswerAlwaysOnRecord == QuestionSpec => []AnswerOnRecord
<1>1. QuestionInv => AnswerOnRecord
    BY DEF QuestionInv
<1> QED BY <1>1, QuestionAlways, PTL

\* A row is settled once, whoever races for it: its resolution and its text stay
\* (verify/store.py, settle_question).
THEOREM SettledRowAlwaysStays == QuestionSpec => SettledRowStays
<1>1. QuestionInv /\ [QuestionNext]_qvars
        => [\A r \in Rows : question[r].resolution # None
                => /\ question'[r].resolution = question[r].resolution
                   /\ question'[r].text = question[r].text]_qvars
    <2> SUFFICES ASSUME QuestionInv, QuestionNext, NEW r \in Rows, question[r].resolution # None
                 PROVE  /\ question'[r].resolution = question[r].resolution
                        /\ question'[r].text = question[r].text
        OBVIOUS
    <2>1. QuestionTypeOK /\ ~pending(question[r])
        BY DEF QuestionInv, pending
    <2>2. CASE UNCHANGED question
        BY <2>2
    <2>3. CASE \E q \in Rows, waiter \in {"epic", "question"} : RecordQuestion(q, waiter)
        BY <2>1, <2>3, RecordedRows
    <2>4. CASE \E q \in Rows, resolution \in {ANSWERED, EXPIRED}, text \in Replies \cup {None} :
                  Settle(q, resolution, text)
        BY <2>1, <2>4, SettledRows
    <2>5. \/ UNCHANGED question
          \/ \E q \in Rows, waiter \in {"epic", "question"} : RecordQuestion(q, waiter)
          \/ \E q \in Rows, resolution \in {ANSWERED, EXPIRED}, text \in Replies \cup {None} :
                Settle(q, resolution, text)
        <3>1. CASE ferry_send_question \/ send_question
            BY <2>1, <3>1 DEF ferry_send_question, send_question, Rows, QuestionTypeOK
        <3>2. CASE settle_question \/ expire_question
            <4>1. asked \in Rows /\ (asks = "settle" => Head(heard) \in Replies)
                BY <2>1 DEF QuestionInv, QuestionTypeOK, AskInv
            <4> QED BY <3>2, <4>1 DEF settle_question, expire_question
        <3>3. CASE \E m \in Replies : ReadQuestion(m) \/ _answer_signal(m) \/ _settle_question(m)
            <4>1. \A m \in Replies : reply[m].row \in Rows
                BY <2>1 DEF QuestionTypeOK
            <4> QED BY <3>3, <4>1 DEF ReadQuestion, _answer_signal, _settle_question
        <3>4. CASE ferry_read_answer \/ Degrade \/ find_ferried_question \/ Wake \/ CancelQuestion
            BY <3>4 DEF ferry_read_answer, Degrade, find_ferried_question, Wake, CancelQuestion, rest
        <3> QED BY <3>1, <3>2, <3>3, <3>4 DEF QuestionNext, QuestionSteps
    <2> QED BY <2>2, <2>3, <2>4, <2>5
<1>2. [][QuestionNext]_qvars /\ []QuestionInv => SettledRowStays
    BY <1>1, PTL DEF SettledRowStays
<1> QED BY <1>2, QuestionAlways, PTL DEF QuestionSpec
=============================================================================
