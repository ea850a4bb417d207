------------------------------- MODULE Question -----------------------------
(***************************************************************************)
(* One question an agent asks: the ferry that ships it while the attempt   *)
(* still runs (factory/workgraph/adapter.py), the QuestionWorkflow that    *)
(* takes over when the agent gives up waiting                              *)
(* (factory/escalation/question.py), and the replies that                  *)
(* CallbackBridge (factory/notify/service.py) routes by the row's          *)
(* workflow_id, or `ergane build answer` sends.                            *)
(*                                                                         *)
(* `asks` is the await of whoever is asking:                               *)
(*   attempt   the agent runs, with or without a ferried question          *)
(*   find, send, wait, settle, expire   QuestionWorkflow's                 *)
(*   resumed, closed, failed, cancelled   the endings                      *)
(***************************************************************************)
EXTENDS VerificationStore, FiniteSets

CONSTANTS
    Replies,          \* the replies the operators send; each is its own text
    Attempts          \* _RETRIES.maximum_attempts

ASSUME QuestionAssumption ==
    IsFiniteSet(Replies) /\ None \notin Replies \cup {ANSWERED, EXPIRED} /\ Attempts \in Nat \ {0}

VARIABLES
    question,    \* the rows: the one the ferry wrote and the workflow's own
    asks, asked, \* the await, and which row it asks about
    spent,       \* the running activity's failed attempts
    heard,       \* self._replies
    carried,     \* the text the agent or the next attempt carries, or None
    reply,       \* the replies in flight and what their senders were told
    unread       \* history: a store read failed

qvars == <<question, asks, asked, spent, heard, carried, reply, unread>>
rest  == <<question, heard, carried, reply, unread>>

Rows == {"ferried", "own"}
QuestionEnded == {"resumed", "closed", "failed", "cancelled"}
Row == [recorded : BOOLEAN, resolution : {ANSWERED, EXPIRED, None}, text : Replies \cup {None},
        workflow_id : {"epic", "question"}]

QuestionTypeOK ==
    /\ question \in [Rows -> Row]
    /\ asks \in {"attempt", "find", "send", "wait", "settle", "expire"} \cup QuestionEnded
    /\ asked \in Rows /\ spent \in 0..Attempts
    /\ heard \in Seq(Replies) /\ carried \in Replies \cup {None} /\ unread \in BOOLEAN
    /\ reply \in [Replies -> [row : Rows, to : {"epic", "question"}, by : {"bridge", "cli"},
                              at : {"idle", "signal", "record", "over"},
                              told : {"nothing", "UNKNOWN", "EXPIRED", "ALREADY_RESOLVED",
                                      "SIGNAL_FAILED", "RESOLVED", "SENT"}]]

QuestionInit ==
    /\ question = [r \in Rows |-> [recorded |-> FALSE, resolution |-> None, text |-> None,
                                   workflow_id |-> "epic"]]
    /\ asks = "attempt" /\ asked = "own" /\ spent = 0 /\ heard = <<>> /\ carried = None
    /\ reply \in [Replies -> [row : Rows, to : {"epic"}, by : {"bridge", "cli"},
                              at : {"idle"}, told : {"nothing"}]]
    /\ unread = FALSE

-----------------------------------------------------------------------------
(* The attempt and its ferry. *)

Goto(await) == asks' = await /\ spent' = 0

RecordQuestion(r, waiter) ==
    question' = [question EXCEPT ![r].recorded = TRUE, ![r].workflow_id = waiter]

\* The monitor sees the question file: the row is written and the page sent,
\* routed to the epic's workflow, which is the one that is running.
ferry_send_question ==
    /\ asks = "attempt" /\ ~question["ferried"].recorded
    /\ RecordQuestion("ferried", "epic")
    /\ UNCHANGED <<asks, asked, spent, heard, carried, reply, unread>>

\* A poll finds the answer and writes it beside the agent, which carries on.
ferry_read_answer ==
    /\ asks = "attempt" /\ question["ferried"].resolution # None
    /\ carried' = question["ferried"].text /\ Goto("resumed")
    /\ UNCHANGED <<question, asked, heard, reply, unread>>

\* The agent stops waiting (or never used the ferry) and leaves its marker.
Degrade ==
    /\ asks = "attempt" /\ Goto("find")
    /\ UNCHANGED <<asked, rest>>

-----------------------------------------------------------------------------
(* QuestionWorkflow. *)

\* The pending row of this attempt, if the store can be read.
find_ferried_question ==
    /\ asks = "find" /\ Goto("send")
    /\ \/ /\ asked' = IF pending(question["ferried"]) THEN "ferried" ELSE "own"
          /\ UNCHANGED unread
       \/ asked' = "own" /\ unread' = TRUE
    /\ UNCHANGED <<question, heard, carried, reply>>

RetryQuestion ==
    /\ spent' = spent + 1
    /\ asks' = IF spent' = Attempts THEN "failed" ELSE asks

\* A pending row is adopted: its reply route moves to this workflow.  No row is
\* a fresh one.  A row that was settled since cannot be inserted again.
send_question ==
    /\ asks = "send"
    /\ LET row == question[asked]
       IN  \/ /\ pending(row) \/ ~row.recorded
              /\ RecordQuestion(asked, "question")
              /\ Goto("wait") \/ RetryQuestion
           \/ row.resolution # None /\ UNCHANGED question /\ RetryQuestion
    /\ UNCHANGED <<asked, heard, carried, reply, unread>>

\* Variant: the wait has no window.
Wake_answered ==
    /\ asks = "wait" /\ heard # <<>> /\ Goto("settle")
    /\ UNCHANGED <<asked, rest>>

Wake ==
    /\ asks = "wait" /\ Goto(IF heard # <<>> THEN "settle" ELSE "expire")
    /\ UNCHANGED <<asked, rest>>

Settle(r, resolution, text) ==
    question' = [question EXCEPT ![r] =
                    IF pending(@) THEN [transition(@, resolution) EXCEPT !.text = text] ELSE @]

\* Variant: the row settled is the workflow's own, also when it adopted another.
settle_question_unadopted ==
    /\ asks = "settle"
    /\ \/ Settle("own", ANSWERED, Head(heard)) /\ UNCHANGED unread
       \/ unread' = TRUE /\ UNCHANGED question
    /\ \/ Goto("closed") /\ carried' = Head(heard)
       \/ RetryQuestion /\ UNCHANGED carried
    /\ UNCHANGED <<asked, heard, reply>>

\* The first reply is the answer, whatever the row says by now.
settle_question ==
    /\ asks = "settle"
    /\ \/ Settle(asked, ANSWERED, Head(heard)) /\ UNCHANGED unread
       \/ unread' = TRUE /\ UNCHANGED question
    /\ \/ Goto("closed") /\ carried' = Head(heard)
       \/ RetryQuestion /\ UNCHANGED carried
    /\ UNCHANGED <<asked, heard, reply>>

\* The window's end is EXPIRED, whatever the row says by now.
expire_question ==
    /\ asks = "expire"
    /\ \/ Settle(asked, EXPIRED, None) /\ UNCHANGED unread
       \/ unread' = TRUE /\ UNCHANGED question
    /\ Goto("closed") \/ RetryQuestion
    /\ UNCHANGED <<asked, heard, carried, reply>>

\* The epic is killed and cancels the question.
CancelQuestion ==
    /\ asks \in {"find", "send", "wait", "settle", "expire"} /\ Goto("cancelled")
    /\ UNCHANGED <<asked, rest>>

-----------------------------------------------------------------------------
(* Replies. *)

TellReply(m, told) == reply' = [reply EXCEPT ![m].at = "over", ![m].told = told]

SettledReply(resolution) ==
    CASE resolution = None -> "UNKNOWN" [] resolution = EXPIRED -> "EXPIRED"
      [] OTHER -> "ALREADY_RESOLVED"

\* The row names the workflow the reply will be signalled to.
ReadQuestion(m) ==
    /\ reply[m].at = "idle"
    /\ LET row == question[reply[m].row]
       IN  IF ~pending(row) THEN TellReply(m, SettledReply(row.resolution))
           ELSE reply' = [reply EXCEPT ![m].at = "signal", ![m].to = row.workflow_id]
    /\ UNCHANGED <<question, asks, asked, spent, heard, carried, unread>>

\* The epic has no handler for an answer, and takes the signal all the same.
_answer_signal(m) ==
    /\ reply[m].at = "signal"
    /\ \/ TellReply(m, "SIGNAL_FAILED") /\ UNCHANGED heard
       \/ /\ reply[m].to = "question" => asks \in {"send", "wait", "settle", "expire"}
          /\ heard' = IF reply[m].to = "question" THEN Append(heard, m) ELSE heard
          /\ IF reply[m].by = "cli" THEN TellReply(m, "SENT")
             ELSE reply' = [reply EXCEPT ![m].at = "record"]
    /\ UNCHANGED <<question, asks, asked, spent, carried, unread>>

_settle_question(m) ==
    /\ reply[m].at = "record"
    /\ LET row == question[reply[m].row]
       IN  /\ Settle(reply[m].row, ANSWERED, m)
           /\ TellReply(m, IF pending(row) THEN "RESOLVED" ELSE SettledReply(row.resolution))
    /\ UNCHANGED <<asks, asked, spent, heard, carried, unread>>

-----------------------------------------------------------------------------
QuestionSteps == Degrade \/ find_ferried_question \/ send_question \/ Wake \/ settle_question
                 \/ expire_question
QuestionNext ==
    \/ ferry_send_question \/ ferry_read_answer \/ QuestionSteps \/ CancelQuestion
    \/ \E m \in Replies : ReadQuestion(m) \/ _answer_signal(m) \/ _settle_question(m)

\* An agent ends its attempt sooner or later, and Temporal runs what is scheduled.
QuestionFair == WF_qvars(QuestionSteps)
QuestionSpec == QuestionInit /\ [][QuestionNext]_qvars /\ QuestionFair

-----------------------------------------------------------------------------
(* Properties *)

\* An answer the next attempt carries from QuestionWorkflow is on record: the
\* row it asked about ends ANSWERED, never EXPIRED and never still pending,
\* unless the store could not be read.
AnswerOnRecord ==
    asks = "closed" /\ carried # None /\ ~unread => question[asked].resolution = ANSWERED

\* A row is settled once: neither its resolution nor its text ever changes again.
SettledRowStays ==
    [][\A r \in Rows : question[r].resolution # None
            => /\ question'[r].resolution = question[r].resolution
               /\ question'[r].text = question[r].text]_qvars

\* A question ends: somebody answers it, or its window does.
QuestionEnds == <>(asks \in QuestionEnded)

\* What the bridge tells a reply it recorded: "the next attempt will carry it".
\* (A window that ends the question first carries no reply at all.)
RecordedReplyCarried ==
    \A m \in Replies : reply[m].told = "RESOLVED" /\ carried # None => carried = m
=============================================================================
