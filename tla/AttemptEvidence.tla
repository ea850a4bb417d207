--------------------------- MODULE AttemptEvidence ---------------------------
(***************************************************************************)
(* What is made of the words of one attempt's agent: the home and the      *)
(* archive files run_attempt prepares (factory/workgraph/adapter.py), the  *)
(* event stream as codex_events.py decodes it, and the three readings of   *)
(* it: the termination (agent_activities.py), the operator's question      *)
(* (verify/question.py) and the usage (usage/codex_evidence.py).           *)
(*                                                                         *)
(* An attempt is executed again when its worker dies, in the same home and *)
(* the same archive directory.  A line of the stream is its kind and what  *)
(* the readings tell apart of its body.                                    *)
(***************************************************************************)
EXTENDS Naturals, FiniteSets, SequencesExt

CONSTANTS
    MaxRuns,       \* bound: executions of the activity
    MaxLines,      \* bound: lines the agents write, all executions together
    RawLines       \* CODEX_RAW_MAX_BYTES, in lines

VARIABLES
    setup,         \* the CLI and the route of its attempt
    home,          \* what the node's home names a provider or a credential with
    archive,       \* the attempt's transcript directory
    exec,          \* the activity's execution
    emitted        \* history: what this execution's agent wrote, whole lines and all

tvars == <<setup, home, archive, exec, emitted>>

Line(kind, bodies) == [kind : {kind}, body : bodies]
CodexLines ==
    Line("thread", {"t1", "t2"}) \cup Line("message", {"says", "asks"})
    \cup Line("error", {"refused", "other"}) \cup Line("failed", {"refused", "other"})
    \cup Line("completed", {"full", "partial", "malformed"}) \cup Line("unknown", {""}) \cup Line("garbage", {"refused", ""})
ClaudeLines == Line("message", {"says", "asks"}) \cup Line("garbage", {"refused", ""})
Partial == [kind |-> "partial", body |-> ""]
Terminations == {"none", "completed", "agent_error", "pre_agent_failure", "timeout", "killed", "auth_failure"}

EvidenceTypeOK ==
    /\ setup \in [cli : {"codex", "claude"}, route : {"gateway", "subscription"}]
    /\ home \subseteq {"auth.json", "config.toml", ".credentials.json"}
    /\ DOMAIN archive = {"events", "plain", "stderr", "over", "by", "kept"}
    /\ Len(archive.events) <= MaxLines + 1 /\ Len(archive.plain) <= MaxLines + 1
    /\ archive.stderr \in BOOLEAN /\ archive.over \in BOOLEAN
    /\ archive.by \in 0..MaxRuns /\ archive.kept \subseteq 1..MaxRuns
    /\ exec \in [n : 1..MaxRuns, at : {"start", "open", "run", "ended", "classify", "returned", "raised"},
                 launched : BOOLEAN, termination : Terminations, retained : BOOLEAN, told : 0..MaxRuns,
                 lines : 0..MaxLines]
    /\ Len(emitted) <= MaxLines + 1

Start(n, lines) == [n |-> n, at |-> "start", launched |-> FALSE, termination |-> "none", retained |-> FALSE,
                    told |-> 0, lines |-> lines]

\* Other rungs of the node's ladder may have left their own in the home.
EvidenceInit ==
    /\ setup \in [cli : {"codex", "claude"}, route : {"gateway", "subscription"}]
    /\ home \in {{}, {"auth.json"}, {"config.toml"}, {".credentials.json"}}
    /\ archive = [events |-> <<>>, plain |-> <<>>, stderr |-> FALSE, over |-> FALSE, by |-> 0, kept |-> {}]
    /\ exec = Start(1, 0) /\ emitted = <<>>

-----------------------------------------------------------------------------
(* The decoder *)

Nothing == [thread |-> "none", outcome |-> "none", messages |-> <<>>, fatal |-> <<>>, usage |-> "none", reasons |-> {}]
Reason(e, code) == [e EXCEPT !.reasons = @ \cup {code}]

\* Variant: a second terminal replaces the first.
_record_terminal_again(e, outcome) == [e EXCEPT !.outcome = outcome]

\* One turn ends once.
_record_terminal(e, outcome) ==
    IF e.outcome = "none" THEN [e EXCEPT !.outcome = outcome] ELSE Reason(e, "duplicate-terminal")

_decode_usage(e, body) ==
    IF "duplicate-terminal" \in e.reasons THEN e
    ELSE [e EXCEPT !.usage = body, !.reasons = @ \cup (IF body = "malformed" THEN {"malformed-usage"} ELSE {})]

\* What is not of the stream's own thread is left out, with its reason.
_decode_line(e, l) ==
    CASE l.kind = "thread" /\ e.thread \in {"none", l.body} -> [e EXCEPT !.thread = l.body]
      [] l.kind = "thread" /\ e.thread \notin {"none", l.body} -> Reason(e, "cross-thread-event")
      [] l.kind = "message" -> [e EXCEPT !.messages = Append(@, l.body)]
      [] l.kind = "error" -> [e EXCEPT !.fatal = Append(@, l)]
      [] l.kind = "failed" -> [_record_terminal(e, "failed") EXCEPT !.fatal = Append(@, l)]
      [] l.kind = "completed" -> _decode_usage(_record_terminal(e, "completed"), l.body)
      [] l.kind = "unknown" -> Reason(e, "unknown-event")
      [] l.kind = "garbage" -> Reason(e, "invalid-json")
      [] l.kind = "partial" -> Reason(e, "unterminated-line")

finish(e) == IF e.thread = "none" THEN Reason(e, "missing-thread-start") ELSE e
decode_codex_events(lines) == finish(FoldLeft(_decode_line, Nothing, lines))

complete(e) == e.reasons = {}
final_message(e) == IF e.messages = <<>> THEN "none" ELSE e.messages[Len(e.messages)]
agent_took_a_turn(e) == e.messages # <<>>

-----------------------------------------------------------------------------
(* The readings *)

_current_evidence == decode_codex_events(archive.events)

\* The first error that a turn's failure follows decides, if the two say the same.
_typed_codex_auth_outcome(e, unchanged) ==
    LET Pairs == {p \in (1..Len(e.fatal)) \X (1..Len(e.fatal)) :
                     /\ p[1] < p[2] /\ e.fatal[p[1]].kind = "error" /\ e.fatal[p[2]].kind = "failed"
                     /\ \A k \in 1..Len(e.fatal) : k < p[1] => e.fatal[k].kind # "error"
                     /\ \A k \in p[1] + 1..p[2] - 1 : e.fatal[k].kind # "failed"}
        refuses(p) == e.fatal[p[1]].body = "refused" /\ e.fatal[p[2]].body = "refused"
    IN  IF complete(e) /\ \E p \in Pairs : refuses(p) THEN "auth_failure" ELSE unchanged

\* The CLI's own complaint, where no stream says who speaks.
Marked == archive.stderr \/ \E i \in DOMAIN archive.plain : archive.plain[i] = "refused"

\* Variant: a marker anywhere outweighs the stream.
_classify_auth_failure_by_marker(t) ==
    IF t \in {"agent_error", "pre_agent_failure"} /\ Marked THEN "auth_failure" ELSE t

_classify_auth_failure(t) ==
    LET e == _current_evidence
    IN  IF t \notin {"agent_error", "pre_agent_failure"} THEN t
        ELSE IF setup.cli = "codex" /\ (e.thread # "none" \/ e.fatal # <<>>)
        THEN _typed_codex_auth_outcome(e, t)
        ELSE IF Marked THEN "auth_failure" ELSE t

\* A pre-agent failure quotes the stream's last fatal event, or the log's last line.
_attach_pre_agent_detail(t) ==
    LET e == _current_evidence
    IN  IF t \notin {"pre_agent_failure", "auth_failure"} THEN exec.told
        ELSE IF (complete(e) /\ e.fatal # <<>>) \/ archive.plain # <<>> THEN archive.by
        ELSE exec.told

\* The agent's last message asks, or its log does where there is no stream.
detect_operator_question ==
    IF setup.cli = "codex" THEN final_message(_current_evidence) = "asks"
    ELSE \E i \in DOMAIN archive.plain : archive.plain[i] = "asks"

normalize_codex_usage == complete(_current_evidence) /\ _current_evidence.usage = "full"

-----------------------------------------------------------------------------
(* An execution *)

Step(place) == exec' = [exec EXCEPT !.at = place]
Ends(place, termination) == exec' = [exec EXCEPT !.at = place, !.termination = termination]

\* No credential, or one that is not admitted: no agent could be run.
CredentialRefused ==
    /\ exec.at = "start" /\ setup.route = "subscription"
    /\ Step("raised") /\ UNCHANGED <<setup, home, archive, emitted>>

\* Claude's copy has expired, or the previous agent cannot be proved dead.
NotLaunched ==
    /\ exec.at = "start"
    /\ \E fence \in BOOLEAN :
          /\ ~fence => setup = [cli |-> "claude", route |-> "subscription"]
          /\ exec' = [exec EXCEPT !.at = "classify", !.termination = "pre_agent_failure", !.retained = fence,
                                  !.told = exec.n]
    /\ UNCHANGED <<setup, home, archive, emitted>>

\* A Claude home holds a subscription's credential.
_seed_node_home == home \cup (IF setup.route = "subscription" THEN {".credentials.json"} ELSE {})

_seed_codex_config == (home \ {"auth.json"}) \cup {"config.toml"}

\* Variant: what another route left in the home stays.
_seed_codex_home_over == home \cup (IF setup.route = "gateway" THEN {"config.toml"} ELSE {"auth.json"})

\* A Codex home names the route's own provider and no other.
_seed_codex_home ==
    IF setup.route = "gateway" THEN _seed_codex_config ELSE (home \ {"config.toml"}) \cup {"auth.json"}

Seed ==
    /\ exec.at = "start" /\ Step("open")
    /\ home' = IF setup.cli = "claude" THEN _seed_node_home ELSE _seed_codex_home
    /\ UNCHANGED <<setup, archive, emitted>>

\* Variant: the files are opened to append to.
_open_invocation_appending == [archive EXCEPT !.by = exec.n]

\* What an earlier execution wrote is put aside, the newest of it kept.
_open_invocation ==
    LET kept == archive.kept \cup (IF archive.events # <<>> \/ archive.plain # <<>> THEN {archive.by} ELSE {})
    IN  [archive EXCEPT !.events = <<>>, !.plain = <<>>, !.stderr = FALSE, !.over = FALSE, !.by = exec.n,
                        !.kept = {k \in kept : \A j \in kept : j <= k}]

Open ==
    /\ exec.at = "open"
    /\ archive' = _open_invocation /\ emitted' = <<>>
    /\ \/ exec' = [exec EXCEPT !.at = "run", !.launched = TRUE]
       \/ Step("raised")                       \* no backend, no binary
    /\ UNCHANGED <<setup, home>>

Writes(l) ==
    /\ emitted' = Append(emitted, l)
    /\ archive' = IF setup.cli = "codex" THEN [archive EXCEPT !.events = Append(@, l)]
                  ELSE [archive EXCEPT !.plain = Append(@, l.body)]

Emit ==
    /\ exec.at = "run" /\ exec.lines < MaxLines
    /\ \E l \in IF setup.cli = "codex" THEN CodexLines ELSE ClaudeLines : Writes(l)
    /\ exec' = [exec EXCEPT !.lines = @ + 1]
    /\ UNCHANGED <<setup, home>>

Complains ==
    /\ exec.at = "run" /\ setup.cli = "codex" /\ ~archive.stderr
    /\ archive' = [archive EXCEPT !.stderr = TRUE]
    /\ UNCHANGED <<setup, home, exec, emitted>>

\* Has the agent had its turn?  Claude's session file says so, Codex's stream.
_turn_happened ==
    IF setup.cli = "codex" THEN agent_took_a_turn(_current_evidence)
    ELSE \E i \in DOMAIN emitted : emitted[i].kind = "message"

\* Variant: how long the process ran is all that counts.
_failure_class_by_the_clock(late) == IF late THEN "agent_error" ELSE "pre_agent_failure"

_failure_class(late) == IF late \/ _turn_happened THEN "agent_error" ELSE "pre_agent_failure"

AgentExits ==
    /\ exec.at = "run"
    /\ \E t \in {"completed", _failure_class(TRUE), _failure_class(FALSE)} : Ends("ended", t)
    /\ UNCHANGED <<setup, home, archive, emitted>>

\* Killed in the middle of a line or between two.
Killed(t) ==
    /\ exec.at = "run" /\ Ends("ended", t)
    /\ \/ UNCHANGED <<archive, emitted>>
       \/ setup.cli = "codex" /\ Writes(Partial)
    /\ UNCHANGED <<setup, home>>

TimesOut == Killed("timeout")
Cancelled == Killed("killed")

\* The next execution finds what this one left.
WorkerDies ==
    /\ exec.at \notin {"returned", "raised"} /\ exec.n < MaxRuns
    /\ exec' = Start(exec.n + 1, exec.lines) /\ emitted' = <<>>
    /\ \/ UNCHANGED archive
       \/ exec.at = "run" /\ setup.cli = "codex" /\ archive' = [archive EXCEPT !.events = Append(@, Partial)]
    /\ UNCHANGED <<setup, home>>

\* The log is the last message, or what never was a stream.
_archive_final_message ==
    LET e == _current_evidence
    IN  IF e.messages # <<>> THEN <<final_message(e)>>
        ELSE IF archive.events # <<>> /\ \A i \in DOMAIN archive.events : archive.events[i].kind \in {"garbage", "partial"}
                /\ "invalid-json" \in e.reasons
        THEN [i \in DOMAIN archive.events |-> archive.events[i].body] ELSE <<>>

\* What is longer than the limit is cut there, as a rule within a line.
_finish_raw_files(plain) ==
    IF Len(archive.events) <= RawLines THEN {[archive EXCEPT !.plain = plain]}
    ELSE LET head == SubSeq(archive.events, 1, RawLines)
         IN  {[archive EXCEPT !.plain = plain, !.over = TRUE, !.events = events] : events \in {head, Append(head, Partial)}}

\* The group is proved dead and its evidence put in order; a cancelled attempt
\* is not classified.
Finalize ==
    /\ exec.at = "ended"
    /\ IF setup.cli = "codex" THEN archive' \in _finish_raw_files(_archive_final_message) ELSE UNCHANGED archive
    /\ Step(IF exec.termination = "killed" THEN "returned" ELSE "classify")
    /\ UNCHANGED <<setup, home, emitted>>

\* Or it is not: the candidate is put in quarantine and the files stay as they are.
Retain ==
    /\ exec.at = "ended"
    /\ exec' = [exec EXCEPT !.at = "classify", !.retained = TRUE, !.told = exec.n,
                            !.termination = IF @ = "killed" THEN "agent_error" ELSE @]
    /\ home' = IF setup.cli = "claude" THEN home
               ELSE home \ {IF setup.route = "gateway" THEN "config.toml" ELSE "auth.json"}
    /\ UNCHANGED <<setup, archive, emitted>>

Classify ==
    /\ exec.at = "classify"
    /\ LET t == _classify_auth_failure(exec.termination)
       IN  exec' = [exec EXCEPT !.at = "returned", !.termination = t, !.told = _attach_pre_agent_detail(t)]
    /\ UNCHANGED <<setup, home, archive, emitted>>

EvidenceNext ==
    \/ CredentialRefused \/ NotLaunched \/ Seed \/ Open \/ Emit \/ Complains \/ AgentExits \/ TimesOut \/ Cancelled
    \/ WorkerDies \/ Finalize \/ Retain \/ Classify

EvidenceSpec == EvidenceInit /\ [][EvidenceNext]_tvars

-----------------------------------------------------------------------------
(* Properties *)

Returned == exec.at = "returned"
Emitted(kind, body) == \E i \in DOMAIN emitted : emitted[i] = [kind |-> kind, body |-> body]
Said == {i \in DOMAIN emitted : emitted[i].kind = "message"}

\* The outcome of an execution that had its agent is that agent's, whatever an
\* earlier one left: one that said something is not a failure before the agent,
\* a refused credential is that CLI's own complaint, and it is quoted itself;
\* unless the stream outgrew its file.
OutcomeIsOwn ==
    Returned /\ exec.launched /\ ~archive.over =>
        /\ exec.termination = "pre_agent_failure" => Said = {}
        /\ exec.termination = "auth_failure" =>
              \/ Emitted("error", "refused") /\ Emitted("failed", "refused")
              \/ /\ archive.stderr \/ Emitted("garbage", "refused")
                 /\ \A i \in DOMAIN emitted : emitted[i].kind \notin {"thread", "error", "failed"}
        /\ exec.told \in {0, exec.n}

\* The same of an execution that ended before it had an agent.
NoOutcomeIsInherited == Returned /\ ~exec.launched => exec.termination = "pre_agent_failure" /\ exec.told = exec.n

\* A usage reported complete is of a stream that was read to its end: one turn
\* ended, once, and every figure is there; unless the stream outgrew its file.
CompleteIsWhole ==
    Returned /\ setup.cli = "codex" /\ exec.launched /\ ~archive.over /\ normalize_codex_usage =>
        /\ \E i \in DOMAIN emitted : \A j \in DOMAIN emitted :
              /\ emitted[i] = [kind |-> "completed", body |-> "full"]
              /\ emitted[j].kind \in {"completed", "failed"} => i = j
        /\ ~ (Emitted("thread", "t1") /\ Emitted("thread", "t2"))

\* The operator is asked what the agent asked last, and nothing it took back;
\* unless the stream outgrew its file.
QuestionIsLast ==
    Returned /\ setup.cli = "codex" /\ exec.launched /\ ~archive.over =>
        (detect_operator_question <=>
            \E i \in Said : emitted[i].body = "asks" /\ \A j \in Said : j <= i)

\* A Codex agent finds its own route in its home and no other.
HomeNamesItsRoute ==
    exec.at = "run" /\ setup.cli = "codex" =>
        /\ "auth.json" \in home <=> setup.route = "subscription"
        /\ "config.toml" \in home <=> setup.route = "gateway"
=============================================================================
