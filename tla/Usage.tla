-------------------------------- MODULE Usage --------------------------------
(***************************************************************************)
(* One attempt's key and what it is recorded to have cost: issuing and     *)
(* tearing down (factory/activities/usage_activities.py), the proxy's      *)
(* client, the runner's own measurements (factory/usage/runner.py), the    *)
(* ledger (factory/usage/ledger.py) and the launch journal                 *)
(* (factory/attestation/journal.py).  Both activities are retried and may  *)
(* die between any two of their effects; an execution is over before the   *)
(* next begins.  The proxy holds one live key per alias, counts spend as   *)
(* it serves, and writes its log later: one call, one token, one dollar.   *)
(***************************************************************************)
EXTENDS Integers, FiniteSets

CONSTANTS
    MaxKeys,      \* bound: keys the proxy mints for this alias
    MaxCalls,     \* bound: calls the agent makes
    MaxUsageTries,\* executions of an activity
    MaxSittings      \* executions of the agent's activity


VARIABLES
    route,        \* how the persona reaches its model
    live,         \* the keys the proxy honours
    minted,       \* how many it has minted
    calls, logged,\* what the agent was served, and what of it the log shows
    issuing,      \* issue_attempt_key
    lease,        \* what the workflow holds: a key, none, or no key at all
    agent,        \* the attempt
    files,        \* the runner's own measurements
    snapshot,     \* the spend read as the agent ended
    closing,      \* teardown_attempt
    row,          \* the ledger's record
    launch        \* the journal's

uvars == <<route, live, minted, calls, logged, issuing, lease, agent, files, snapshot, closing, row, launch>>

Unread == -1
Figure == Unread..MaxCalls
NotYet == -1
NoKey == 0
Statuses == {"none", "unknown", "partial", "complete"}
Reading == [spend : Figure, tokens : Figure, status : Statuses]
Blank == [spend |-> Unread, tokens |-> Unread, status |-> "none"]

UsageTypeOK ==
    /\ route \in {"gateway", "direct", "subscription"}
    /\ minted \in 0..MaxKeys /\ live \subseteq 1..minted /\ logged \in 0..calls /\ calls \in 0..MaxCalls
    /\ issuing \in [at : {"idle", "record", "find", "generate", "retry", "failed", "done"}, tries : 0..MaxUsageTries]
    /\ lease \in NotYet..MaxKeys
    /\ agent \in [at : {"off", "on", "over"}, runs : 0..MaxSittings, since : 0..MaxCalls, lost : BOOLEAN]
    /\ files \in [tokens : Figure, whole : BOOLEAN]
    /\ snapshot \in Figure
    /\ closing \in [at : {"idle", "read", "upsert", "link", "revoke", "retry", "failed", "done"}, tries : 0..MaxUsageTries,
                    reads : 0..3, previous : Figure, best : Reading]
    /\ row \in Reading
    /\ launch \in [known : BOOLEAN, linked : BOOLEAN, outcome : {"none", "issuance_failed"}]

UsageInit ==
    /\ route \in {"gateway", "direct", "subscription"}
    /\ live = {} /\ minted = 0 /\ calls = 0 /\ logged = 0
    /\ issuing = [at |-> "idle", tries |-> 0] /\ lease = NotYet
    /\ agent = [at |-> "off", runs |-> 0, since |-> 0, lost |-> FALSE]
    /\ files = [tokens |-> Unread, whole |-> TRUE] /\ snapshot = Unread
    /\ closing = [at |-> "idle", tries |-> 0, reads |-> 0, previous |-> Unread, best |-> Blank]
    /\ row = Blank /\ launch = [known |-> FALSE, linked |-> FALSE, outcome |-> "none"]

Proxy == <<live, minted>>
Served == <<calls, logged>>
Records == <<row, launch>>
Larger(a, b) == IF a > b THEN a ELSE b

-----------------------------------------------------------------------------
(* issue_attempt_key *)

\* The launch is on record before any key is; a retry keeps what it says.
record_launch ==
    /\ issuing.at \in {"idle", "retry"} /\ issuing.tries < MaxUsageTries
    /\ launch' = [launch EXCEPT !.known = TRUE]
    /\ issuing' = [at |-> "record", tries |-> issuing.tries + 1]
    /\ UNCHANGED <<route, Proxy, Served, lease, agent, files, snapshot, closing, row>>

\* A refusal is written down; a permanent one is not retried.
IssuanceFails(permanent) ==
    /\ launch' = [launch EXCEPT !.outcome = "issuance_failed"]
    /\ issuing' = [issuing EXCEPT !.at = IF permanent \/ issuing.tries = MaxUsageTries THEN "failed" ELSE "retry"]
    /\ UNCHANGED <<lease, live, minted>>

\* A subscription leases no key; direct mode leases the declared credential.
OpenBracket ==
    /\ issuing.at = "record"
    /\ \/ route # "gateway" /\ lease' = NoKey /\ issuing' = [issuing EXCEPT !.at = "done"]
          /\ UNCHANGED <<launch, Proxy>>
       \/ route # "subscription" /\ IssuanceFails(TRUE)        \* no credential
       \/ route = "gateway" /\ issuing' = [issuing EXCEPT !.at = "find"]
          /\ UNCHANGED <<launch, lease, Proxy>>
    /\ UNCHANGED <<route, Served, agent, files, snapshot, closing, row>>

\* Who holds the alias; a listing that fails says nobody does.  A key whose
\* epic cannot be read is another epic's, for good; revoking may fail unseen.
_maybe_recover_alias ==
    /\ issuing.at = "find"
    /\ \/ /\ issuing' = [issuing EXCEPT !.at = "generate"]
          /\ live' \in {live, {}} /\ UNCHANGED <<minted, launch, lease>>
       \/ live # {} /\ IssuanceFails(TRUE)
    /\ UNCHANGED <<route, Served, agent, files, snapshot, closing, row>>

\* A reply that is lost leaves a key behind, for the next execution to reclaim.
issue_key ==
    /\ issuing.at = "generate"
    /\ \/ IssuanceFails(FALSE)
       \/ /\ live = {} /\ minted < MaxKeys
          /\ minted' = minted + 1 /\ live' = {minted + 1}
          /\ \/ lease' = minted + 1 /\ issuing' = [issuing EXCEPT !.at = "done"] /\ UNCHANGED launch
             \/ /\ issuing' = [issuing EXCEPT !.at = IF issuing.tries = MaxUsageTries THEN "failed" ELSE "retry"]
                /\ launch' \in {launch, [launch EXCEPT !.outcome = "issuance_failed"]}
                /\ UNCHANGED lease
    /\ UNCHANGED <<route, Served, agent, files, snapshot, closing, row>>

-----------------------------------------------------------------------------
(* The attempt *)

BeginAttempt ==
    /\ lease # NotYet /\ agent.at = "off" /\ agent.runs < MaxSittings /\ closing.at = "idle"
    /\ agent' = [agent EXCEPT !.at = "on", !.runs = @ + 1, !.since = calls]
    /\ UNCHANGED <<route, Proxy, Served, issuing, lease, files, snapshot, closing, Records>>

Call ==
    /\ agent.at = "on" /\ calls < MaxCalls /\ (route = "gateway" => lease \in live)
    /\ calls' = calls + 1
    /\ UNCHANGED <<route, Proxy, logged, issuing, lease, agent, files, snapshot, closing, Records>>

\* The proxy's log catches up, whenever it does.
Log ==
    /\ route = "gateway" /\ logged < calls /\ logged' = logged + 1
    /\ UNCHANGED <<route, Proxy, calls, issuing, lease, agent, files, snapshot, closing, Records>>

\* The attempt's own transcript is measured as its execution ends, if it is
\* read whole; a worker that died measured nothing, and is run again.
archive_execution_usage ==
    /\ agent.at = "on"
    /\ \/ /\ agent' = [agent EXCEPT !.at = "over"]
          /\ IF route # "subscription" THEN UNCHANGED files
             ELSE \E whole \in BOOLEAN, seen \in 0..(calls - agent.since) :
                     /\ whole => seen = calls - agent.since
                     /\ files' = [tokens |-> Larger(files.tokens, 0) + seen, whole |-> files.whole /\ whole]
       \/ /\ agent' = [agent EXCEPT !.at = IF agent.runs < MaxSittings THEN "off" ELSE "over",
                                    !.lost = @ \/ calls > agent.since]
          /\ UNCHANGED files
    /\ UNCHANGED <<route, Proxy, Served, issuing, lease, snapshot, closing, Records>>

\* One reading of the spend, for teardown to fall back on.
poll_usage ==
    /\ agent.at = "over" /\ closing.at = "idle" /\ route = "gateway" /\ snapshot = Unread
    /\ snapshot' = calls
    /\ UNCHANGED <<route, Proxy, Served, issuing, lease, agent, files, closing, Records>>

-----------------------------------------------------------------------------
(* teardown_attempt *)

BeginTeardown ==
    /\ agent.at = "over" /\ closing.at \in {"idle", "retry"} /\ closing.tries < MaxUsageTries
    /\ closing' = [at |-> "read", tries |-> closing.tries + 1, reads |-> 0, previous |-> Unread, best |-> Blank]
    /\ UNCHANGED <<route, Proxy, Served, issuing, lease, agent, files, snapshot, Records>>

\* What the runner measured, for an attempt no proxy served.
read_attempt_usage ==
    /\ closing.at = "read" /\ route = "subscription"
    /\ closing' = [closing EXCEPT !.at = "upsert",
          !.best = IF files.tokens = Unread THEN Blank
                   ELSE [spend |-> Unread, tokens |-> files.tokens,
                         status |-> IF files.whole THEN "complete" ELSE "partial"]]
    /\ UNCHANGED <<route, Proxy, Served, issuing, lease, agent, files, snapshot, Records>>

\* Variant: two equal readings of the log are enough.
Consistent_stable(tokens, spend) == spend # Unread

Consistent(tokens, spend) == spend # Unread /\ tokens = spend

\* Up to three readings of the spend and of the log.  A key that is gone ends
\* them; only a log that is stable and agrees with the spend is complete.
_read_final_usage ==
    /\ closing.at = "read" /\ route # "subscription"
    /\ \/ route = "direct" /\ closing' = [closing EXCEPT !.at = "upsert"]      \* nobody to ask
       \/ lease \notin live /\ closing' = [closing EXCEPT !.at = "upsert"]
       \/ /\ lease \in live /\ closing.reads < 3
          /\ \E spend \in {calls, closing.best.spend}, read \in BOOLEAN :
                LET seen == [spend |-> spend, tokens |-> IF read /\ logged > 0 THEN Larger(logged, closing.best.tokens)
                                                         ELSE closing.best.tokens,
                             status |-> "partial"]
                    whole == read /\ logged > 0 /\ Consistent(logged, spend) /\ logged = closing.previous
                IN  closing' = [closing EXCEPT
                       !.reads = @ + 1, !.previous = IF read THEN logged ELSE Unread,
                       !.best = IF whole THEN [spend |-> spend, tokens |-> logged, status |-> "complete"] ELSE seen,
                       !.at = IF whole \/ closing.reads = 2 THEN "upsert" ELSE "read"]
       \/ lease \in live /\ closing' = [closing EXCEPT !.at = "upsert"]         \* it was refused
    /\ UNCHANGED <<route, Proxy, Served, issuing, lease, agent, files, snapshot, Records>>

_quality(record) == IF record.status = "complete" THEN 2 ELSE IF record.tokens # Unread THEN 1 ELSE 0

_record_for ==
    LET best == closing.best
    IN  [spend |-> IF best.spend # Unread THEN best.spend ELSE snapshot, tokens |-> best.tokens,
         status |-> IF best.status = "complete" THEN "complete"
                    ELSE IF best.tokens # Unread THEN "partial" ELSE "unknown"]

\* Variant: the last teardown's figures are the record.
upsert_record_plainly(old, new) == new

\* The better evidence of the two, and a cost once it is known.
upsert_record(old, new) ==
    IF old.status = "none" THEN new
    ELSE LET worse == _quality(old) > _quality(new)
         IN  [tokens |-> IF worse THEN old.tokens ELSE new.tokens,
              status |-> IF worse THEN old.status ELSE new.status,
              spend |-> IF old.spend # Unread /\ (new.spend = Unread \/ worse) THEN old.spend ELSE new.spend]

\* The row is durable before the key dies; a ledger that refuses it fails.
StoreRecord ==
    /\ closing.at = "upsert"
    /\ \/ row' = upsert_record(row, _record_for) /\ closing' = [closing EXCEPT !.at = "link"]
       \/ UNCHANGED row
          /\ closing' = [closing EXCEPT !.at = IF closing.tries = MaxUsageTries THEN "failed" ELSE "retry"]
    /\ UNCHANGED <<route, Proxy, Served, issuing, lease, agent, files, snapshot, launch>>

link_usage ==
    /\ closing.at = "link"
    /\ launch' = [launch EXCEPT !.linked = TRUE]
    /\ closing' = [closing EXCEPT !.at = "revoke"]
    /\ UNCHANGED <<route, Proxy, Served, issuing, lease, agent, files, snapshot, row>>

\* Variant: the key goes first.
TeardownDies_revoked ==
    /\ closing.at \in {"read", "upsert", "link", "revoke"}
    /\ live' = live \ {lease}
    /\ closing' = [closing EXCEPT !.at = IF closing.tries = MaxUsageTries THEN "failed" ELSE "retry"]
    /\ UNCHANGED <<route, minted, Served, issuing, lease, agent, files, snapshot, Records>>

\* An execution that dies anywhere is run again, until its budget is gone.
TeardownDies ==
    /\ closing.at \in {"read", "upsert", "link", "revoke"}
    /\ live' \in {live, IF closing.at = "revoke" THEN live \ {lease} ELSE live}
    /\ closing' = [closing EXCEPT !.at = IF closing.tries = MaxUsageTries THEN "failed" ELSE "retry"]
    /\ UNCHANGED <<route, minted, Served, issuing, lease, agent, files, snapshot, Records>>

_revoke_quietly ==
    /\ closing.at = "revoke"
    /\ live' \in {live, live \ {lease}}
    /\ closing' = [closing EXCEPT !.at = "done"]
    /\ UNCHANGED <<route, minted, Served, issuing, lease, agent, files, snapshot, Records>>

UsageNext ==
    \/ record_launch \/ OpenBracket \/ _maybe_recover_alias \/ issue_key
    \/ BeginAttempt \/ Call \/ Log \/ archive_execution_usage \/ poll_usage
    \/ BeginTeardown \/ read_attempt_usage \/ _read_final_usage \/ StoreRecord \/ link_usage
    \/ TeardownDies \/ _revoke_quietly

UsageSpec == UsageInit /\ [][UsageNext]_uvars

-----------------------------------------------------------------------------
(* Properties *)

\* The key an agent runs on is honoured while it runs, and is revoked by nobody
\* until the attempt's usage is in the ledger.
KeyOutlivesItsUse == lease > NoKey /\ row.status = "none" => lease \in live

\* What a record calls complete is all the attempt was served, unless a worker
\* died over an execution nobody else measures.
CompleteIsAll ==
    row.status = "complete" /\ ~(route = "subscription" /\ agent.lost) => row.tokens = calls

KeepsFigures ==
    row.status # "none" => /\ _quality(row') >= _quality(row)
                           /\ row.spend # Unread => row'.spend # Unread
                           /\ _quality(row) = 2 => row' = row

\* A teardown that is run again, with its key gone or its proxy away, never
\* makes the record worse, nor forgets a cost.
FiguresAreKept == [][KeepsFigures]_uvars
=============================================================================
