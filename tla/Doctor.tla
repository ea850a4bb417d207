------------------------------- MODULE Doctor -------------------------------
(***************************************************************************)
(* The findings ledger (factory/doctor/store.py), the operator's commands  *)
(* over it (factory/cli/doctor.py, factory/doctor/cli.py), the triage of   *)
(* open findings (factory/doctor/triage.py) and the specifications they    *)
(* are promoted into (factory/doctor/scaffold.py).  Several commands may   *)
(* run at once.  sqlite3 opens its transaction at the first write, so what *)
(* a function selects before it writes may have changed by then.           *)
(***************************************************************************)
EXTENDS Integers, FiniteSets

CONSTANTS
    Keys,         \* the findings' keys
    Kin,          \* those of them that share a prefix and a source
    Slugs,        \* specification directories
    Commands,     \* the commands that may run at once
    Observations, \* identities of historical observations
    MinMembers,   \* how many kin make one fragmented class
    ColdDays,     \* how long a finding seen once stays warm
    MaxSightings, \* bound: how often a key is reported
    MaxDay        \* bound: the clock

VARIABLES
    rows,         \* the findings table
    trail,        \* finding_events: how many of each kind a key has
    ingested,     \* the observations already applied
    specs,        \* the specification directories
    ops,          \* the commands
    day

dvars == <<rows, trail, ingested, specs, ops, day>>

Statuses == {"none", "open", "promoted", "resolved", "regressed"}
Undated == 0
Closing == [key : Keys, by : SUBSET Slugs]
Idle == [at |-> "idle", todo |-> {}, holds |-> {}, keys |-> {}, slug |-> {}]

DoctorTypeOK ==
    /\ rows \in [Keys -> [status : Statuses, seen : 0..MaxDay, occurrences : 0..MaxSightings,
                          promoted_spec : SUBSET Slugs, resolution : SUBSET Slugs]]
    /\ trail \in [Keys -> [resolved : Nat, regressed : Nat]]
    /\ ingested \subseteq Observations /\ day \in 1..MaxDay
    /\ specs \in [Slugs -> [state : {"none", "draft", "landed"}, fixes : SUBSET Keys,
                            prose : SUBSET Keys, dated : Undated..MaxDay]]
    /\ \A c \in Commands :
           /\ ops[c].at \in {"idle", "sweep", "ready", "close", "scaffold", "record", "write"}
           /\ ops[c].todo \subseteq Closing /\ ops[c].holds \subseteq Closing
           /\ ops[c].keys \subseteq Keys /\ ops[c].slug \subseteq Slugs

DoctorInit ==
    /\ rows = [k \in Keys |-> [status |-> "none", seen |-> 0, occurrences |-> 0, promoted_spec |-> {}, resolution |-> {}]]
    /\ trail = [k \in Keys |-> [resolved |-> 0, regressed |-> 0]]
    /\ ingested = {} /\ day = 1
    /\ specs = [s \in Slugs |-> [state |-> "none", fixes |-> {}, prose |-> {}, dated |-> Undated]]
    /\ ops = [c \in Commands |-> Idle]

At(c, place) == ops[c].at = place
Goto(c, place) == ops' = [ops EXCEPT ![c].at = place]
Status(k) == rows[k].status
Ledger == <<rows, trail, ingested>>
World == <<specs, day>>

-----------------------------------------------------------------------------
(* The specifications: people land them, declare what they fix, date them *)

Tick == day < MaxDay /\ day' = day + 1 /\ UNCHANGED <<Ledger, specs, ops>>

Land ==
    /\ \E s \in Slugs, more \in SUBSET Keys, named \in SUBSET Keys, dated \in {Undated, day} :
          /\ specs[s].state = "draft"
          /\ specs' = [specs EXCEPT ![s] = [state |-> "landed", fixes |-> @.fixes \cup more,
                                            prose |-> @.prose \cup named, dated |-> dated]]
    /\ UNCHANGED <<Ledger, ops, day>>

Landed(s) == specs[s].state = "landed"

-----------------------------------------------------------------------------
(* The store's operations *)

_insert_event(k, kind) == trail' = [trail EXCEPT ![k][kind] = @ + 1]

\* The event's kind is told from the trail: the row has been written already.
\* Variant: any key that was ever resolved recurs.
report_ever(k) ==
    /\ rows[k].occurrences < MaxSightings
    /\ rows' = [rows EXCEPT ![k].status = CASE @ = "none" -> "open" [] @ = "resolved" -> "regressed" [] OTHER -> @,
                            ![k].occurrences = @ + 1, ![k].seen = day]
    /\ IF trail[k].resolved > 0 THEN _insert_event(k, "regressed") ELSE UNCHANGED trail

report(k) ==
    /\ rows[k].occurrences < MaxSightings
    /\ rows' = [rows EXCEPT ![k].status = CASE @ = "none" -> "open" [] @ = "resolved" -> "regressed" [] OTHER -> @,
                            ![k].occurrences = @ + 1, ![k].seen = day]
    /\ IF trail[k].resolved > trail[k].regressed THEN _insert_event(k, "regressed") ELSE UNCHANGED trail

\* An observation is applied once; it opens a row that is not there, and never
\* touches one that is.
apply_historical_observation(o, k, observed) ==
    /\ ingested' = ingested \cup {o}
    /\ rows' = IF o \notin ingested /\ Status(k) = "none"
               THEN [rows EXCEPT ![k].status = "open", ![k].occurrences = 1, ![k].seen = observed] ELSE rows
    /\ UNCHANGED trail

\* Closing a row: what is selected, then what is written, whatever has happened
\* to the row in between.
Select(c, t) ==
    IF Status(t.key) \in {"none", "resolved"}
    THEN ops' = [ops EXCEPT ![c].todo = @ \ {t}]
    ELSE ops' = [ops EXCEPT ![c].todo = @ \ {t}, ![c].holds = {t}]

resolve(c) ==
    \E t \in ops[c].holds :
        /\ rows' = [rows EXCEPT ![t.key].status = "resolved", ![t.key].resolution = t.by]
        /\ _insert_event(t.key, "resolved")
        /\ ops' = [ops EXCEPT ![c].holds = {}]

\* The first row accepted opens the transaction; the others are selected in it.
Promotable(k) == Status(k) \in {"open", "regressed"}

promote(c) ==
    \E t \in ops[c].holds :
        /\ rows' = [k \in Keys |->
                       IF k = t.key \/ (k \in ops[c].keys /\ Promotable(k))
                       THEN [rows[k] EXCEPT !.status = "promoted", !.promoted_spec = ops[c].slug] ELSE rows[k]]
        /\ ops' = [ops EXCEPT ![c] = Idle]

-----------------------------------------------------------------------------
(* Every command but triage and ingest closes what its specification landed *)

_with_store(c) ==
    /\ At(c, "idle")
    /\ ops' = [ops EXCEPT ![c].at = "sweep",
                          ![c].todo = {[key |-> k, by |-> rows[k].promoted_spec] : k \in {k \in Keys : Status(k) = "promoted"}}]
    /\ UNCHANGED <<Ledger, World>>

\* Variant: without reading what state the specification is in.
_resolve_promoted_findings_unread(c) ==
    /\ At(c, "sweep") /\ ops[c].holds = {}
    /\ \/ \E t \in ops[c].todo : Select(c, t)
       \/ ops[c].todo = {} /\ Goto(c, "ready")
    /\ UNCHANGED <<Ledger, World>>

_resolve_promoted_findings(c) ==
    /\ At(c, "sweep") /\ ops[c].holds = {}
    /\ \/ \E t \in ops[c].todo :
             \/ (\A s \in t.by : Landed(s)) /\ Select(c, t)
             \/ (\E s \in t.by : ~Landed(s)) /\ ops' = [ops EXCEPT ![c].todo = @ \ {t}]
       \/ ops[c].todo = {} /\ Goto(c, "ready")
    /\ UNCHANGED <<Ledger, World>>

Close(c) == (At(c, "sweep") \/ At(c, "close")) /\ resolve(c) /\ UNCHANGED <<ingested, World>>

\* A sighting: a person's, a batch's, one by one, or a probe's.
findings_report_command(c) ==
    /\ At(c, "ready")
    /\ \E k \in Keys : report(k)
    /\ UNCHANGED <<ingested, World, ops>>

Ends(c) == (At(c, "ready") \/ (At(c, "close") /\ ops[c].todo = {} /\ ops[c].holds = {}))
           /\ ops' = [ops EXCEPT ![c] = Idle] /\ UNCHANGED <<Ledger, World>>

findings_resolve_command(c) ==
    /\ At(c, "ready")
    /\ \E k \in Keys : ops' = [ops EXCEPT ![c].at = "close", ![c].todo = {[key |-> k, by |-> {}]}]
    /\ UNCHANGED <<Ledger, World>>

CloseNext(c) ==
    /\ At(c, "close") /\ ops[c].holds = {}
    /\ \E t \in ops[c].todo : Select(c, t)
    /\ UNCHANGED <<Ledger, World>>

_historical_ingest_command(c) ==
    /\ At(c, "idle")
    /\ \E o \in Observations, k \in Keys, observed \in 1..day : apply_historical_observation(o, k, observed)
    /\ UNCHANGED <<World, ops>>

\* A command may die between any two of its effects.
Dies(c) == ~At(c, "idle") /\ ops' = [ops EXCEPT ![c] = Idle] /\ UNCHANGED <<Ledger, World>>

-----------------------------------------------------------------------------
(* promote: the specification is written whole before a row names it *)

findings_promote_command(c) ==
    /\ At(c, "ready")
    /\ \E keys \in SUBSET Keys \ {{}}, s \in Slugs :
          /\ \A k \in keys : Promotable(k)
          /\ specs[s].state = "none"
          /\ ops' = [ops EXCEPT ![c].at = "scaffold", ![c].keys = keys, ![c].slug = {s}]
    /\ UNCHANGED <<Ledger, World>>

\* A draft that declares every finding it is scaffolded from.
_build_spec_md(keys) == [state |-> "draft", fixes |-> keys, prose |-> keys, dated |-> Undated]

\* The directory is renamed into place if it compiles and nobody was faster.
Rename(c) ==
    /\ At(c, "scaffold")
    /\ \/ \E s \in ops[c].slug :
             /\ specs[s].state = "none"
             /\ specs' = [specs EXCEPT ![s] = _build_spec_md(ops[c].keys)]
             /\ Goto(c, "record")
       \/ ops' = [ops EXCEPT ![c] = Idle] /\ UNCHANGED specs
    /\ UNCHANGED <<Ledger, day>>

\* Variant: the rows are promoted before the directory is in place.
PromoteSelects_early(c) ==
    /\ (At(c, "record") \/ At(c, "scaffold"))
    /\ \E k \in ops[c].keys :
          /\ Promotable(k)
          /\ ops' = [ops EXCEPT ![c].at = "write", ![c].holds = {[key |-> k, by |-> {}]}]
    /\ UNCHANGED <<Ledger, World>>

\* The rows before the first that is still promotable are refused.
PromoteSelects(c) ==
    /\ At(c, "record")
    /\ \E k \in ops[c].keys, refused \in SUBSET ops[c].keys :
          /\ Promotable(k) /\ \A r \in refused : ~Promotable(r)
          /\ ops' = [ops EXCEPT ![c].at = "write", ![c].holds = {[key |-> k, by |-> {}]}, ![c].keys = @ \ refused]
    /\ UNCHANGED <<Ledger, World>>

PromoteWrites(c) == At(c, "write") /\ promote(c) /\ UNCHANGED <<trail, ingested, World>>

-----------------------------------------------------------------------------
(* triage: each open finding is in one class, judged by what has landed *)

Pool == {k \in Keys : Status(k) \in {"open", "regressed"}}

_declaration(s) == specs[s].fixes
mentions_key(s, k) == k \in specs[s].prose
_declared_index(k) == {s \in Slugs : Landed(s) /\ k \in _declaration(s)}
_prose_index(k) == {s \in Slugs : Landed(s) /\ mentions_key(s, k)}
git_landing_dates(s) == specs[s].dated
Proving(k) == {s \in _declared_index(k) : git_landing_dates(s) # Undated /\ rows[k].seen <= git_landing_dates(s)}

_class_declared(k) ==
    CASE Proving(k) # {} -> "fixed"
      [] \A s \in _declared_index(k) : git_landing_dates(s) = Undated -> "needs_human"
      [] OTHER -> "seen_after_fix"

_fragmented_groups ==
    LET left == {k \in Pool \cap Kin : _declared_index(k) = {}}
    IN  IF Cardinality(left) >= MinMembers THEN left ELSE {}

classify(k) ==
    CASE _declared_index(k) # {} -> _class_declared(k)
      [] k \in _fragmented_groups -> "fragmented"
      [] _prose_index(k) # {} -> "candidate"
      [] rows[k].occurrences = 1 /\ rows[k].seen + ColdDays < day -> "cold"
      [] OTHER -> "needs_human"

\* The command classifies once and applies row by row: the fixed are closed by
\* the specifications that prove it, the fragments by nobody's, the rest stay.
findings_triage_command(c) ==
    /\ At(c, "idle")
    /\ ops' = [ops EXCEPT ![c].at = "close",
                          ![c].todo = {[key |-> k, by |-> IF classify(k) = "fixed" THEN Proving(k) ELSE {}] :
                                           k \in {k \in Pool : classify(k) \in {"fixed", "fragmented"}}}]
    /\ UNCHANGED <<Ledger, World>>

DoctorNext ==
    \/ Tick \/ Land
    \/ \E c \in Commands :
          \/ _with_store(c) \/ _resolve_promoted_findings(c) \/ Close(c) \/ findings_report_command(c) \/ Ends(c)
          \/ findings_resolve_command(c) \/ CloseNext(c) \/ _historical_ingest_command(c) \/ Dies(c)
          \/ findings_promote_command(c) \/ Rename(c) \/ PromoteSelects(c) \/ PromoteWrites(c)
          \/ findings_triage_command(c)

DoctorSpec == DoctorInit /\ [][DoctorNext]_dvars

-----------------------------------------------------------------------------
(* Properties *)

\* A finding that comes back after it was closed is told as a regression: a closed
\* row's trail always has an unanswered closing, whatever raced to close it.
ReturnIsTold == \A k \in Keys : Status(k) = "resolved" => trail[k].resolved > trail[k].regressed

\* A promoted finding's specification exists and declares it, whatever died while
\* promoting; and a finding closed on a specification's account was closed by one
\* that has landed and declares it.
PromotedHasItsSpec ==
    \A k \in Keys :
        /\ Status(k) = "promoted" =>
               \A s \in rows[k].promoted_spec : specs[s].state # "none" /\ k \in specs[s].fixes
        /\ Status(k) = "resolved" => \A s \in rows[k].resolution : Landed(s) /\ k \in specs[s].fixes

\* A row is closed once for each time it was opened.
TrailTellsTheStatus ==
    \A k \in Keys : trail[k].resolved = trail[k].regressed + (IF Status(k) = "resolved" THEN 1 ELSE 0)
=============================================================================
