--------------------------- MODULE StoreMigration ---------------------------
(***************************************************************************)
(* Opening the evidence store (factory/verify/store.py): the schema is     *)
(* bootstrapped and migrated in place by whoever connects, while workers,  *)
(* the notification service and the command line of the same or of an      *)
(* older release hold it open.  sqlite3 commits every DDL statement, and   *)
(* every statement of a script, on its own: a process may die, and another *)
(* may step in, between any two of them.                                   *)
(***************************************************************************)
EXTENDS Integers, Sequences, FiniteSets

CONSTANTS
    Openers,    \* processes of this release that connect
    Runs,       \* the interpreter runs ("dispatches") whose verdicts are recorded
    Attempts,   \* the attempts of the one node modelled
    MaxWrites,  \* bound: rows recorded
    MaxClock,   \* bound: the clock of finished_at
    MaxDeaths   \* bound: processes that die

VARIABLES
    main,       \* the table verification_results
    shadow,     \* the table verification_results_v11 a rebuild copies into
    openers,    \* the connecting processes
    owed,       \* rows recorded while no rebuild was under way and not overwritten since
    clock, writes, deaths,
    disturbed   \* an opener died, failed or had company

mvars == <<main, shadow, openers, owed, clock, writes, deaths, disturbed>>

UNKNOWN_DISPATCH == "unknown"
Columns == <<"provenance", "loop_digest", "loop_summary", "base_ref", "gate_contradictions",
             "dispatch", "persona", "model_alias", "route">>

\* Variant: the columns of the builder are added before the rebuild adds its own.
Additions_rebuild_last ==
    << <<"provenance", <<"provenance">>>>, <<"loop_digest", <<"loop_digest", "loop_summary">>>>,
       <<"base_ref", <<"base_ref">>>>, <<"gate_contradictions", <<"gate_contradictions">>>>,
       <<"persona", <<"persona", "model_alias", "route">>>>, <<"dispatch", << >>>> >>

\* A column that tells whether a release's addition is there, and the addition.
Additions == << <<"provenance", <<"provenance">>>>, <<"loop_digest", <<"loop_digest", "loop_summary">>>>,
                <<"base_ref", <<"base_ref">>>>, <<"gate_contradictions", <<"gate_contradictions">>>>,
                <<"dispatch", << >>>>, <<"persona", <<"persona", "model_alias", "route">>>> >>

\* The stores earlier releases left: a prefix of the additions.
Shipped == {0, 1, 3, 4, 5, 6, 9}
NoTable == [exists |-> FALSE, columns |-> << >>, rows |-> {}]
Has(table, column) == \E i \in DOMAIN table.columns : table.columns[i] = column
\* The upsert key has the dispatch in it exactly when the table has the column.
Wide(table) == Has(table, "dispatch")
Off == [at |-> "off", seen |-> {}, recorded |-> << >>, step |-> 1, todo |-> << >>]

Row == [attempt : Attempts, dispatch : Runs \cup {UNKNOWN_DISPATCH}, id : 1..MaxWrites + 1, finished : 0..MaxClock]
MigrationTypeOK ==
    /\ \A t \in {main, shadow} : t.exists \in BOOLEAN /\ t.rows \subseteq Row /\ Len(t.columns) <= Len(Columns)
    /\ owed \subseteq [attempt : Attempts, finished : 0..MaxClock, id : 1..MaxWrites + 1]
    /\ \A p \in Openers :
           /\ openers[p].at \in {"off", "columns", "add", "create", "copy", "drop", "rename", "stamp", "open", "failed"}
           /\ openers[p].step \in 1..Len(Additions) + 1
    /\ clock \in 0..MaxClock /\ writes \in 0..MaxWrites /\ deaths \in 0..MaxDeaths /\ disturbed \in BOOLEAN

MigrationInit ==
    /\ \/ main = NoTable
       \/ \E n \in Shipped :
             main = [exists |-> TRUE, columns |-> SubSeq(Columns, 1, n),
                     rows |-> {[attempt |-> CHOOSE a \in Attempts : TRUE, dispatch |-> UNKNOWN_DISPATCH, id |-> 1, finished |-> 0]}]
    /\ shadow = NoTable
    /\ openers = [p \in Openers |-> Off]
    /\ owed = {[attempt |-> r.attempt, finished |-> r.finished, id |-> r.id] : r \in main.rows}
    /\ clock = 0 /\ writes = 0 /\ deaths = 0 /\ disturbed = FALSE

At(p, place) == openers[p].at = place
Goto(p, place) == openers' = [openers EXCEPT ![p].at = place]
Opening(p) == openers[p].at \notin {"off", "open", "failed"}
Settles(p, place) == openers' = [openers EXCEPT ![p] = [Off EXCEPT !.at = place]]
Fails(p) == Settles(p, "failed") /\ disturbed' = TRUE /\ UNCHANGED <<main, shadow>>
Rest == UNCHANGED <<owed, clock, writes, deaths>>

-----------------------------------------------------------------------------
(* connect: the schema script, then the additions one after another *)

\* CREATE TABLE IF NOT EXISTS: a new table has every column and the wide key.
connect(p) ==
    /\ At(p, "off") /\ Goto(p, "columns")
    /\ disturbed' = (disturbed \/ \E q \in Openers \ {p} : Opening(q))
    /\ main' = IF main.exists THEN main ELSE [exists |-> TRUE, columns |-> Columns, rows |-> {}]
    /\ UNCHANGED shadow /\ Rest

_read_columns(p) ==
    /\ At(p, "columns")
    /\ openers' = [openers EXCEPT ![p].at = "add", ![p].step = 1,
                                  ![p].seen = {main.columns[i] : i \in DOMAIN main.columns}]
    /\ UNCHANGED <<main, shadow, disturbed>> /\ Rest

\* What the table is like now does not matter to the additions, but for the
\* rebuild, which reads the recorded DDL again.
_migrate(p) ==
    /\ At(p, "add") /\ openers[p].todo = << >>
    /\ LET missing == {i \in openers[p].step..Len(Additions) : Additions[i][1] \notin openers[p].seen}
           i == CHOOSE i \in missing : \A j \in missing : i <= j
       IN openers' =
             IF missing = {} THEN [openers EXCEPT ![p].at = "stamp"]
             ELSE IF Additions[i][1] # "dispatch"
             THEN [openers EXCEPT ![p].step = i + 1, ![p].todo = Additions[i][2]]
             ELSE IF ~main.exists \/ Wide(main) THEN [openers EXCEPT ![p].step = i + 1]
             ELSE [openers EXCEPT ![p].step = i + 1, ![p].at = "create", ![p].recorded = main.columns]
    /\ UNCHANGED <<main, shadow, disturbed>> /\ Rest

_add_column(p) ==
    /\ At(p, "add") /\ openers[p].todo # << >>
    /\ LET column == Head(openers[p].todo) IN
       IF ~main.exists \/ Has(main, column) THEN Fails(p)
       ELSE /\ main' = [main EXCEPT !.columns = Append(@, column)]
            /\ openers' = [openers EXCEPT ![p].todo = Tail(@)]
            /\ UNCHANGED <<shadow, disturbed>>
    /\ Rest

-----------------------------------------------------------------------------
(* _add_dispatch_to_the_upsert_key: create, copy, drop, rename *)

_create_rebuilt(p) ==
    /\ At(p, "create")
    /\ IF shadow.exists THEN Fails(p)
       ELSE /\ shadow' = [exists |-> TRUE, columns |-> Append(openers[p].recorded, "dispatch"), rows |-> {}]
            /\ Goto(p, "copy") /\ UNCHANGED <<main, disturbed>>
    /\ Rest

Relabelled == {[r EXCEPT !.dispatch = UNKNOWN_DISPATCH] : r \in main.rows}
Keys(rows) == {<<r.attempt, r.dispatch>> : r \in rows}

\* Variant: only the newest row of each attempt is copied.
_copy_newest(p) ==
    /\ At(p, "copy")
    /\ shadow' = [shadow EXCEPT !.rows = {r \in Relabelled : \A q \in Relabelled : q.finished <= r.finished}]
    /\ Goto(p, "drop") /\ UNCHANGED <<main, disturbed>> /\ Rest

_copy(p) ==
    /\ At(p, "copy")
    /\ IF \/ ~main.exists \/ ~shadow.exists
          \/ \E i \in DOMAIN openers[p].recorded : ~Has(main, openers[p].recorded[i])
          \/ Cardinality(Keys(Relabelled)) < Cardinality(Relabelled)
       THEN Fails(p)
       ELSE /\ shadow' = [shadow EXCEPT !.rows = Relabelled]
            /\ Goto(p, "drop") /\ UNCHANGED <<main, disturbed>>
    /\ Rest

_drop(p) ==
    /\ At(p, "drop")
    /\ IF ~main.exists THEN Fails(p) ELSE main' = NoTable /\ Goto(p, "rename") /\ UNCHANGED <<shadow, disturbed>>
    /\ Rest

_rename(p) ==
    /\ At(p, "rename")
    /\ IF main.exists \/ ~shadow.exists THEN Fails(p)
       ELSE main' = shadow /\ shadow' = NoTable /\ Goto(p, "add") /\ UNCHANGED disturbed
    /\ Rest

_stamp(p) == At(p, "stamp") /\ Settles(p, "open") /\ UNCHANGED <<main, shadow, disturbed>> /\ Rest

Dies(p) ==
    /\ openers[p].at # "off" /\ deaths < MaxDeaths
    /\ deaths' = deaths + 1 /\ openers' = [openers EXCEPT ![p] = Off]
    /\ disturbed' = (disturbed \/ Opening(p))
    /\ UNCHANGED <<main, shadow, owed, clock, writes>>

-----------------------------------------------------------------------------
(* The rows: written by this release, and by an older one that is still up *)

Owe(old, new) ==
    owed' = (owed \ {[attempt |-> r.attempt, finished |-> r.finished, id |-> r.id] : r \in old})
                \cup (IF shadow.exists THEN {} ELSE {[attempt |-> new.attempt, finished |-> new.finished, id |-> new.id]})

NextId == 1 + Cardinality(main.rows) + Cardinality({r \in main.rows : r.id > Cardinality(main.rows)})
Upsert(a, d) ==
    LET old == {r \in main.rows : r.attempt = a /\ r.dispatch = d}
        new == [attempt |-> a, dispatch |-> d, finished |-> clock',
                id |-> IF old = {} THEN NextId ELSE (CHOOSE r \in old : TRUE).id]
    IN /\ clock' \in clock..MaxClock /\ writes' = writes + 1
       /\ new.id <= MaxWrites + 1
       /\ main' = [main EXCEPT !.rows = (@ \ old) \cup {new}]
       /\ Owe(old, new)

\* The statement names every column and the wide key, so it needs them.
upsert_result(p, a, d) ==
    /\ At(p, "open") /\ writes < MaxWrites /\ main.exists
    /\ \A i \in DOMAIN Columns : Has(main, Columns[i])
    /\ Upsert(a, d)
    /\ UNCHANGED <<shadow, openers, deaths, disturbed>>

\* A release before dispatches has its key without them: a wide table refuses it.
upsert_by_an_older_release(a) ==
    /\ main.exists /\ ~Wide(main) /\ writes < MaxWrites
    /\ Upsert(a, UNKNOWN_DISPATCH)
    /\ UNCHANGED <<shadow, openers, deaths, disturbed>>

MigrationNext ==
    \/ \E p \in Openers :
          \/ connect(p) \/ _read_columns(p) \/ _migrate(p) \/ _add_column(p)
          \/ _create_rebuilt(p) \/ _copy(p) \/ _drop(p) \/ _rename(p) \/ _stamp(p) \/ Dies(p)
          \/ \E a \in Attempts, d \in Runs : upsert_result(p, a, d)
    \/ \E a \in Attempts : upsert_by_an_older_release(a)

MigrationSpec == MigrationInit /\ [][MigrationNext]_mvars

-----------------------------------------------------------------------------
(* Reading a node's verdicts *)

\* Variant: every row by its own clock.
Before_own_clock(rows, r, s) == r.finished < s.finished \/ (r.finished = s.finished /\ r.attempt < s.attempt)

Before(rows, r, s) ==
    LET Of(x) == {y \in rows : y.dispatch = x.dispatch}
        Started(x) == CHOOSE c \in {y.finished : y \in Of(x)} : \A y \in Of(x) : c <= y.finished
        FirstRow(x) == CHOOSE i \in {y.id : y \in Of(x)} : \A y \in Of(x) : i <= y.id
    IN \/ Started(r) < Started(s)
       \/ Started(r) = Started(s) /\ FirstRow(r) < FirstRow(s)
       \/ FirstRow(r) = FirstRow(s) /\ r.attempt < s.attempt

\* A group is a run of neighbours of one dispatch.
dispatch_groups(rows) ==
    {[from |-> r, rows |-> {s \in rows : s.dispatch = r.dispatch /\ ~\E t \in rows :
         t.dispatch # r.dispatch /\ \/ Before(rows, r, t) /\ Before(rows, t, s)
                                    \/ Before(rows, s, t) /\ Before(rows, t, r)}] : r \in rows}

-----------------------------------------------------------------------------
(* Properties *)

\* A verdict recorded while no rebuild was under way is still in the database,
\* whoever died, failed or raced whom half way through an upgrade: in the table,
\* or in the copy that was to replace it (_add_dispatch_to_the_upsert_key).
NoRowIsDropped ==
    \A o \in owed : \E r \in main.rows \cup shadow.rows : r.attempt = o.attempt /\ r.finished = o.finished /\ r.id = o.id

\* A store upgraded by one opener at a time, none of which died, has the
\* columns of a new store in the order of a new store (_migrate's order against
\* _SCHEMA_DDL's), whichever release left it.
ShapeIsFresh ==
    (~disturbed /\ \E p \in Openers : At(p, "open")) => (main.exists /\ main.columns = Columns)

\* A node's history puts all that one run recorded together: reading it never
\* shows the same run as two (_DISPATCH_ORDER_SQL and dispatch_groups).
RunsAreRead == \A g \in dispatch_groups(main.rows) : g.rows = {r \in main.rows : r.dispatch = g.from.dispatch}

\* Whatever happened to an upgrade, connecting again opens the store.  Violated:
\* an opener that dies between creating the copy and renaming it leaves the copy
\* behind, and every later connect fails on creating it again.
StoreStaysOpenable == \A p \in Openers : ~(At(p, "create") /\ shadow.exists /\ ~\E q \in Openers \ {p} : Opening(q))

=============================================================================
