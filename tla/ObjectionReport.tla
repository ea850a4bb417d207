--------------------------- MODULE ObjectionReport ---------------------------
(***************************************************************************)
(* What became of a judge's objections to one scenario                     *)
(* (factory/attestation/report.py), over the evaluations the journal holds *)
(* (factory/attestation/journal.py).                                       *)
(***************************************************************************)
EXTENDS Integers, Sequences

CONSTANT MaxEvaluations   \* bound: evaluations recorded

VARIABLE history          \* the evaluations on record, in their order

ReportTypeOK ==
    \A i \in DOMAIN history :
        history[i] \in [ordinal : 1..MaxEvaluations, revision : 1..2, fingerprint : 1..2,
                       status : {"valid", "unavailable"}, result : {"passed", "failed"}]

ReportInit == history = << >>

\* An evaluation of a revision against the criteria; when the scoring call
\* failed, its result is what was put in its place.
record_scoring_evaluation ==
    /\ Len(history) < MaxEvaluations
    /\ \E r, f \in 1..2, s \in {"valid", "unavailable"}, o \in {"passed", "failed"} :
          history' = Append(history, [ordinal |-> Len(history) + 1, revision |-> r, fingerprint |-> f, status |-> s, result |-> o])

ReportNext == record_scoring_evaluation
ReportSpec == ReportInit /\ [][ReportNext]_history

-----------------------------------------------------------------------------
(* assemble_report: what became of the judge's objections *)

_objections == {i \in DOMAIN history : history[i].result = "failed"}

\* The last passing evaluation after the objection and of another revision.
Passes(i) == {j \in DOMAIN history : /\ history[j].ordinal > history[i].ordinal /\ history[j].result = "passed"
                                     /\ history[j].revision # history[i].revision}

\* Variant: an evaluation that passed counts whenever it was made.
_resolution_ever(i) ==
    LET passes == {j \in DOMAIN history : history[j].result = "passed" /\ history[j].revision # history[i].revision}
        later == CHOOSE j \in passes : \A k \in passes : k <= j
    IN IF passes # {} /\ history[later].status = "valid" /\ history[later].fingerprint = history[i].fingerprint
       THEN "verified-fixed" ELSE "unverified"

_resolution(i) ==
    LET later == CHOOSE j \in Passes(i) : \A k \in Passes(i) : k <= j
    IN IF Passes(i) # {} /\ history[later].status = "valid" /\ history[later].fingerprint = history[i].fingerprint
       THEN "verified-fixed" ELSE "unverified"

fully_fixed == _objections # {} /\ \A i \in _objections : _resolution(i) = "verified-fixed"

-----------------------------------------------------------------------------
(* Properties *)

\* What is reported as fully fixed was last judged to pass, by an evaluation
\* that ran, after the last one that failed it (assemble_report).
FixedIsFixed ==
    fully_fixed => LET last == history[Len(history)] IN
                   \E j \in DOMAIN history : /\ history[j].result = "passed" /\ history[j].status = "valid"
                                             /\ \A i \in _objections : i < j

=============================================================================
