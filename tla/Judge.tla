-------------------------------- MODULE Judge --------------------------------
(***************************************************************************)
(* What EpicWorkflow._verify (factory/workgraph/workflow.py) makes of the  *)
(* gates' results: the output check, the judge's loop (_judge, _score,     *)
(* run_judge of factory/verify/judge.py), compose_result of                *)
(* factory/verify/models.py, and the row record_verification writes.       *)
(*                                                                         *)
(* A reply's findings are told apart by two bits: some failing finding     *)
(* says of a gate what the gate's recorded PASS denies (contradicted), and *)
(* some other failing finding does not (standing).                         *)
(***************************************************************************)
EXTENDS Naturals

CONSTANTS
    MaxJudgeRetries,  \* EpicConfig.max_judge_retries
    MaxRecordTries    \* bound: executions of record_verification

ASSUME JudgeAssumption == MaxJudgeRetries \in Nat /\ MaxRecordTries \in Nat \ {0}

VARIABLES
    gates_passed,   \* every gate result is PASS
    scenarios,      \* the spec's criteria have scenarios
    verify,         \* the verification
    row             \* the row of this attempt: "none", "PASS" or "FAIL"

jvars == <<gates_passed, scenarios, verify, row>>

JudgeOutcomes == {"none", "PASS", "RETRY", "FAIL", "UNAVAILABLE"}
Verifying == [at : {"output", "judge", "record", "settled", "raised"}, output : BOOLEAN,
              asks : 0..(MaxJudgeRetries + 1), tries : 0..MaxRecordTries,
              outcome : JudgeOutcomes, standing : BOOLEAN, contradicted : BOOLEAN,
              objection : BOOLEAN,   \* history: the last readable reply had a standing finding
              drift : BOOLEAN]

JudgeTypeOK ==
    /\ gates_passed \in BOOLEAN /\ scenarios \in BOOLEAN
    /\ verify \in Verifying /\ row \in {"none", "PASS", "FAIL"}

JudgeInit ==
    /\ gates_passed \in BOOLEAN /\ scenarios \in BOOLEAN /\ row = "none"
    /\ verify = [at |-> "output", output |-> FALSE, asks |-> 0, tries |-> 0, outcome |-> "none",
                 standing |-> FALSE, contradicted |-> FALSE, objection |-> FALSE, drift |-> FALSE]

\* The output check, with its write scope, hygiene and size; judge_required
\* asks the judge only of work that passed everything else.
CheckOutput ==
    /\ verify.at = "output"
    /\ \E passed \in BOOLEAN :
          verify' = [verify EXCEPT !.output = passed,
                                   !.at = IF gates_passed /\ passed /\ scenarios THEN "judge" ELSE "record"]
    /\ UNCHANGED <<gates_passed, scenarios, row>>

\* Variant: the retries are counted from the first ask on.
LastAsk_counted_late == verify.asks = MaxJudgeRetries + 1

\* The last of the asks there are.
LastAsk == verify.asks = MaxJudgeRetries

\* A RETRY without findings, and one that contradicts a gate.
judge_should_be_reasked(outcome, findings, contradicted) ==
    outcome = "RETRY" /\ (~findings \/ contradicted)

\* What comes back with no findings at all.
NoReply(outcome) ==
    verify' = [verify EXCEPT
        !.asks = @ + 1, !.outcome = outcome, !.standing = FALSE, !.contradicted = FALSE,
        !.at = IF judge_should_be_reasked(outcome, FALSE, FALSE) /\ ~LastAsk THEN @ ELSE "record"]

\* Every delivery of the request failed: the outage is the verdict.
JudgeUnavailable ==
    /\ verify.at = "judge" /\ NoReply("UNAVAILABLE")
    /\ UNCHANGED <<gates_passed, scenarios, row>>

\* What could not be read is asked again, and fails when no ask is left.
JudgeMalformed ==
    /\ verify.at = "judge" /\ NoReply(IF LastAsk THEN "FAIL" ELSE "RETRY")
    /\ UNCHANGED <<gates_passed, scenarios, row>>

\* parse_verdict wants a finding for every scenario and lets a word be no milder
\* than they are; a contradicted reply is a RETRY while an ask is left.
JudgeReplies ==
    /\ verify.at = "judge"
    /\ \E outcome \in {"PASS", "RETRY", "FAIL"}, standing, contradicted \in BOOLEAN :
          LET heard == IF contradicted /\ ~LastAsk THEN "RETRY" ELSE outcome
          IN  /\ standing \/ contradicted => outcome # "PASS"
              /\ verify' = [verify EXCEPT
                    !.asks = @ + 1, !.outcome = heard, !.standing = standing,
                    !.contradicted = contradicted, !.objection = standing,
                    !.at = IF judge_should_be_reasked(heard, TRUE, contradicted) /\ ~LastAsk
                           THEN @ ELSE "record"]
    /\ UNCHANGED <<gates_passed, scenarios, row>>

\* The judge's key, or an activity of the loop, fails for another reason.
JudgeRaises ==
    /\ verify.at = "judge" /\ verify' = [verify EXCEPT !.at = "raised"]
    /\ UNCHANGED <<gates_passed, scenarios, row>>

\* Variant: a contradiction excuses every finding of its reply.
judge_accepts_contradicted ==
    verify.outcome \in {"none", "PASS", "UNAVAILABLE"} \/ verify.contradicted

\* compose_result: a verdict all of whose failing findings are contradicted
\* does not fail the node, one that stands does.
judge_accepts ==
    verify.outcome \in {"none", "PASS", "UNAVAILABLE"} \/ (verify.contradicted /\ ~verify.standing)

\* The upsert is keyed by the attempt and runs at least once; whether the
\* criteria have drifted is read anew each time.
RecordVerification ==
    /\ verify.at = "record"
    /\ row' = IF gates_passed /\ verify.output /\ judge_accepts THEN "PASS" ELSE "FAIL"
    /\ \E drift \in BOOLEAN :
          verify' = [verify EXCEPT !.at = "settled", !.drift = drift]
    /\ UNCHANGED <<gates_passed, scenarios>>

\* The execution fails, before its row or after it; the last one raises.
RecordLost ==
    /\ verify.at = "record"
    /\ verify' = [verify EXCEPT !.tries = @ + 1,
                                !.at = IF verify.tries + 1 = MaxRecordTries THEN "raised" ELSE @]
    /\ row' \in {row, IF gates_passed /\ verify.output /\ judge_accepts THEN "PASS" ELSE "FAIL"}
    /\ UNCHANGED <<gates_passed, scenarios>>

JudgeNext == CheckOutput \/ JudgeUnavailable \/ JudgeMalformed \/ JudgeReplies \/ JudgeRaises
             \/ RecordVerification \/ RecordLost

JudgeSpec == JudgeInit /\ [][JudgeNext]_jvars /\ WF_jvars(JudgeNext)

-----------------------------------------------------------------------------
(* Properties *)

\* PASS is on record of nothing but work whose gates and output passed and
\* that the judge, where it could be asked to the end, has no objection to; a
\* reply nobody could read is no approval.
PassIsEarned ==
    row = "PASS" =>
        /\ gates_passed /\ verify.output
        /\ scenarios => verify.outcome # "none"
        /\ verify.objection => verify.outcome = "UNAVAILABLE"

\* "any failing finding that contradicted nothing still fails the node"
ObjectionStands == row = "PASS" => ~verify.objection
=============================================================================
