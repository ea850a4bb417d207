------------------------------- MODULE Ladder -------------------------------
(***************************************************************************)
(* factory/verify/ladder.py: the retry policy, one pure decision over a    *)
(* node's history.                                                         *)
(*                                                                         *)
(* A history is a sequence of attempt records, oldest first.  A record     *)
(* keeps the four facts the ladder reads:                                  *)
(*   persona   who the attempt ran as                                      *)
(*   pass      the composed verdict is PASS                                *)
(*   rewrite   the judge's outcome is RETRY (it asked for another rewrite; *)
(*             PASS, FAIL, UNAVAILABLE and "never ran" are not told apart) *)
(*   pre       the attempt ended before the agent produced a token         *)
(* An escalation is the resolution of a page that was already answered.    *)
(*                                                                         *)
(* There is no RECURSIVE operator here: a count is the cardinality of the  *)
(* set of positions it counts.                                             *)
(*                                                                         *)
(* A definition whose comment begins "Variant:" is not the code's: it is a *)
(* slip the code could have made, kept beside the definition it stands in  *)
(* for so that a run can show which property would notice.                 *)
(***************************************************************************)
EXTENDS Integers, Sequences, FiniteSets

CONSTANTS
    Persona,      \* the names of the persona registry
    Debugger,     \* DEBUGGER_PERSONA, the one name the ladder knows
    NoPersona     \* `promotion_persona is None`

ASSUME PersonaAssumption == Debugger \in Persona /\ NoPersona \notin Persona

Choice     == {"RETRY", "KILL", "PAUSE_EPIC", "KILL_EPIC"}
Resolution == Choice \cup {"EXPIRED"}
Action     == {"PASSED", "RETRY", "PROMOTE", "DEBUGGER", "ESCALATE", "KILLED"}

AttemptRecord ==
    [persona : Persona, pass : BOOLEAN, rewrite : BOOLEAN, pre : BOOLEAN]

\* The dials the ladder reads; the manifest keeps attempts and the pre-agent
\* bound at one or more.
VerificationConfig ==
    [max_attempts           : Nat \ {0},
     max_judge_retries      : Nat,
     debugger_cycles        : Nat,
     promotion_persona      : Persona \cup {NoPersona},
     promotion_cycles       : Nat,
     max_launch_retries     : Nat,
     max_pre_agent_failures : Nat \ {0}]

ENDING_CHOICES   == {"KILL", "PAUSE_EPIC", "KILL_EPIC"}
PRODUCES_WORK    == {"RETRY", "PROMOTE", "DEBUGGER"}
TERMINAL_ACTIONS == {"PASSED", "KILLED"}

-----------------------------------------------------------------------------
(* What has been spent.                                                     *)

Last(h) == h[Len(h)]

attempts_spent(h, c) ==
    Cardinality({i \in DOMAIN h : /\ h[i].persona \notin {Debugger, c.promotion_persona}
                                  /\ ~h[i].pre})

\* The length of the unbroken tail of pre-agent failures.
pre_agent_failures_spent(h) ==
    Cardinality({i \in DOMAIN h : \A j \in i..Len(h) : h[j].pre})

pre_agent_bound_spent(h, c, grants) ==
    pre_agent_failures_spent(h) >= c.max_pre_agent_failures + grants

debugger_cycles_spent(h) ==
    Cardinality({i \in DOMAIN h : h[i].persona = Debugger})

promotion_cycles_spent(h, c) ==
    Cardinality({i \in DOMAIN h : h[i].persona = c.promotion_persona})

judge_rewrites_spent(h, c) ==
    /\ h # << >> /\ Last(h).rewrite
    /\ Cardinality({i \in DOMAIN h : h[i].rewrite}) > c.max_judge_retries

-----------------------------------------------------------------------------
(* The rungs.                                                               *)

\* Variant: a pause does not end the node.
ends_the_node_but_for_pause(resolution) == resolution \notin {"RETRY", "PAUSE_EPIC"}

ends_the_node(resolution) == resolution # "RETRY"

\* Variant: one attempt too many.
attempt_available_and_one(h, c, grants) == attempts_spent(h, c) <= c.max_attempts + grants
attempt_available(h, c, grants)         == attempts_spent(h, c) < c.max_attempts + grants

judge_vetoes_a_retry(h, c, grants) == grants = 0 /\ judge_rewrites_spent(h, c)

promotion_available(h, c) ==
    /\ c.promotion_persona # NoPersona
    /\ attempts_spent(h, c) >= c.max_attempts
    /\ h # << >> => Last(h).persona # c.promotion_persona
    /\ promotion_cycles_spent(h, c) < c.promotion_cycles

next_action(h, c, escalations) ==
    LET grants == Len(escalations)
    IN  IF \E i \in DOMAIN escalations : ends_the_node(escalations[i]) THEN "KILLED"
        ELSE IF h # << >> /\ Last(h).pass THEN "PASSED"
        ELSE IF pre_agent_bound_spent(h, c, grants) THEN "ESCALATE"
        ELSE IF /\ attempt_available(h, c, grants)
                /\ ~judge_vetoes_a_retry(h, c, grants) THEN "RETRY"
        ELSE IF promotion_available(h, c) THEN "PROMOTE"
        ELSE IF debugger_cycles_spent(h) < c.debugger_cycles THEN "DEBUGGER"
        ELSE "ESCALATE"

-----------------------------------------------------------------------------
(* What a page may offer.                                                   *)

\* Variant: the question is put without the grant it is about.
grant_produces_work_ungranted(h, c, escalations) ==
    next_action(h, c, escalations) \in PRODUCES_WORK

grant_produces_work(h, c, escalations) ==
    next_action(h, c, Append(escalations, "RETRY")) \in PRODUCES_WORK

offered_choices(retry_grants_work) ==
    ENDING_CHOICES \cup (IF retry_grants_work THEN {"RETRY"} ELSE {})

is_unoffered(resolution, offered) ==
    resolution # "EXPIRED" /\ offered # {} /\ resolution \notin offered

\* Which bound produced the ESCALATE, in the order the operator is told.
exhausted_bound(h, c, escalations) ==
    LET grants == Len(escalations)
    IN  IF next_action(h, c, escalations) # "ESCALATE" THEN "none"
        ELSE IF pre_agent_bound_spent(h, c, grants) THEN "max_pre_agent_failures"
        ELSE IF c.debugger_cycles > 0 /\ debugger_cycles_spent(h) >= c.debugger_cycles
             THEN "debugger_cycles"
        ELSE IF attempt_available(h, c, grants)
             THEN "max_judge_retries"
        ELSE "max_attempts"
=============================================================================
