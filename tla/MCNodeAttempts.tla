--------------------------- MODULE MCNodeAttempts ---------------------------
(***************************************************************************)
(* NodeAttempts for TLC: a builder persona, the debugger and a closer for  *)
(* the promotion rung, and ladder configurations small enough to exhaust   *)
(* yet reaching every rung.                                                *)
(***************************************************************************)
EXTENDS NodeAttempts

Dials(attempts, judge, debugger, promotion, pre_agent) ==
    [max_attempts           |-> attempts,
     max_judge_retries      |-> judge,
     debugger_cycles        |-> debugger,
     promotion_persona      |-> promotion,
     promotion_cycles       |-> 1,
     max_launch_retries     |-> 2,
     max_pre_agent_failures |-> pre_agent]

\* Every rung once with the pre-agent bound as tight as it goes; and no rung at
\* all, where two pre-agent failures escalate.
MCConfigs == {Dials(1, 0, 1, "closer", 1), Dials(1, 0, 0, NoPersona, 2)}

\* A granted retry with a question, and a granted retry with a hand-back.
MCBounds == {[grants |-> 1, questions |-> 1, hand_backs |-> 0],
             [grants |-> 1, questions |-> 0, hand_backs |-> 1]}

\* The least ladder with a rung, for the liveness run.
SmallConfigs == {Dials(1, 0, 1, NoPersona, 1)}
SmallBounds  == {[grants |-> 1, questions |-> 1, hand_backs |-> 0]}
=============================================================================
