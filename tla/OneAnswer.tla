------------------------------ MODULE OneAnswer -----------------------------
(***************************************************************************)
(* What a page to the operator promises, whoever presses what and when: it *)
(* is decided at most once, by a choice it offered or by its window, and   *)
(* what it reports is what was decided.  Only when the record of the       *)
(* decision cannot be read may it report without one.                      *)
(***************************************************************************)
EXTENDS VerificationStore

VARIABLES
    terms,        \* what the page offers, and what silence and a lost record mean
    decided,      \* the one decision, or None
    reported,     \* what the waiting workflow was told, or None
    unread        \* the record could not be read

promise == <<terms, decided, reported, unread>>

Init ==
    /\ decided = None /\ reported = None /\ unread = FALSE
    /\ DOMAIN terms = {"offered", "silence", "failsafe"}

Decide ==
    /\ decided = None
    /\ decided' \in terms.offered \cup {EXPIRED}
    /\ UNCHANGED <<terms, reported, unread>>

Report ==
    /\ reported = None /\ decided # None
    /\ reported' = IF decided = EXPIRED THEN terms.silence ELSE decided
    /\ UNCHANGED <<terms, decided, unread>>

\* The store is gone: a press that was delivered stands, or the fail-safe does.
ReportUnread ==
    /\ reported = None /\ unread
    /\ reported' \in terms.offered \cup {terms.failsafe}
    /\ UNCHANGED <<terms, decided, unread>>

LoseRecord ==
    /\ reported = None /\ unread' = TRUE
    /\ UNCHANGED <<terms, decided, reported>>

Next == Decide \/ Report \/ ReportUnread \/ LoseRecord

Spec == Init /\ [][Next]_promise
=============================================================================
