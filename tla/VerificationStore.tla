-------------------------- MODULE VerificationStore -------------------------
(***************************************************************************)
(* The transitions of the verification store (factory/verify/store.py)     *)
(* that several processes race for: a row of `escalations` or `questions`  *)
(* is pending until one guarded UPDATE settles it.  Each operator is one   *)
(* committed statement, so it is atomic whoever runs it.                   *)
(***************************************************************************)
EXTENDS Naturals, Sequences

CONSTANT None      \* SQL's NULL, and Python's None

EXPIRED == "EXPIRED"
ANSWERED == "ANSWERED"

\* WHERE resolution IS NULL: the statement matches a row that is still pending.
pending(row) == row.recorded /\ row.resolution = None

\* Variant: the UPDATE lost its guard, so the last writer wins.
transition_unguarded(row, r) == IF row.recorded THEN [row EXCEPT !.resolution = r] ELSE row

\* The rows after `UPDATE ... SET resolution = r WHERE id = ? AND resolution IS NULL`.
transition(row, r) == IF pending(row) THEN [row EXCEPT !.resolution = r] ELSE row
=============================================================================
