----------------------------- MODULE JudgePrompt ----------------------------
(***************************************************************************)
(* How much of a node's diff the judge is shown: the measurement, the      *)
(* refusal and the record of factory/verify/diffbounds.py as check_output  *)
(* reads them (factory/verify/diffcheck.py), and the budgeting of          *)
(* factory/verify/judge.py: build_prompt, prepare_diff, _allocate and      *)
(* _render_section.                                                        *)
(*                                                                         *)
(* A diff is a sequence of files and a file the sequence of its lines,     *)
(* each of which is its number of bytes; a file's first line is the one    *)
(* that names it.  The loop of _allocate is taken one file at a time.      *)
(***************************************************************************)
EXTENDS Integers, SequencesExt

CONSTANTS
    Diffs,       \* the diffs an attempt may leave, two lines or more to a file
    GateBytes,   \* what the section of gate results may take
    Limit,       \* DIFF_INPUT_LIMIT
    Threshold,   \* the manifest's refusal threshold, no less than the limit
    Floor,       \* SMALL_FILE_FLOOR
    Entry,       \* bytes of one file in the listing
    Notice,      \* bytes of TRUNCATION_NOTICE
    Marker       \* bytes of a line that marks an elision

VARIABLES
    diff,        \* the files
    gate_bytes,  \* what the gate results take of the prompt
    at,          \* measure, prepare, allocate, render, then refused or asked
    left,        \* the files the loop has not come to
    grants,      \* the bytes granted to each
    remaining,   \* what is left of the allowance
    shown,       \* by file, its bytes in the prompt and the lines dropped from it
    truncated    \* the prompt's flag, which the verdict carries

jpvars == <<diff, gate_bytes, at, left, grants, remaining, shown, truncated>>

Bytes(lines) == FoldSeq(+, 0, lines)
Size(f) == Bytes(diff[f])
Files == DOMAIN diff
SizeOf(files) == FoldSet(LAMBDA f, sum : sum + Size(f), 0, files)

\* assembled: the listing of all files and every file's section.
Total == Entry * Len(diff) + SizeOf(Files)
HeadBlock == Entry * Len(diff) + Notice

JudgePromptTypeOK ==
    /\ diff \in Diffs /\ gate_bytes \in GateBytes
    /\ at \in {"measure", "prepare", "allocate", "render", "refused", "asked"}
    /\ left \subseteq Files /\ grants \in [Files -> Nat] /\ remaining \in 0..Limit
    /\ shown \in [Files -> [bytes : Nat, dropped : Nat]] /\ truncated \in BOOLEAN

JudgePromptInit ==
    /\ diff \in Diffs /\ gate_bytes \in GateBytes
    /\ at = "measure" /\ left = Files /\ grants = [f \in Files |-> 0] /\ remaining = 0
    /\ shown = [f \in Files |-> [bytes |-> 0, dropped |-> 0]] /\ truncated = FALSE

AtLeast0(n) == IF n < 0 THEN 0 ELSE n

\* The limit the diff is fitted under: what the gate results leave.
DiffLimit == AtLeast0(Limit - gate_bytes)
Allowance == AtLeast0(DiffLimit - HeadBlock)

-----------------------------------------------------------------------------

\* check_output refuses above the threshold, unjudged.
MeasureOutput ==
    /\ at = "measure"
    /\ at' = IF Total > Threshold THEN "refused" ELSE "prepare"
    /\ UNCHANGED <<diff, gate_bytes, left, grants, remaining, shown, truncated>>

\* prepare_diff: whole under the limit, budgeted above it.
PrepareDiff ==
    /\ at = "prepare"
    /\ IF Total <= DiffLimit
       THEN /\ at' = "asked" /\ shown' = [f \in Files |-> [bytes |-> Size(f), dropped |-> 0]]
            /\ UNCHANGED remaining
       ELSE at' = "allocate" /\ remaining' = Allowance /\ UNCHANGED shown
    /\ UNCHANGED <<diff, gate_bytes, left, grants, truncated>>

SmallFloor == LET scaled == Allowance \div Len(diff) IN IF Floor < scaled THEN Floor ELSE scaled

\* Variant: of the whole allowance, by its size among all files.
Share_of_all(f) == (Allowance * Size(f)) \div SizeOf(Files)

\* A file's share of what is left, by its size among the files that are left.
Share(f) == (remaining * Size(f)) \div SizeOf(left)

\* Variant: the largest first.
NextFile_largest ==
    CHOOSE f \in left : \A g \in left : Size(f) > Size(g) \/ (Size(f) = Size(g) /\ f <= g)

\* Smallest first, in the order of the diff among equals.
NextFile ==
    CHOOSE f \in left : \A g \in left : Size(f) < Size(g) \/ (Size(f) = Size(g) /\ f <= g)

Granted(f) ==
    LET fair == IF Share(f) < SmallFloor THEN SmallFloor ELSE Share(f)
    IN  CHOOSE n \in {Size(f), fair, remaining} : \A m \in {Size(f), fair, remaining} : n <= m

Allocate ==
    /\ at = "allocate" /\ left # {}
    /\ LET f == NextFile
       IN  /\ grants' = [grants EXCEPT ![f] = Granted(f)]
           /\ remaining' = AtLeast0(remaining - Granted(f))
           /\ left' = left \ {f}
    /\ UNCHANGED <<diff, gate_bytes, at, shown, truncated>>

AllocationEnds ==
    /\ at = "allocate" /\ left = {}
    /\ at' = "render"
    /\ UNCHANGED <<diff, gate_bytes, left, grants, remaining, shown, truncated>>

\* Variant: the marker's bytes are not taken out of the grant.
Available_unmarked(grant) == grant

\* The marker's own bytes come out of the grant.
Available(grant) == AtLeast0(grant - Marker)

\* The lines kept at the head, the one that names the file whatever is left, and
\* at the tail; both loops stop at the first line that does not fit.
HeadLines(lines, available) ==
    CHOOSE h \in 1..Len(lines) :
        /\ h = 1 \/ Bytes(SubSeq(lines, 1, h)) <= available \div 2
        /\ h = Len(lines) \/ Bytes(SubSeq(lines, 1, h + 1)) > available \div 2
TailLines(lines, h, available) ==
    LET budget == available - Bytes(SubSeq(lines, 1, h))
        tail(t) == Bytes(SubSeq(lines, Len(lines) - t + 1, Len(lines)))
    IN  CHOOSE t \in 0..(Len(lines) - h) :
            /\ t = 0 \/ tail(t) <= budget
            /\ t = Len(lines) - h \/ tail(t + 1) > budget

\* _render_section
Rendered(f) ==
    LET lines == diff[f]
        h == HeadLines(lines, Available(grants[f]))
        t == TailLines(lines, h, Available(grants[f]))
        dropped == Len(lines) - h - t
    IN  IF Size(f) <= grants[f] \/ dropped = 0 THEN [bytes |-> Size(f), dropped |-> 0]
        ELSE [bytes |-> Bytes(SubSeq(lines, 1, h)) + Marker
                        + Bytes(SubSeq(lines, Len(lines) - t + 1, Len(lines))),
              dropped |-> dropped]

\* Variant: the flag is what the record of the output check says.
Truncated_by_record == Total > Limit

Truncated == \E f \in Files : Rendered(f).dropped > 0

RenderSections ==
    /\ at = "render"
    /\ shown' = [f \in Files |-> Rendered(f)]
    /\ truncated' = Truncated
    /\ at' = "asked"
    /\ UNCHANGED <<diff, gate_bytes, left, grants, remaining>>

JudgePromptNext == MeasureOutput \/ PrepareDiff \/ Allocate \/ AllocationEnds \/ RenderSections

JudgePromptSpec == JudgePromptInit /\ [][JudgePromptNext]_jpvars

-----------------------------------------------------------------------------
(* Properties *)

Shown == FoldSet(LAMBDA f, sum : sum + shown[f].bytes, 0, Files)
Budgeted == at \in {"render", "asked"} /\ left = {}

\* "the grants can never sum past the whole", and none is wasted while a file is
\* cut: what small files leave over goes to the larger ones.
AllowanceIsSpent ==
    LET spent == FoldSet(LAMBDA f, sum : sum + grants[f], 0, Files)
    IN  /\ at \in {"allocate", "render", "asked"} /\ ~(at = "asked" /\ left # {})
              => spent + remaining = Allowance
        /\ Budgeted /\ (\E f \in Files : grants[f] < Size(f)) => spent = Allowance

\* No file is starved by the others: each gets the floor, or all of itself, and a
\* larger file no less than a smaller one.
NobodyIsStarved ==
    Budgeted =>
        /\ \A f \in Files : grants[f] >= Size(f) \/ grants[f] >= SmallFloor
        /\ \A f, g \in Files : Size(f) < Size(g) => grants[f] <= grants[g]

\* "a limit that does not hold": a prompt stays under the limit as long as each
\* file that is cut was granted its own name and a marker.
LimitHolds ==
    at = "asked" /\ (Budgeted => /\ HeadBlock <= DiffLimit
                                 /\ \A f \in Files : shown[f].dropped > 0 => grants[f] >= diff[f][1] + Marker)
        => gate_bytes + Shown + Entry * Len(diff) + (IF Budgeted THEN Notice ELSE 0)
               <= Limit

\* A verdict on an abridgement says so: the flag is set when a line is missing,
\* and always when the record calls the diff abridged.
ElisionIsSaid ==
    at = "asked" =>
        /\ truncated <=> \E f \in Files : shown[f].dropped > 0
        /\ Total > Limit => truncated

\* "Whether the abridger will actually cut anything is `total > budget`, the same
\* comparison `prepare_diff` makes on the same bytes."  Violated: the prompt's
\* diff has to make room for the gate results, the record's does not.
RecordTellsOfTheCut == at = "asked" => (truncated <=> Total > Limit)
=============================================================================
