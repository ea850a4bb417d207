----------------------------- MODULE Attestation -----------------------------
(***************************************************************************)
(* The audit packets of one subject (factory/attestation/archive.py).      *)
(* A packet is written from two stores and a directory of artifacts that   *)
(* the workers go on writing; several exports may run at once, and packets *)
(* may be damaged where they lie.  A revision is a digest over content and *)
(* predecessor, so it is modelled by that pair, and the order of digests,  *)
(* which picks the predecessor, by any order.                              *)
(***************************************************************************)
EXTENDS Integers, FiniteSets

CONSTANTS
    Artifacts,    \* identities of captured artifacts
    Exports,      \* exports that may run at once
    MaxArtifact,  \* max_artifact_bytes, in units
    MaxTotal,     \* max_total_bytes
    MaxExports,   \* bound: exports begun
    MaxPackets,   \* bound: packets written
    MaxJudged     \* bound: evaluations recorded

VARIABLES
    judged,       \* the judge's evaluations on record
    kept,         \* the artifacts: as the verification store lists them, and as they lie on disk
    packets,      \* the subject's packet directory
    exports,      \* the exports under way
    begun,        \* how many were begun
    raced         \* an export wrote between another's reading the directory and its own writing

avars == <<judged, kept, packets, exports, begun, raced>>

Sizes == 1..MaxArtifact + 1
Kept == [listed : BOOLEAN, status : {"permitted", "refused"}, size : Sizes, bytes : {"same", "other"}]
ItemStatuses == {"included", "missing", "refused", "oversized"}
Item == [status : ItemStatuses, bytes : {"same", "other", "none"}]
Idle == [at |-> "idle", todo |-> {}, listed |-> {}, judged |-> 0, total |-> 0,
         items |-> [a \in {} |-> {}], predecessor |-> {}, known |-> {}]

AttestTypeOK ==
    /\ judged \in 0..MaxJudged /\ begun \in 0..MaxExports
    /\ kept \in [Artifacts -> Kept] /\ raced \in BOOLEAN
    /\ \A p \in packets : /\ p.n \in 1..MaxPackets /\ p.predecessor \subseteq 1..p.n - 1 /\ p.damage \in {"none", "entry", "manifest"}
                          /\ \A a \in DOMAIN p.content.items : p.content.items[a] \in Item
    /\ \A e \in Exports : /\ exports[e].at \in {"idle", "judge", "artifacts", "compile", "write"}
                          /\ exports[e].todo \subseteq Artifacts /\ exports[e].total \in Nat

AttestInit ==
    /\ judged = 0 /\ packets = {} /\ begun = 0 /\ raced = FALSE
    /\ \E size \in Sizes, one \in {CHOOSE a \in Artifacts : TRUE} :
          kept = [a \in Artifacts |-> [listed |-> FALSE, status |-> "permitted", bytes |-> "same", size |-> IF a = one THEN size ELSE 1]]
    /\ exports = [e \in Exports |-> Idle]

At(e, place) == exports[e].at = place

-----------------------------------------------------------------------------
(* The evidence goes on being written, and being swept *)

record_scoring_evaluation ==
    /\ judged < MaxJudged /\ judged' = judged + 1
    /\ UNCHANGED <<kept, packets, exports, begun, raced>>

Capture(a) ==
    /\ ~kept[a].listed
    /\ \E s \in {"permitted", "refused"} : kept' = [kept EXCEPT ![a].listed = TRUE, ![a].status = s]
    /\ UNCHANGED <<judged, packets, exports, begun, raced>>

Rots(a) ==
    /\ kept[a].listed /\ kept[a].status = "permitted" /\ kept' = [kept EXCEPT ![a].bytes = "other"]
    /\ UNCHANGED <<judged, packets, exports, begun, raced>>

Damage(p) ==
    /\ p.damage = "none"
    /\ \E d \in {"entry", "manifest"} : packets' = (packets \ {p}) \cup {[p EXCEPT !.damage = d]}
    /\ UNCHANGED <<judged, kept, exports, begun, raced>>

-----------------------------------------------------------------------------
(* export_packet: the verification store, the journal, the artifacts one by *)
(* one in the operator's order, the directory, and the packet               *)

export_packet(e) ==
    /\ At(e, "idle")
    /\ begun < MaxExports /\ begun' = begun + 1
    /\ \E pick \in SUBSET Artifacts :
          exports' = [exports EXCEPT ![e] = [Idle EXCEPT !.at = "judge", !.todo = pick,
                                                        !.listed = {a \in pick : kept[a].listed}]]
    /\ UNCHANGED <<judged, kept, packets, raced>>

read_scoring_evaluations(e) ==
    /\ At(e, "judge")
    /\ exports' = [exports EXCEPT ![e].at = "artifacts", ![e].judged = judged]
    /\ UNCHANGED <<judged, kept, packets, begun, raced>>

\* Variant: the retained bytes are taken as they are.
_source_status_undigested(a) ==
    IF kept[a].status # "permitted" THEN "refused"
    ELSE IF kept[a].size > MaxArtifact THEN "oversized" ELSE "included"

\* What lies there, if anything does, is read through, bounded, and compared with its digest.
_source_status(a) ==
    IF kept[a].status # "permitted" THEN "refused"
    ELSE IF kept[a].size > MaxArtifact THEN "oversized"
    ELSE IF kept[a].bytes = "other" THEN "refused" ELSE "included"

\* What does not fit any more counts against what comes after it all the same.
Select(e, a) ==
    LET x == exports[e]
        found == IF a \notin x.listed THEN "missing" ELSE _source_status(a)
        total == x.total + IF found = "included" THEN kept[a].size ELSE 0
        status == IF found = "included" /\ total > MaxTotal THEN "oversized" ELSE found
        item == [status |-> status, bytes |-> IF status = "included" THEN kept[a].bytes ELSE "none"]
    IN /\ At(e, "artifacts") /\ a \in x.todo
       /\ exports' = [exports EXCEPT ![e].todo = @ \ {a}, ![e].total = total,
                                     ![e].items = [b \in DOMAIN @ \cup {a} |-> IF b = a THEN item ELSE @[b]]]
       /\ UNCHANGED <<judged, kept, packets, begun, raced>>

Complete(items) == \A a \in DOMAIN items : items[a].status = "included"
Content(e) == [judged |-> exports[e].judged, items |-> exports[e].items]
\* A manifest that cannot be read is passed over.
_read_existing_manifests == {p \in packets : p.damage # "manifest"}

\* Variant: every export is a new revision upon the last.
_revision_always_new(existing, content) ==
    IF existing = {} THEN {{}} ELSE {{p.n} : p \in existing}

\* What a packet's predecessor may be: that of a packet with this content, or
\* the greatest revision, which is the first of any order of digests.
_revision(existing, content) ==
    LET matching == {p \in existing : p.content = content} IN
    IF matching # {} THEN {p.predecessor : p \in matching}
    ELSE IF existing = {} THEN {{}} ELSE {{p.n} : p \in existing}

Compile(e) ==
    /\ At(e, "artifacts") /\ exports[e].todo = {}
    /\ \/ ~Complete(exports[e].items) /\ exports' = [exports EXCEPT ![e] = Idle]     \* strict
       \/ \E predecessor \in _revision(_read_existing_manifests, Content(e)) :
             exports' = [exports EXCEPT ![e].at = "write", ![e].listed = {}, ![e].predecessor = predecessor, ![e].known = {p.n : p \in packets}]
    /\ UNCHANGED <<judged, kept, packets, begun, raced>>

\* A file of that name is the same packet, or the export is refused.
_atomic_archive_write(e) ==
    /\ At(e, "write")
    /\ LET there == {p \in packets : p.content = Content(e) /\ p.predecessor = exports[e].predecessor} IN
       \/ there # {} /\ UNCHANGED <<packets, raced>>
       \/ /\ there = {} /\ Cardinality(packets) < MaxPackets
          /\ packets' = packets \cup {[n |-> Cardinality(packets) + 1, content |-> Content(e), damage |-> "none",
                                       predecessor |-> exports[e].predecessor]}
          /\ raced' = (raced \/ {p.n : p \in packets} # exports[e].known)
    /\ exports' = [exports EXCEPT ![e] = Idle]
    /\ UNCHANGED <<judged, kept, begun>>

verify_packet(p, strict) ==
    /\ p.damage = "none"
    /\ strict => Complete(p.content.items)

AttestNext ==
    \/ record_scoring_evaluation
    \/ \E a \in Artifacts : Capture(a) \/ Rots(a)
    \/ \E p \in packets : Damage(p)
    \/ \E e \in Exports :
          \/ export_packet(e) \/ read_scoring_evaluations(e) \/ Compile(e) \/ _atomic_archive_write(e)
          \/ \E a \in Artifacts : Select(e, a)

AttestSpec == AttestInit /\ [][AttestNext]_avars

-----------------------------------------------------------------------------
(* Properties *)

\* A packet that verifies as complete holds, for every artifact selected, the
\* bytes whose digest the verification recorded, however the directory of
\* artifacts and the packet itself have fared since (_source_status, verify_packet).
CompleteIsTrue ==
    \A p \in packets : verify_packet(p, TRUE) => \A a \in DOMAIN p.content.items : p.content.items[a].bytes = "same"

\* Exports that do not overlap never write the same evidence under two
\* revisions: exporting again finds the packet that is there (export_packet).
OneRevisionOfAContent ==
    ~raced => \A p, q \in {p \in packets : p.damage # "manifest"} : (p.content = q.content) => p = q

\* Each packet's predecessor is the packet before it.  Violated: it is the one
\* whose digest is greatest, so a packet may drop out of the chain.
PredecessorIsTheLast == \A p \in packets : p.predecessor = (IF p.n = 1 THEN {} ELSE {p.n - 1})

=============================================================================
