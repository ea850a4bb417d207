---------------------------- MODULE CredentialOwner -------------------------
(***************************************************************************)
(* One Codex subscription, many nodes: the lease of                        *)
(* factory/workgraph/codex_credential.py, the bracket EpicWorkflow puts    *)
(* round an attempt (factory/workgraph/workflow.py), and the end of the    *)
(* attempt as the bracket sees it.                                         *)
(*                                                                         *)
(* The owner directory holds a manifest and, while the credential is in    *)
(* use, active-lease.json; both change under one flock taken without       *)
(* waiting.  An activity runs at least once, so an admission whose answer  *)
(* is lost has still written its lease.  `user[n].at` is what node n       *)
(* waits for: ask, locked, prepare, run, release, unlock, then done or     *)
(* raised.  Leases are numbered as uuid4 draws them, never twice the same. *)
(***************************************************************************)
EXTENDS Naturals, FiniteSets

CONSTANTS
    Users,           \* the nodes that ask for this owner
    Declarations,    \* what a node may declare: the manifests of its owner
    MaxLeases,       \* bound: leases ever drawn
    MaxOwnerTries    \* _ISSUE_KEY_RETRIES.maximum_attempts

ASSUME CredentialOwnerAssumption ==
    IsFiniteSet(Users) /\ MaxLeases \in Nat \ {0} /\ MaxOwnerTries \in Nat \ {0} /\ 0 \notin Declarations

VARIABLES
    manifest,   \* owner-manifest.json, 0 while there is none
    active,     \* active-lease.json: the lease in use, or 0
    flock,      \* the node whose activity holds the transaction lock, or NoUser
    drawn,      \* leases drawn so far
    user        \* the nodes

ovars == <<manifest, active, flock, drawn, user>>

NoUser == "nobody"
UserOver == {"done", "raised"}

User == [at : {"ask", "locked", "prepare", "run", "release", "unlock"} \cup UserOver,
         declares : Declarations, lease : 0..MaxLeases, tries : 0..(MaxOwnerTries - 1),
         agent : BOOLEAN, killed : BOOLEAN, abandoned : BOOLEAN]

OwnerTypeOK ==
    /\ manifest \in Declarations \cup {0} /\ active \in 0..MaxLeases /\ drawn \in 0..MaxLeases
    /\ flock \in Users \cup {NoUser}
    /\ user \in [Users -> User]

OwnerInit ==
    /\ manifest = 0 /\ active = 0 /\ flock = NoUser /\ drawn = 0
    /\ user \in [Users -> [at : {"ask"}, declares : Declarations, lease : {0}, tries : {0},
                           agent : {FALSE}, killed : {FALSE}, abandoned : {FALSE}]]

Go(n, place) == user' = [user EXCEPT ![n].at = place, ![n].tries = 0]

\* An activity attempt that ends in an error is run again until its retries
\* are spent; the coroutine then raises.
RetryActivity(n, again) ==
    IF user[n].tries + 1 = MaxOwnerTries THEN Go(n, "raised")
    ELSE user' = [user EXCEPT ![n].at = again, ![n].tries = @ + 1]

-----------------------------------------------------------------------------
(* admit_codex_owner *)

\* The loop's own check, between two asks.
StopAsking(n) ==
    /\ user[n].at = "ask" /\ user[n].killed
    /\ Go(n, "done")
    /\ UNCHANGED <<manifest, active, flock, drawn>>

\* The lock is tried once.  Held by another it means busy, and the node sleeps
\* and asks again: nothing changes.
TakeLock(n) ==
    /\ user[n].at = "ask" /\ ~user[n].killed /\ flock = NoUser
    /\ flock' = n /\ Go(n, "locked")
    /\ UNCHANGED <<manifest, active, drawn>>

\* A manifest that does not match is a refusal, which fails the epic.
Refuse(n) ==
    /\ user[n].at = "locked" /\ manifest \notin {0, user[n].declares}
    /\ flock' = NoUser /\ Go(n, "raised")
    /\ UNCHANGED <<manifest, active, drawn>>

Busy(n) ==
    /\ user[n].at = "locked" /\ manifest \in {0, user[n].declares} /\ active # 0
    /\ manifest' = user[n].declares
    /\ flock' = NoUser /\ Go(n, "ask")
    /\ UNCHANGED <<active, drawn>>

\* Variant: the lease file is not looked at before it is replaced.
Admit_unchecked(n) ==
    /\ user[n].at = "locked" /\ manifest \in {0, user[n].declares}
    /\ drawn < MaxLeases
    /\ manifest' = user[n].declares
    /\ drawn' = drawn + 1 /\ active' = drawn'
    /\ flock' = NoUser
    /\ \/ user' = [user EXCEPT ![n].at = "prepare", ![n].lease = drawn', ![n].tries = 0]
       \/ RetryActivity(n, "ask")

\* The manifest first, then a lease nobody has seen before.
Admit(n) ==
    /\ user[n].at = "locked" /\ manifest \in {0, user[n].declares} /\ active = 0
    /\ drawn < MaxLeases
    /\ manifest' = user[n].declares
    /\ drawn' = drawn + 1 /\ active' = drawn'
    /\ flock' = NoUser
    /\ \/ user' = [user EXCEPT ![n].at = "prepare", ![n].lease = drawn', ![n].tries = 0]
       \/ RetryActivity(n, "ask")          \* the answer is lost, the lease is not

\* The worker dies holding the lock: the kernel lets it go, and what was not
\* yet replaced is as it was.
DieLocked(n) ==
    /\ user[n].at \in {"locked", "unlock"} /\ flock = n
    /\ flock' = NoUser
    /\ RetryActivity(n, IF user[n].at = "locked" THEN "ask" ELSE "release")
    /\ UNCHANGED <<manifest, active, drawn>>

-----------------------------------------------------------------------------
(* The bracket in _run_node *)

\* Standards, routing and the key come between the admission and the try.
PrepareAttempt(n) ==
    /\ user[n].at = "prepare"
    /\ \/ user' = [user EXCEPT ![n].at = "run", ![n].agent = TRUE]
       \/ Go(n, "raised")
    /\ UNCHANGED <<manifest, active, flock, drawn>>

\* Variant: the adapter's owner_retained is not read.
AttemptEnds_unretained(n) ==
    /\ user[n].at = "run" /\ ~user[n].killed
    /\ \/ user' = [user EXCEPT ![n].at = "release", ![n].agent = FALSE]
       \/ Go(n, "release")
    /\ UNCHANGED <<manifest, active, flock, drawn>>

\* The adapter's word: the group is proved dead, or its owner is retained and
\* the bracket keeps the lease.
AttemptEnds(n) ==
    /\ user[n].at = "run" /\ ~user[n].killed
    /\ \/ user' = [user EXCEPT ![n].at = "release", ![n].agent = FALSE]
       \/ Go(n, "done")
    /\ UNCHANGED <<manifest, active, flock, drawn>>

\* The attempt ends with nobody's word: its worker died and its heartbeat
\* lapsed, or the kill cancelled it and its result is not read.
AttemptAbandoned(n) ==
    /\ user[n].at = "run"
    /\ \E alive \in BOOLEAN :
          user' = [user EXCEPT ![n].at = "release", ![n].agent = alive, ![n].abandoned = TRUE]
    /\ UNCHANGED <<manifest, active, flock, drawn>>

\* release_codex_owner: nothing to release when there is no file, busy is an
\* error here, a lease that is not this one's is refused.
Release(n) ==
    /\ user[n].at = "release"
    /\ \/ active = 0 /\ Go(n, "done") /\ UNCHANGED flock
       \/ active # 0 /\ flock = NoUser /\ flock' = n
          /\ user' = [user EXCEPT ![n].at = "unlock"]
       \/ active # 0 /\ flock # NoUser /\ RetryActivity(n, "release") /\ UNCHANGED flock
    /\ UNCHANGED <<manifest, active, drawn>>

Unlink(n) ==
    /\ user[n].at = "unlock"
    /\ flock' = NoUser
    /\ IF active \in {0, user[n].lease}
       THEN active' = 0 /\ (Go(n, "done") \/ RetryActivity(n, "release"))
       ELSE RetryActivity(n, "release") /\ UNCHANGED active
    /\ UNCHANGED <<manifest, drawn>>

KillUser(n) ==
    /\ ~user[n].killed /\ user[n].at \notin UserOver
    /\ user' = [user EXCEPT ![n].killed = TRUE]
    /\ UNCHANGED <<manifest, active, flock, drawn>>

\* A survivor of an ended attempt dies on its own at last.
SurvivorDies(n) ==
    /\ user[n].agent /\ user[n].at # "run"
    /\ user' = [user EXCEPT ![n].agent = FALSE]
    /\ UNCHANGED <<manifest, active, flock, drawn>>

OwnerNext ==
    \E n \in Users :
        \/ StopAsking(n) \/ TakeLock(n) \/ Refuse(n) \/ Busy(n) \/ Admit(n) \/ DieLocked(n)
        \/ PrepareAttempt(n) \/ AttemptEnds(n) \/ AttemptAbandoned(n)
        \/ Release(n) \/ Unlink(n) \/ KillUser(n) \/ SurvivorDies(n)

OwnerSpec == OwnerInit /\ [][OwnerNext]_ovars

-----------------------------------------------------------------------------
(* Properties *)

Holding(n) == user[n].lease # 0 /\ user[n].at \in {"prepare", "run"}

\* No two nodes are between their admission and their release at a time,
\* whatever is retried, lost or killed: the one that is holds the lease on disk.
LeaseExclusive == \A n \in Users : Holding(n) => active = user[n].lease

\* The credential is not lent on while an agent still has it, unless nobody
\* lived to say so: a dead worker or a kill the result of which is not read.
NotLentWhileUsed ==
    \A n, m \in Users : n # m /\ user[n].agent /\ Holding(m) => user[n].abandoned
=============================================================================
