--------------------------- MODULE Workers_proofs ---------------------------
(***************************************************************************)
(* Theorems of Workers, for every bound on the components' worlds, in      *)
(* three parts: the agent (CredentialOwner, AgentSession), the verdict     *)
(* (Gates, Judge) and the fleet (Deploy, Supervisor, Probe).  The parts    *)
(* use nothing of one another; each is told of at its head.                *)
(***************************************************************************)
EXTENDS Workers, FiniteSetTheorems, NaturalsInduction, WellFoundedInduction, TLAPS

-----------------------------------------------------------------------------
(***************************************************************************)
(*                               THE AGENT                                 *)
(*                                                                         *)
(* An agent is alone with what it was given, for any number of executions, *)
(* beats, worker deaths, nodes, leases and retries.                        *)
(*                                                                         *)
(* The lease comes first, then the process group, for which neither        *)
(* property is inductive.  That no agent lives behind a result rests on a  *)
(* group being launched once; that two never share the worktree rests on   *)
(* Temporal starting an execution only after the last is over or given up, *)
(* so that one execution at a time stands between its reap and its pid     *)
(* file, and on the file naming every other living group until a group is  *)
(* known to be lost sight of.                                              *)
(***************************************************************************)

-----------------------------------------------------------------------------
(***************************************************************************)
(* The lease of CredentialOwner, for every number of nodes, declarations,  *)
(* leases and retries.                                                     *)
(*                                                                         *)
(* LeaseExclusive is not inductive: that a node's release cannot take      *)
(* another's lease away rests on no lease being drawn twice, and that an   *)
(* admission finds nobody holding on a lease in use not being 0.           *)
(* NotLentWhileUsed needs, besides, that an agent nobody lost sight of     *)
(* stands behind the lease on disk even after its bracket is over.         *)
(***************************************************************************)

\* Every lease in use or remembered was drawn, and no two nodes drew the same.
LeasesAreDrawn ==
    /\ active <= drawn
    /\ \A n \in Users : user[n].lease <= drawn
    /\ \A n, m \in Users : n # m /\ user[n].lease # 0 => user[n].lease # user[m].lease

\* Between its admission and its release a node has a lease, the one on disk.
HolderHasIt ==
    \A n \in Users : user[n].at \in {"prepare", "run"} => user[n].lease # 0 /\ active = user[n].lease

\* An agent somebody still answers for stands behind the lease on disk.
AgentHasIt ==
    \A n \in Users : user[n].agent /\ ~user[n].abandoned
        => /\ user[n].at \in {"run", "done"}
           /\ user[n].lease # 0 /\ active = user[n].lease

LeaseInv == OwnerTypeOK /\ LeasesAreDrawn /\ HolderHasIt /\ AgentHasIt

\* What a move may put in a node's record.
LEMMA MovedUser ==
    ASSUME NEW u \in User, NEW t \in 0..(MaxOwnerTries - 1),
           NEW place \in {"ask", "locked", "prepare", "run", "release", "unlock", "done", "raised"}
    PROVE  [u EXCEPT !.at = place, !.tries = t] \in User
BY DEF User, UserOver

LEMMA LentUser ==
    ASSUME NEW u \in User, NEW l \in 0..MaxLeases, 0 \in 0..(MaxOwnerTries - 1)
    PROVE  [u EXCEPT !.at = "prepare", !.lease = l, !.tries = 0] \in User
BY DEF User, UserOver

\* A retry moves nothing but the node's own place and its count of tries.
LEMMA RetryKeeps ==
    ASSUME OwnerTypeOK, NEW n \in Users, NEW again \in {"ask", "release"}, RetryActivity(n, again)
    PROVE  \E place \in {again, "raised"}, t \in 0..(MaxOwnerTries - 1) :
              user' = [user EXCEPT ![n].at = place, ![n].tries = t]
<1>1. user[n].tries \in 0..(MaxOwnerTries - 1)
    BY DEF OwnerTypeOK, User
<1>2. MaxOwnerTries \in Nat \ {0}
    BY CredentialOwnerAssumption
<1>3. CASE user[n].tries + 1 = MaxOwnerTries
    <2>1. user' = [user EXCEPT ![n].at = "raised", ![n].tries = 0]
        BY <1>3 DEF RetryActivity, Go
    <2>2. 0 \in 0..(MaxOwnerTries - 1)
        BY <1>2
    <2> QED BY <2>1, <2>2
<1>4. CASE user[n].tries + 1 # MaxOwnerTries
    <2>1. user' = [user EXCEPT ![n].at = again, ![n].tries = user[n].tries + 1]
        BY <1>4 DEF RetryActivity
    <2>2. user[n].tries + 1 \in 0..(MaxOwnerTries - 1)
        BY <1>1, <1>2, <1>4
    <2> QED BY <2>1, <2>2
<1> QED BY <1>3, <1>4

\* A move of one node to another place, outside the bracket, with no agent in
\* its care, keeps the invariant while the lease on disk stays.
LEMMA MoveKeeps ==
    ASSUME LeaseInv, NEW n \in Users,
           NEW place \in {"ask", "locked", "release", "unlock", "done", "raised"},
           NEW t \in 0..(MaxOwnerTries - 1),
           user' = [user EXCEPT ![n].at = place, ![n].tries = t],
           user[n].agent => user[n].abandoned \/ place = "done",
           UNCHANGED <<active, drawn>>,
           manifest' \in Declarations \cup {0}, flock' \in Users \cup {NoUser}
    PROVE  LeaseInv'
<1>1. user \in [Users -> User] /\ user[n] \in User
    BY DEF LeaseInv, OwnerTypeOK
<1> DEFINE u == [user[n] EXCEPT !.at = place, !.tries = t]
<1>9. u \in User
    BY <1>1, MovedUser
<1>2. user' = [user EXCEPT ![n] = u]
    BY <1>1
<1>3. user' \in [Users -> User]
    <2> HIDE DEF u
    <2> QED BY <1>1, <1>2, <1>9
<1>4. OwnerTypeOK'
    BY <1>3 DEF LeaseInv, OwnerTypeOK
<1>5. /\ user'[n].at = place
      /\ \A m \in Users : /\ user'[m].lease = user[m].lease /\ user'[m].agent = user[m].agent
                          /\ user'[m].abandoned = user[m].abandoned
                          /\ m # n => user'[m].at = user[m].at
    BY <1>1, <1>2 DEF User
<1>6. LeasesAreDrawn'
    <2>1. \A m \in Users : user'[m].lease = user[m].lease
        BY <1>5
    <2> QED BY ZenonT(40), <2>1 DEF LeaseInv, LeasesAreDrawn
<1>7. HolderHasIt'
    BY <1>5 DEF LeaseInv, HolderHasIt
<1>8. AgentHasIt'
    BY ZenonT(40), <1>5 DEF LeaseInv, AgentHasIt
<1> QED BY <1>4, <1>6, <1>7, <1>8 DEF LeaseInv

\* A change of one node's record that keeps its lease keeps the invariant, when
\* it does not enter the bracket and an agent it has stands behind its lease.
LEMMA ChangeKeeps ==
    ASSUME LeaseInv, NEW n \in Users, NEW u \in User,
           user' = [user EXCEPT ![n] = u],
           u.lease = user[n].lease,
           u.at \in {"prepare", "run"} => user[n].at \in {"prepare", "run"},
           u.agent /\ ~u.abandoned
               => u.at \in {"run", "done"} /\ u.lease # 0 /\ active = u.lease,
           UNCHANGED <<manifest, active, flock, drawn>>
    PROVE  LeaseInv'
<1>1. user \in [Users -> User]
    BY DEF LeaseInv, OwnerTypeOK
<1>2. OwnerTypeOK'
    BY <1>1 DEF LeaseInv, OwnerTypeOK
<1>3. user'[n] = u /\ \A m \in Users : m # n => user'[m] = user[m]
    BY <1>1
<1>4. LeasesAreDrawn'
    <2>1. \A m \in Users : user'[m].lease = user[m].lease
        BY <1>3
    <2> QED BY <2>1 DEF LeaseInv, LeasesAreDrawn
<1>5. HolderHasIt'
    BY <1>3 DEF LeaseInv, HolderHasIt
<1>6. AgentHasIt'
    BY <1>3 DEF LeaseInv, AgentHasIt
<1> QED BY <1>2, <1>4, <1>5, <1>6 DEF LeaseInv

LEMMA LeaseInit == OwnerInit => LeaseInv
<1> SUFFICES ASSUME OwnerInit PROVE LeaseInv
    OBVIOUS
<1> DEFINE Start == [at : {"ask"}, declares : Declarations, lease : {0}, tries : {0},
                     agent : {FALSE}, killed : {FALSE}, abandoned : {FALSE}]
<1>1. user \in [Users -> Start] /\ active = 0 /\ drawn = 0 /\ manifest = 0 /\ flock = NoUser
    BY DEF OwnerInit
<1>2. \A u \in Start : u \in User /\ u.at = "ask" /\ u.lease = 0 /\ u.agent = FALSE
    <2>1. 0 \in 0..(MaxOwnerTries - 1) /\ 0 \in 0..MaxLeases
        BY CredentialOwnerAssumption
    <2> QED BY <2>1 DEF User
<1>3. \A n \in Users : user[n] \in Start
    BY <1>1
<1> HIDE DEF Start
<1>4. OwnerTypeOK
    BY <1>1, <1>2, <1>3, CredentialOwnerAssumption DEF OwnerTypeOK
<1>5. LeasesAreDrawn /\ HolderHasIt /\ AgentHasIt
    BY <1>1, <1>2, <1>3 DEF LeasesAreDrawn, HolderHasIt, AgentHasIt
<1> QED BY <1>4, <1>5 DEF LeaseInv

\* The step that lends the credential: nobody held it, and the lease is new.
LEMMA AdmitKeeps ==
    ASSUME LeaseInv, NEW n \in Users, Admit(n)
    PROVE  LeaseInv'
<1>1. /\ user[n].at = "locked" /\ active = 0 /\ drawn < MaxLeases
      /\ drawn' = drawn + 1 /\ active' = drawn + 1
      /\ flock' = NoUser /\ manifest' \in Declarations
    <2>1. user[n].declares \in Declarations
        BY DEF LeaseInv, OwnerTypeOK, User
    <2> QED BY <2>1 DEF Admit
<1>2. /\ active \in 0..MaxLeases /\ drawn \in 0..MaxLeases /\ MaxLeases \in Nat
      /\ drawn' \in 1..MaxLeases /\ active' \in 1..MaxLeases
      /\ user \in [Users -> User] /\ \A m \in Users : user[m] \in User
      /\ \A m \in Users : user[m].lease \in 0..MaxLeases /\ user[m].lease <= drawn
    BY <1>1, CredentialOwnerAssumption DEF LeaseInv, OwnerTypeOK, LeasesAreDrawn, User
<1>3. \A m \in Users : user[m].at \notin {"prepare", "run"}
    BY <1>1 DEF LeaseInv, HolderHasIt
<1>4. \A m \in Users : user[m].agent => user[m].abandoned
    BY <1>1 DEF LeaseInv, AgentHasIt
<1>5. CASE user' = [user EXCEPT ![n].at = "prepare", ![n].lease = drawn', ![n].tries = 0]
    <2>1. 0 \in 0..(MaxOwnerTries - 1)
        BY CredentialOwnerAssumption
    <2> DEFINE u == [user[n] EXCEPT !.at = "prepare", !.lease = drawn', !.tries = 0]
    <2>7. u \in User /\ user' = [user EXCEPT ![n] = u]
        <3>1. u \in User
            <4>1. drawn' \in 0..MaxLeases
                BY <1>2
            <4> QED BY <1>2, <2>1, <4>1, LentUser
        <3>2. user' = [user EXCEPT ![n] = u]
            BY <1>2, <1>5
        <3> QED BY <3>1, <3>2
    <2>2. OwnerTypeOK'
        BY <1>1, <1>2, <2>7 DEF OwnerTypeOK
    <2>3. /\ user'[n].lease = drawn + 1 /\ user'[n].at = "prepare"
          /\ user'[n].agent = user[n].agent /\ user'[n].abandoned = user[n].abandoned
          /\ \A m \in Users : m # n => user'[m] = user[m]
        BY <1>1, <1>2, <1>5 DEF User
    <2>4. LeasesAreDrawn'
        <3>1. active' <= drawn'
            BY <1>1, <1>2
        <3>2. \A m \in Users : user'[m].lease <= drawn'
            BY <1>1, <1>2, <2>3
        <3>3. \A m, k \in Users : m # k /\ user'[m].lease # 0 => user'[m].lease # user'[k].lease
            <4> SUFFICES ASSUME NEW m \in Users, NEW k \in Users, m # k, user'[m].lease # 0
                         PROVE  user'[m].lease # user'[k].lease
                OBVIOUS
            <4>1. CASE m = n
                BY <4>1, <1>1, <1>2, <2>3
            <4>2. CASE k = n
                BY <4>2, <1>1, <1>2, <2>3
            <4>3. CASE m # n /\ k # n
                BY <4>3, <2>3 DEF LeaseInv, LeasesAreDrawn
            <4> QED BY <4>1, <4>2, <4>3
        <3> QED BY <3>1, <3>2, <3>3 DEF LeasesAreDrawn
    <2>5. HolderHasIt'
        BY <1>1, <1>2, <1>3, <2>3 DEF HolderHasIt
    <2>6. AgentHasIt'
        BY <1>4, <2>3 DEF AgentHasIt
    <2> QED BY <2>2, <2>4, <2>5, <2>6 DEF LeaseInv
<1>6. CASE RetryActivity(n, "ask")
    <2>1. PICK place \in {"ask", "raised"}, t \in 0..(MaxOwnerTries - 1) :
             user' = [user EXCEPT ![n].at = place, ![n].tries = t]
        BY <1>6, RetryKeeps DEF LeaseInv
    <2>6. user' = [user EXCEPT ![n] = [user[n] EXCEPT !.at = place, !.tries = t]]
        BY <1>2, <2>1
    <2>7. [user[n] EXCEPT !.at = place, !.tries = t] \in User
        BY <1>2, MovedUser
    <2>2. OwnerTypeOK'
        BY <1>1, <1>2, <2>6, <2>7 DEF OwnerTypeOK
    <2>3. /\ user'[n].at = place
          /\ \A m \in Users : /\ user'[m].lease = user[m].lease /\ user'[m].agent = user[m].agent
                              /\ user'[m].abandoned = user[m].abandoned
                              /\ m # n => user'[m].at = user[m].at
        BY <1>2, <2>6 DEF User
    <2>4. LeasesAreDrawn'
        BY <1>1, <1>2, <2>3 DEF LeaseInv, LeasesAreDrawn
    <2>5. HolderHasIt' /\ AgentHasIt'
        BY <1>3, <1>4, <2>3 DEF HolderHasIt, AgentHasIt
    <2> QED BY <2>2, <2>4, <2>5 DEF LeaseInv
<1> QED BY <1>5, <1>6 DEF Admit

\* The step that ends a lease: only its own node's lease is unlinked.
LEMMA UnlinkKeeps ==
    ASSUME LeaseInv, NEW n \in Users, Unlink(n)
    PROVE  LeaseInv'
<1>1. user[n].at = "unlock" /\ flock' = NoUser /\ UNCHANGED <<manifest, drawn>>
    BY DEF Unlink
<1>2. user[n].agent => user[n].abandoned
    BY <1>1 DEF LeaseInv, AgentHasIt
<1>3. 0 \in 0..(MaxOwnerTries - 1)
    BY CredentialOwnerAssumption
<1>4. PICK place \in {"release", "raised", "done"}, t \in 0..(MaxOwnerTries - 1) :
         user' = [user EXCEPT ![n].at = place, ![n].tries = t]
    <2>1. Go(n, "done") \/ RetryActivity(n, "release")
        BY DEF Unlink
    <2>2. CASE Go(n, "done")
        BY <2>2, <1>3 DEF Go
    <2>3. CASE RetryActivity(n, "release")
        BY <2>3, RetryKeeps DEF LeaseInv
    <2> QED BY <2>1, <2>2, <2>3
<1>5. CASE active \in {0, user[n].lease}
    <2>1. active' = 0
        BY <1>5 DEF Unlink
    <2>8. user \in [Users -> User] /\ user[n] \in User
        BY DEF LeaseInv, OwnerTypeOK
    <2>9. user' = [user EXCEPT ![n] = [user[n] EXCEPT !.at = place, !.tries = t]]
        BY <1>4, <2>8
    <2>10. [user[n] EXCEPT !.at = place, !.tries = t] \in User
        BY <2>8, MovedUser
    <2>2. OwnerTypeOK'
        BY <1>1, <2>1, <2>8, <2>9, <2>10, CredentialOwnerAssumption DEF LeaseInv, OwnerTypeOK
    <2>3. /\ user'[n].at = place
          /\ \A m \in Users : /\ user'[m].lease = user[m].lease /\ user'[m].agent = user[m].agent
                              /\ user'[m].abandoned = user[m].abandoned
                              /\ m # n => user'[m].at = user[m].at
        BY <2>8, <2>9 DEF User
    <2>4. LeasesAreDrawn'
        BY <1>1, <2>1, <2>3 DEF LeaseInv, OwnerTypeOK, LeasesAreDrawn
    <2>5. \A m \in Users : m # n /\ user[m].lease # 0 => active # user[m].lease
        BY <1>5 DEF LeaseInv, LeasesAreDrawn
    <2>6. HolderHasIt'
        BY <2>3, <2>5 DEF LeaseInv, HolderHasIt
    <2>7. AgentHasIt'
        BY <1>2, <2>3, <2>5 DEF LeaseInv, AgentHasIt
    <2> QED BY <2>2, <2>4, <2>6, <2>7 DEF LeaseInv
<1>6. CASE active \notin {0, user[n].lease}
    <2>1. RetryActivity(n, "release") /\ UNCHANGED active
        BY <1>6 DEF Unlink
    <2>2. PICK p \in {"release", "raised"}, s \in 0..(MaxOwnerTries - 1) :
             user' = [user EXCEPT ![n].at = p, ![n].tries = s]
        BY <2>1, RetryKeeps DEF LeaseInv
    <2> QED BY <1>1, <1>2, <2>1, <2>2, MoveKeeps DEF LeaseInv, OwnerTypeOK
<1> QED BY <1>5, <1>6

-----------------------------------------------------------------------------
(* Every step keeps the invariant. *)

LEMMA LeaseStep == LeaseInv /\ [OwnerNext]_ovars => LeaseInv'
<1> SUFFICES ASSUME LeaseInv, [OwnerNext]_ovars PROVE LeaseInv'
    OBVIOUS
<1>1. /\ manifest \in Declarations \cup {0} /\ flock \in Users \cup {NoUser}
      /\ user \in [Users -> User] /\ 0 \in 0..(MaxOwnerTries - 1)
      /\ \A n \in Users : user[n].declares \in Declarations
    BY CredentialOwnerAssumption DEF LeaseInv, OwnerTypeOK, User
<1>2. CASE UNCHANGED ovars
    BY <1>2 DEF ovars, LeaseInv, OwnerTypeOK, LeasesAreDrawn, HolderHasIt, AgentHasIt
<1>3. ASSUME NEW n \in Users, StopAsking(n) PROVE LeaseInv'
    <2>1. user[n].agent => user[n].abandoned
        BY <1>3 DEF StopAsking, LeaseInv, AgentHasIt
    <2> QED BY <1>1, <1>3, <2>1, MoveKeeps DEF StopAsking, Go
<1>4. ASSUME NEW n \in Users, TakeLock(n) PROVE LeaseInv'
    <2>1. user[n].agent => user[n].abandoned
        BY <1>4 DEF TakeLock, LeaseInv, AgentHasIt
    <2> QED BY <1>1, <1>4, <2>1, MoveKeeps DEF TakeLock, Go
<1>5. ASSUME NEW n \in Users, Refuse(n) PROVE LeaseInv'
    <2>1. user[n].agent => user[n].abandoned
        BY <1>5 DEF Refuse, LeaseInv, AgentHasIt
    <2> QED BY <1>1, <1>5, <2>1, MoveKeeps DEF Refuse, Go
<1>6. ASSUME NEW n \in Users, Busy(n) PROVE LeaseInv'
    <2>1. user[n].agent => user[n].abandoned
        BY <1>6 DEF Busy, LeaseInv, AgentHasIt
    <2> QED BY <1>1, <1>6, <2>1, MoveKeeps DEF Busy, Go
<1>7. ASSUME NEW n \in Users, Admit(n) PROVE LeaseInv'
    BY <1>7, AdmitKeeps
<1>8. ASSUME NEW n \in Users, DieLocked(n) PROVE LeaseInv'
    <2>1. user[n].agent => user[n].abandoned
        BY <1>8 DEF DieLocked, LeaseInv, AgentHasIt
    <2>2. PICK place \in {"ask", "release", "raised"}, t \in 0..(MaxOwnerTries - 1) :
             user' = [user EXCEPT ![n].at = place, ![n].tries = t]
        <3>1. CASE user[n].at = "locked"
            BY <3>1, <1>8, RetryKeeps DEF DieLocked, LeaseInv
        <3>2. CASE user[n].at # "locked"
            BY <3>2, <1>8, RetryKeeps DEF DieLocked, LeaseInv
        <3> QED BY <3>1, <3>2
    <2> QED BY <1>1, <1>8, <2>1, <2>2, MoveKeeps DEF DieLocked
<1>9. ASSUME NEW n \in Users, PrepareAttempt(n) PROVE LeaseInv'
    <2>1. user[n].at = "prepare" /\ UNCHANGED <<manifest, active, flock, drawn>>
        BY <1>9 DEF PrepareAttempt
    <2>2. CASE user' = [user EXCEPT ![n].at = "run", ![n].agent = TRUE]
        <3> DEFINE u == [user[n] EXCEPT !.at = "run", !.agent = TRUE]
        <3>1. u \in User /\ u.lease = user[n].lease /\ u.at = "run" /\ user' = [user EXCEPT ![n] = u]
            BY <1>1, <2>2 DEF User
        <3>2. u.lease # 0 /\ active = u.lease
            BY <2>1, <3>1 DEF LeaseInv, HolderHasIt
        <3> HIDE DEF u
        <3> QED BY <2>1, <3>1, <3>2, ChangeKeeps
    <2>3. CASE Go(n, "raised")
        <3>1. user[n].agent => user[n].abandoned
            BY <2>1 DEF LeaseInv, AgentHasIt
        <3> QED BY <1>1, <2>1, <2>3, <3>1, MoveKeeps DEF Go
    <2> QED BY <1>9, <2>2, <2>3 DEF PrepareAttempt
<1>10. ASSUME NEW n \in Users, AttemptEnds(n) PROVE LeaseInv'
    <2>1. user[n].at = "run" /\ UNCHANGED <<manifest, active, flock, drawn>>
        BY <1>10 DEF AttemptEnds
    <2>2. CASE user' = [user EXCEPT ![n].at = "release", ![n].agent = FALSE]
        <3> DEFINE u == [user[n] EXCEPT !.at = "release", !.agent = FALSE]
        <3>1. /\ u \in User /\ u.lease = user[n].lease /\ u.at = "release" /\ u.agent = FALSE
              /\ user' = [user EXCEPT ![n] = u]
            BY <1>1, <2>2 DEF User
        <3> HIDE DEF u
        <3> QED BY <2>1, <3>1, ChangeKeeps
    <2>3. CASE Go(n, "done")
        BY <1>1, <2>1, <2>3, MoveKeeps DEF Go
    <2> QED BY <1>10, <2>2, <2>3 DEF AttemptEnds
<1>11. ASSUME NEW n \in Users, AttemptAbandoned(n) PROVE LeaseInv'
    <2>1. user[n].at = "run" /\ UNCHANGED <<manifest, active, flock, drawn>>
        BY <1>11 DEF AttemptAbandoned
    <2>2. PICK outlives \in BOOLEAN :
             user' = [user EXCEPT ![n].at = "release", ![n].agent = outlives, ![n].abandoned = TRUE]
        BY <1>11 DEF AttemptAbandoned
    <2> DEFINE u == [user[n] EXCEPT !.at = "release", !.agent = outlives, !.abandoned = TRUE]
    <2>3. /\ u \in User /\ u.lease = user[n].lease /\ u.at = "release" /\ u.abandoned = TRUE
          /\ user' = [user EXCEPT ![n] = u]
        BY <1>1, <2>2 DEF User
    <2> HIDE DEF u
    <2> QED BY <2>1, <2>3, ChangeKeeps
<1>12. ASSUME NEW n \in Users, Release(n) PROVE LeaseInv'
    <2>1. user[n].at = "release" /\ UNCHANGED <<manifest, active, drawn>>
        BY <1>12 DEF Release
    <2>2. user[n].agent => user[n].abandoned
        BY <2>1 DEF LeaseInv, AgentHasIt
    <2>3. CASE Go(n, "done") /\ UNCHANGED flock
        BY <1>1, <2>1, <2>2, <2>3, MoveKeeps DEF Go
    <2>4. CASE flock' = n /\ user' = [user EXCEPT ![n].at = "unlock"]
        <3>1. user' = [user EXCEPT ![n].at = "unlock", ![n].tries = user[n].tries]
            BY <1>1, <2>4 DEF User
        <3>2. user[n].tries \in 0..(MaxOwnerTries - 1)
            BY <1>1 DEF User
        <3> QED BY <1>1, <2>1, <2>2, <2>4, <3>1, <3>2, MoveKeeps
    <2>5. CASE RetryActivity(n, "release") /\ UNCHANGED flock
        <3>1. PICK place \in {"release", "raised"}, t \in 0..(MaxOwnerTries - 1) :
                 user' = [user EXCEPT ![n].at = place, ![n].tries = t]
            BY <2>5, RetryKeeps DEF LeaseInv
        <3> QED BY <1>1, <2>1, <2>2, <2>5, <3>1, MoveKeeps
    <2> QED BY <1>12, <2>3, <2>4, <2>5 DEF Release
<1>13. ASSUME NEW n \in Users, Unlink(n) PROVE LeaseInv'
    BY <1>13, UnlinkKeeps
<1>14. ASSUME NEW n \in Users, KillUser(n) PROVE LeaseInv'
    <2> DEFINE u == [user[n] EXCEPT !.killed = TRUE]
    <2>1. /\ u \in User /\ u.lease = user[n].lease /\ u.at = user[n].at /\ u.agent = user[n].agent
          /\ u.abandoned = user[n].abandoned /\ user' = [user EXCEPT ![n] = u]
        BY <1>1, <1>14 DEF KillUser, User
    <2>2. u.agent /\ ~u.abandoned
              => u.at \in {"run", "done"} /\ u.lease # 0 /\ active = u.lease
        BY <2>1 DEF LeaseInv, AgentHasIt
    <2> HIDE DEF u
    <2> QED BY <1>14, <2>1, <2>2, ChangeKeeps DEF KillUser
<1>15. ASSUME NEW n \in Users, SurvivorDies(n) PROVE LeaseInv'
    <2> DEFINE u == [user[n] EXCEPT !.agent = FALSE]
    <2>1. /\ u \in User /\ u.lease = user[n].lease /\ u.at = user[n].at /\ u.agent = FALSE
          /\ user' = [user EXCEPT ![n] = u]
        BY <1>1, <1>15 DEF SurvivorDies, User
    <2> HIDE DEF u
    <2> QED BY <1>15, <2>1, ChangeKeeps DEF SurvivorDies
<1> QED BY <1>2, <1>3, <1>4, <1>5, <1>6, <1>7, <1>8, <1>9, <1>10, <1>11, <1>12, <1>13, <1>14, <1>15
        DEF OwnerNext

LEMMA LeaseAlways == OwnerSpec => []LeaseInv
<1>1. OwnerInit => LeaseInv
    BY LeaseInit
<1>2. LeaseInv /\ [OwnerNext]_ovars => LeaseInv'
    BY LeaseStep
<1> QED BY <1>1, <1>2, PTL DEF OwnerSpec

-----------------------------------------------------------------------------

\* The lease file, the lock and every node keep their shape, and no retry goes
\* past its policy (admit_codex_owner, release_codex_owner).
THEOREM OwnerTypeCorrect == OwnerSpec => []OwnerTypeOK
<1>1. LeaseInv => OwnerTypeOK
    BY DEF LeaseInv
<1> QED BY <1>1, LeaseAlways, PTL

\* A node between its admission and its release holds the lease on disk,
\* whatever is retried, lost or killed: no two nodes are there at a time.
THEOREM LeaseIsExclusive == OwnerSpec => []LeaseExclusive
<1>1. LeaseInv => LeaseExclusive
    BY DEF LeaseInv, HolderHasIt, LeaseExclusive, Holding
<1> QED BY <1>1, LeaseAlways, PTL

\* The credential is lent on only when no agent has it, or nobody lived to say
\* that one still does (the bracket of _run_node and the adapter's reap).
THEOREM CredentialNotLentWhileUsed == OwnerSpec => []NotLentWhileUsed
<1>1. LeaseInv => NotLentWhileUsed
    BY DEF LeaseInv, LeasesAreDrawn, HolderHasIt, AgentHasIt, NotLentWhileUsed, Holding
<1> QED BY <1>1, LeaseAlways, PTL

-----------------------------------------------------------------------------
(* The process group behind a worktree                                      *)

\* Where an execution stands before it has named its group, and after.
Early == {"reap", "reaping", "launch", "record"}
Late == {"monitor", "beat", "reclaim", "clear"} \cup Ended

\* A living group was launched by its execution, and not yet proved dead by it.
GroupIsLaunched ==
    \A e \in group : ses[e].at \in {"record", "monitor", "beat", "reclaim"} \cup Ended

\* An execution follows on those that ended or were given up while they ran.
OneAfterAnother ==
    /\ \A e \in Exec : ses[e].lapsed => ses[e].at \in Late
    /\ \A d, e \in Exec : d < e /\ ses[e].at # "due" => ses[d].at \in Ended \/ ses[d].lapsed

\* While none is lost sight of, a living group is named by the pid file or about
\* to be, and whoever is about to launch has seen the others dead.
HandleIsHeld ==
    ~handle_lost =>
        /\ \A g \in group : g = pids \/ ses[g].at = "record"
        /\ \A e \in Exec : ses[e].at = "reaping" => group \subseteq {ses[e].saw}
        /\ \A e \in Exec : ses[e].at = "launch" => group = {}
        /\ \A e \in Exec : ses[e].at = "record" => group \subseteq {e}

SessionInv ==
    /\ SessionTypeOK /\ \A e \in Exec : ses[e].since <= ses[e].beats
    /\ GroupIsLaunched /\ OneAfterAnother /\ HandleIsHeld
    /\ NoLiveAgentBehindAResult

-----------------------------------------------------------------------------
(* Lemmas *)

\* One execution at a time is between its reap and its pid file.
LEMMA AloneEarly ==
    ASSUME OneAfterAnother, NEW e \in Exec, ses[e].at \in Early, NEW f \in Exec, f # e
    PROVE  ses[f].at \notin Early
<1>1. e \in Int /\ f \in Int
    BY DEF Exec
<1>2. ~ses[e].lapsed /\ ses[e].at \notin Ended /\ ses[e].at # "due"
    BY DEF OneAfterAnother, Early, Late, Ended
<1>3. CASE f < e
    <2>1. ses[f].at \in Ended \/ ses[f].lapsed
        BY <1>2, <1>3 DEF OneAfterAnother
    <2> QED BY <2>1 DEF OneAfterAnother, Early, Late, Ended
<1>4. CASE e < f
    <2>1. ses[f].at = "due"
        BY <1>2, <1>4 DEF OneAfterAnother
    <2> QED BY <2>1 DEF Early
<1> QED BY <1>1, <1>3, <1>4

\* One execution moves, its own group is all that may come to life, and the
\* handles are held afterwards.
LEMMA MoveSession ==
    ASSUME SessionInv, NEW e \in Exec, NEW r \in Session, ses' = [ses EXCEPT ![e] = r],
           UNCHANGED <<setup, deaths>>, leader' \subseteq group', group' \subseteq group \cup {e},
           pids' \in 0..MaxExec, handle_lost' \in BOOLEAN,
           r.since <= r.beats, r.at # "due",
           e \in group' => r.at \in {"record", "monitor", "beat", "reclaim"} \cup Ended,
           r.lapsed => r.at \in Late,
           ses[e].at \in Ended \/ ses[e].lapsed => r.at \in Ended \/ r.lapsed,
           ses[e].at = "due" => \A d \in Exec : d < e => ses[d].at \in Ended \/ ses[d].lapsed,
           r.ends \in {"COMPLETED", "AGENT_ERROR", "PRE_AGENT_FAILURE", "TIMEOUT"} /\ r.at = "over"
               => e \notin group' \/ r.retained,
           HandleIsHeld'
    PROVE  SessionInv'
<1>1. ses \in [Exec -> Session] /\ group \subseteq Exec
    BY DEF SessionInv, SessionTypeOK
<1>2. ses'[e] = r /\ \A f \in Exec : f # e => ses'[f] = ses[f]
    BY <1>1
<1>3. SessionTypeOK'
    <2>1. ses' \in [Exec -> Session] /\ group' \subseteq Exec
        BY <1>1
    <2> QED BY <2>1 DEF SessionInv, SessionTypeOK
<1>4. \A f \in Exec : ses'[f].since <= ses'[f].beats
    BY <1>2 DEF SessionInv
<1>5. GroupIsLaunched'
    BY <1>1, <1>2 DEF SessionInv, GroupIsLaunched
<1>6. OneAfterAnother'
    <2>1. \A f \in Exec : ses'[f].lapsed => ses'[f].at \in Late
        BY <1>2 DEF SessionInv, OneAfterAnother
    <2>2. ASSUME NEW d \in Exec, NEW f \in Exec, d < f, ses'[f].at # "due"
          PROVE  ses'[d].at \in Ended \/ ses'[d].lapsed
        <3>1. d \in Int /\ f \in Int /\ d # f
            BY <2>2 DEF Exec
        <3>2. ses[d].at \in Ended \/ ses[d].lapsed
            BY <1>2, <2>2 DEF SessionInv, OneAfterAnother
        <3> QED BY <1>2, <3>1, <3>2
    <2> QED BY <2>1, <2>2 DEF OneAfterAnother
<1>7. NoLiveAgentBehindAResult'
    BY <1>1, <1>2 DEF SessionInv, NoLiveAgentBehindAResult
<1> QED BY <1>3, <1>4, <1>5, <1>6, <1>7 DEF SessionInv

\* The handles stay held by a move that launches nothing and names nothing.
LEMMA HandleStays ==
    ASSUME SessionInv, NEW e \in Exec, NEW r, ses' = [ses EXCEPT ![e] = r],
           group' \subseteq group, UNCHANGED <<pids, handle_lost>>,
           ses[e].at # "record", r.at # "record",
           ~handle_lost /\ r.at = "reaping" => group' \subseteq {r.saw},
           ~handle_lost /\ r.at = "launch" => group' = {}
    PROVE  HandleIsHeld'
<1>1. ses \in [Exec -> Session] /\ group \subseteq Exec
    BY DEF SessionInv, SessionTypeOK
<1>2. ses'[e] = r /\ \A f \in Exec : f # e => ses'[f] = ses[f]
    BY <1>1
<1> SUFFICES ASSUME ~handle_lost PROVE HandleIsHeld'
    BY DEF HandleIsHeld
<1>3. \A g \in group' : g = pids' \/ ses'[g].at = "record"
    BY <1>1, <1>2 DEF SessionInv, HandleIsHeld
<1>4. \A f \in Exec : /\ ses'[f].at = "reaping" => group' \subseteq {ses'[f].saw}
                      /\ ses'[f].at = "launch" => group' = {}
                      /\ ses'[f].at = "record" => group' \subseteq {f}
    BY <1>2 DEF SessionInv, HandleIsHeld
<1> QED BY <1>3, <1>4 DEF HandleIsHeld

\* While none is lost sight of, whoever reaps has only the file's group to fear.
LEMMA OnlyTheFiles ==
    ASSUME SessionInv, ~handle_lost, NEW e \in Exec, ses[e].at \in {"reap", "reaping", "launch"}
    PROVE  group \subseteq {pids}
<1> SUFFICES ASSUME NEW g \in group, ses[g].at = "record" PROVE FALSE
    BY DEF SessionInv, HandleIsHeld
<1>1. g \in Exec /\ g # e
    BY DEF SessionInv, SessionTypeOK
<1> QED BY <1>1, AloneEarly DEF SessionInv, Early

-----------------------------------------------------------------------------
(* Launch *)

LEMMA ScheduleKeeps ==
    ASSUME SessionInv, NEW e \in Exec, Schedule(e)
    PROVE  SessionInv'
<1>1. ses[e] \in Session /\ SessionTypeOK
    BY DEF SessionInv, SessionTypeOK
<1>2. PICK r : r = [ses[e] EXCEPT !.at = "reap"]
    OBVIOUS
<1>3. /\ r \in Session /\ r.at = "reap" /\ r.since = ses[e].since /\ r.beats = ses[e].beats
      /\ r.lapsed = ses[e].lapsed
    BY <1>1, <1>2 DEF Session
<1>4. /\ ses' = [ses EXCEPT ![e] = r] /\ ses[e].at = "due"
      /\ UNCHANGED <<setup, leader, group, pids, deaths, handle_lost>>
      /\ \A d \in Exec : d < e => ses[d].at \in Ended \/ ses[d].lapsed
    BY <1>1, <1>2 DEF Schedule, Step, SessionTypeOK
<1>5. e \notin group /\ ~ses[e].lapsed
    BY <1>4 DEF SessionInv, GroupIsLaunched, OneAfterAnother, Ended, Late
<1>6. HandleIsHeld'
    BY <1>3, <1>4, HandleStays
<1> QED BY <1>1, <1>3, <1>4, <1>5, <1>6, MoveSession DEF SessionInv, SessionTypeOK, Ended

LEMMA UnfitKeeps ==
    ASSUME SessionInv, NEW e \in Exec, CredentialUnfit(e)
    PROVE  SessionInv'
<1>1. ses[e] \in Session /\ SessionTypeOK
    BY DEF SessionInv, SessionTypeOK
<1>2. PICK refused \in {"AGENT_LAUNCH_FAILED", "PRE_AGENT_FAILURE"} : End(e, refused, FALSE)
    BY DEF CredentialUnfit
<1>3. PICK r : r = [ses[e] EXCEPT !.at = "over", !.ends = refused, !.retained = FALSE]
    OBVIOUS
<1>4. /\ r \in Session /\ r.at = "over" /\ r.since = ses[e].since /\ r.beats = ses[e].beats
    BY <1>1, <1>3 DEF Session, Terminations, Ended
<1>5. /\ ses' = [ses EXCEPT ![e] = r] /\ ses[e].at = "reap"
      /\ UNCHANGED <<setup, leader, group, pids, deaths, handle_lost>>
    BY <1>1, <1>2, <1>3 DEF CredentialUnfit, End, SessionTypeOK
<1>6. e \notin group
    BY <1>5 DEF SessionInv, GroupIsLaunched, Ended
<1>7. HandleIsHeld'
    BY <1>4, <1>5, HandleStays
<1> QED BY <1>1, <1>4, <1>5, <1>6, <1>7, MoveSession DEF SessionInv, SessionTypeOK, Ended, Late

LEMMA ReapSessionKeeps ==
    ASSUME SessionInv, NEW e \in Exec, Reap(e)
    PROVE  SessionInv'
<1>1. /\ ses[e] \in Session /\ SessionTypeOK /\ ses[e].at = "reap"
      /\ UNCHANGED <<setup, pids, deaths, handle_lost>>
    BY DEF SessionInv, SessionTypeOK, Reap
<1>2. e \notin group /\ ~ses[e].lapsed
    BY <1>1 DEF SessionInv, GroupIsLaunched, OneAfterAnother, Ended, Late
<1>3. ~handle_lost => group \subseteq {pids}
    BY <1>1, OnlyTheFiles
<1>4. CASE pids \notin group
    <2>1. PICK r : r = [ses[e] EXCEPT !.at = "launch"]
        OBVIOUS
    <2>2. /\ r \in Session /\ r.at = "launch" /\ r.since = ses[e].since /\ r.beats = ses[e].beats
          /\ r.lapsed = ses[e].lapsed
        BY <1>1, <2>1 DEF Session
    <2>3. ses' = [ses EXCEPT ![e] = r] /\ UNCHANGED <<leader, group>>
        BY <1>1, <1>4, <2>1 DEF Reap, Step, SessionTypeOK
    <2>4. HandleIsHeld'
        BY <1>1, <1>3, <1>4, <2>2, <2>3, HandleStays
    <2> QED BY <1>1, <1>2, <2>2, <2>3, <2>4, MoveSession DEF SessionInv, SessionTypeOK, Ended
<1>5. CASE pids \in group
    <2>1. PICK r : r = [ses[e] EXCEPT !.at = "reaping", !.saw = pids]
        OBVIOUS
    <2>2. /\ r \in Session /\ r.at = "reaping" /\ r.saw = pids
          /\ r.since = ses[e].since /\ r.beats = ses[e].beats /\ r.lapsed = ses[e].lapsed
        BY <1>1, <2>1 DEF Session, SessionTypeOK
    <2>3. ses' = [ses EXCEPT ![e] = r] /\ group' \subseteq group /\ leader' \subseteq group'
        BY <1>1, <1>5, <2>1 DEF Reap, SessionTypeOK
    <2>4. HandleIsHeld'
        BY <1>1, <1>3, <2>2, <2>3, HandleStays
    <2> QED BY <1>1, <1>2, <2>2, <2>3, <2>4, MoveSession DEF SessionInv, SessionTypeOK, Ended
<1> QED BY <1>4, <1>5

LEMMA ReapedKeeps ==
    ASSUME SessionInv, NEW e \in Exec, Reaped(e)
    PROVE  SessionInv'
<1>1. /\ ses[e] \in Session /\ SessionTypeOK /\ ses[e].at = "reaping"
      /\ UNCHANGED <<setup, leader, group, deaths, handle_lost>>
    BY DEF SessionInv, SessionTypeOK, Reaped
<1>2. e \notin group /\ ~ses[e].lapsed
    BY <1>1 DEF SessionInv, GroupIsLaunched, OneAfterAnother, Ended, Late
<1>3. CASE ses[e].saw \in group
    <2>1. PICK r : r = [ses[e] EXCEPT !.at = "over", !.ends = "PRE_AGENT_FAILURE", !.retained = TRUE]
        OBVIOUS
    <2>2. /\ r \in Session /\ r.at = "over" /\ r.since = ses[e].since /\ r.beats = ses[e].beats
        BY <1>1, <2>1 DEF Session, Terminations, Ended
    <2>3. ses' = [ses EXCEPT ![e] = r] /\ UNCHANGED pids
        BY <1>1, <1>3, <2>1 DEF Reaped, End, SessionTypeOK
    <2>4. HandleIsHeld'
        BY <1>1, <2>2, <2>3, HandleStays
    <2> QED BY <1>1, <1>2, <2>2, <2>3, <2>4, MoveSession DEF SessionInv, SessionTypeOK, Ended, Late
<1>4. CASE ses[e].saw \notin group
    <2>1. PICK r : r = [ses[e] EXCEPT !.at = "launch"]
        OBVIOUS
    <2>2. /\ r \in Session /\ r.at = "launch" /\ r.since = ses[e].since /\ r.beats = ses[e].beats
          /\ r.lapsed = ses[e].lapsed
        BY <1>1, <2>1 DEF Session
    <2>3. ses' = [ses EXCEPT ![e] = r] /\ pids' = 0 /\ 0 \in 0..MaxExec
        BY <1>1, <1>4, <2>1, AgentSessionAssumption DEF Reaped, Step, SessionTypeOK
    <2>4. ~handle_lost => group = {}
        BY <1>1, <1>4 DEF SessionInv, HandleIsHeld
    <2>5. HandleIsHeld'
        BY <1>1, <2>3, <2>4 DEF HandleIsHeld
    <2> QED BY <1>1, <1>2, <2>2, <2>3, <2>5, MoveSession DEF SessionInv, SessionTypeOK, Ended
<1> QED BY <1>3, <1>4

LEMMA LaunchKeeps ==
    ASSUME SessionInv, NEW e \in Exec, Launch(e)
    PROVE  SessionInv'
<1>1. /\ ses[e] \in Session /\ SessionTypeOK /\ ses[e].at = "launch"
      /\ UNCHANGED <<setup, pids, deaths, handle_lost>>
    BY DEF SessionInv, SessionTypeOK, Launch
<1>2. e \notin group /\ ~ses[e].lapsed
    BY <1>1 DEF SessionInv, GroupIsLaunched, OneAfterAnother, Ended, Late
<1>3. CASE End(e, "AGENT_LAUNCH_FAILED", FALSE) /\ UNCHANGED <<leader, group>>
    <2>1. PICK r : r = [ses[e] EXCEPT !.at = "over", !.ends = "AGENT_LAUNCH_FAILED", !.retained = FALSE]
        OBVIOUS
    <2>2. /\ r \in Session /\ r.at = "over" /\ r.since = ses[e].since /\ r.beats = ses[e].beats
        BY <1>1, <2>1 DEF Session, Terminations, Ended
    <2>3. ses' = [ses EXCEPT ![e] = r]
        BY <1>1, <1>3, <2>1 DEF End, SessionTypeOK
    <2>4. HandleIsHeld'
        BY <1>1, <1>3, <2>2, <2>3, HandleStays
    <2> QED BY <1>1, <1>2, <1>3, <2>2, <2>3, <2>4, MoveSession DEF SessionInv, SessionTypeOK, Ended, Late
<1>4. CASE Step(e, "record") /\ leader' = leader \cup {e} /\ group' = group \cup {e}
    <2>1. PICK r : r = [ses[e] EXCEPT !.at = "record"]
        OBVIOUS
    <2>2. /\ r \in Session /\ r.at = "record" /\ r.since = ses[e].since /\ r.beats = ses[e].beats
          /\ r.lapsed = ses[e].lapsed
        BY <1>1, <2>1 DEF Session
    <2>3. ses' = [ses EXCEPT ![e] = r] /\ ses' \in [Exec -> Session]
        BY <1>1, <1>4, <2>1, <2>2 DEF Step, SessionTypeOK
    <2>4. ses'[e] = r /\ \A f \in Exec : f # e => ses'[f] = ses[f] /\ ses[f].at \notin Early
        BY <1>1, <2>3, AloneEarly DEF SessionInv, SessionTypeOK, Early
    <2>5. ~handle_lost => group' = {e}
        BY <1>1, <1>4 DEF SessionInv, HandleIsHeld
    <2>6. HandleIsHeld'
        BY <1>1, <2>2, <2>4, <2>5 DEF HandleIsHeld, Early
    <2>7. leader' \subseteq group' /\ pids' \in 0..MaxExec /\ handle_lost' \in BOOLEAN
        BY <1>1, <1>4 DEF SessionTypeOK
    <2> QED BY <1>1, <1>2, <1>4, <2>2, <2>3, <2>6, <2>7, MoveSession DEF SessionInv, Ended
<1> QED BY <1>3, <1>4 DEF Launch

LEMMA RecordKeeps ==
    ASSUME SessionInv, NEW e \in Exec, Record(e)
    PROVE  SessionInv'
<1>1. /\ ses[e] \in Session /\ SessionTypeOK /\ ses[e].at = "record"
      /\ UNCHANGED <<setup, leader, group, deaths>>
      /\ pids' = e /\ handle_lost' = (handle_lost \/ pids \in group)
    BY DEF SessionInv, SessionTypeOK, Record
<1>2. PICK r : r = [ses[e] EXCEPT !.at = "monitor"]
    OBVIOUS
<1>3. /\ r \in Session /\ r.at = "monitor" /\ r.since = ses[e].since /\ r.beats = ses[e].beats
      /\ r.lapsed = ses[e].lapsed
    BY <1>1, <1>2 DEF Session
<1>4. ses' = [ses EXCEPT ![e] = r]
    BY <1>1, <1>2 DEF Record, Step, SessionTypeOK
<1>5. ses'[e] = r /\ \A f \in Exec : f # e => ses'[f] = ses[f] /\ ses[f].at \notin Early
    BY <1>1, <1>4, AloneEarly DEF SessionInv, SessionTypeOK, Early
<1>6. ~handle_lost => group \subseteq {e}
    BY <1>1 DEF SessionInv, HandleIsHeld
<1>7. HandleIsHeld'
    BY <1>1, <1>3, <1>5, <1>6 DEF HandleIsHeld, Early
<1>8. pids' \in 0..MaxExec /\ handle_lost' \in BOOLEAN /\ leader' \subseteq group'
    BY <1>1, AgentSessionAssumption DEF SessionTypeOK, Exec
<1> QED BY <1>1, <1>3, <1>4, <1>7, <1>8, MoveSession DEF SessionInv, Ended, Late

-----------------------------------------------------------------------------
(* _monitor and the end of an attempt *)

\* An execution in its monitor, or ending, goes on in place: its group may die.
LEMMA GoOn ==
    ASSUME SessionInv, NEW e \in Exec, NEW r \in Session, ses' = [ses EXCEPT ![e] = r],
           UNCHANGED <<setup, pids, deaths, handle_lost>>,
           leader' \subseteq group', group' \subseteq group,
           ses[e].at \in {"reaping", "monitor", "beat", "reclaim"},
           r.at \in {"monitor", "beat", "reclaim", "clear", "over"}, r.since <= r.beats,
           r.at = "clear" => e \notin group',
           ses[e].lapsed => r.lapsed,
           r.ends \in {"COMPLETED", "AGENT_ERROR", "PRE_AGENT_FAILURE", "TIMEOUT"} /\ r.at = "over"
               => e \notin group' \/ r.retained
    PROVE  SessionInv'
<1>1. HandleIsHeld'
    BY HandleStays
<1>2. SessionTypeOK /\ ses[e].at \notin Ended
    BY DEF SessionInv, Ended
<1>3. /\ r.at \in {"record", "monitor", "beat", "reclaim"} \cup Ended \/ e \notin group'
      /\ r.at \in Late
    BY DEF Ended, Late
<1>4. pids' \in 0..MaxExec /\ handle_lost' \in BOOLEAN /\ group' \subseteq group \cup {e}
    BY <1>2 DEF SessionTypeOK
<1> QED BY <1>1, <1>2, <1>3, <1>4, MoveSession

LEMMA ExitedKeeps ==
    ASSUME SessionInv, NEW e \in Exec, Exited(e)
    PROVE  SessionInv'
<1>1. /\ ses[e] \in Session /\ SessionTypeOK /\ ses[e].at = "monitor"
      /\ UNCHANGED <<setup, leader, group, pids, deaths, handle_lost>>
    BY DEF SessionInv, SessionTypeOK, Exited
<1>2. PICK class \in {"COMPLETED", "AGENT_ERROR", "PRE_AGENT_FAILURE"} :
          ses' = [ses EXCEPT ![e].at = "reclaim", ![e].ends = class]
    BY DEF Exited
<1>3. PICK r : r = [ses[e] EXCEPT !.at = "reclaim", !.ends = class]
    OBVIOUS
<1>4. /\ r \in Session /\ r.at = "reclaim" /\ r.since = ses[e].since /\ r.beats = ses[e].beats
      /\ r.lapsed = ses[e].lapsed
    BY <1>1, <1>3 DEF Session, Terminations
<1>5. ses' = [ses EXCEPT ![e] = r]
    BY <1>1, <1>2, <1>3 DEF SessionTypeOK
<1> QED BY <1>1, <1>4, <1>5, GoOn DEF SessionInv, SessionTypeOK

LEMMA BeatKeeps ==
    ASSUME SessionInv, NEW e \in Exec, Beat(e)
    PROVE  SessionInv'
<1>1. /\ ses[e] \in Session /\ SessionTypeOK /\ ses[e].at = "monitor" /\ ses[e].beats < MaxWait
      /\ UNCHANGED <<setup, leader, group, pids, deaths, handle_lost>>
    BY DEF SessionInv, SessionTypeOK, Beat
<1>2. PICK s : s = IF ses[e].killed THEN ses[e].since + 1 ELSE ses[e].since
    OBVIOUS
<1>3. PICK r : r = [ses[e] EXCEPT !.at = "beat", !.beats = @ + 1, !.since = s]
    OBVIOUS
<1>4. /\ ses[e].beats \in 0..MaxWait /\ ses[e].since \in 0..MaxWait /\ ses[e].since <= ses[e].beats
      /\ MaxWait \in Nat
    BY <1>1, AgentSessionAssumption DEF Session, SessionInv
<1>5. s \in 0..MaxWait /\ s <= ses[e].beats + 1 /\ ses[e].beats + 1 \in 0..MaxWait
    BY <1>1, <1>2, <1>4
<1>6. /\ r \in Session /\ r.at = "beat" /\ r.since = s /\ r.beats = ses[e].beats + 1
      /\ r.lapsed = ses[e].lapsed
    BY <1>1, <1>3, <1>5 DEF Session
<1>7. ses' = [ses EXCEPT ![e] = r]
    BY <1>1, <1>2, <1>3 DEF Beat, SessionTypeOK, Session
<1> QED BY <1>1, <1>5, <1>6, <1>7, GoOn DEF SessionInv, SessionTypeOK

LEMMA BeatDoneKeeps ==
    ASSUME SessionInv, NEW e \in Exec, BeatDone(e)
    PROVE  SessionInv'
<1>1. /\ ses[e] \in Session /\ SessionTypeOK /\ ses[e].at = "beat"
      /\ UNCHANGED <<setup, leader, group, pids, deaths, handle_lost>>
    BY DEF SessionInv, SessionTypeOK, BeatDone
<1>2. PICK r : r = [ses[e] EXCEPT !.at = "monitor"]
    OBVIOUS
<1>3. /\ r \in Session /\ r.at = "monitor" /\ r.since = ses[e].since /\ r.beats = ses[e].beats
      /\ r.lapsed = ses[e].lapsed
    BY <1>1, <1>2 DEF Session
<1>4. ses' = [ses EXCEPT ![e] = r]
    BY <1>1, <1>2 DEF BeatDone, Step, SessionTypeOK
<1> QED BY <1>1, <1>3, <1>4, GoOn DEF SessionInv, SessionTypeOK

LEMMA DeadlineKeeps ==
    ASSUME SessionInv, NEW e \in Exec, Deadline(e)
    PROVE  SessionInv'
<1>1. /\ ses[e] \in Session /\ SessionTypeOK /\ ses[e].at = "monitor"
      /\ UNCHANGED <<setup, leader, group, pids, deaths, handle_lost>>
    BY DEF SessionInv, SessionTypeOK, Deadline
<1>2. PICK r : r = [ses[e] EXCEPT !.at = "reclaim", !.ends = "TIMEOUT"]
    OBVIOUS
<1>3. /\ r \in Session /\ r.at = "reclaim" /\ r.since = ses[e].since /\ r.beats = ses[e].beats
      /\ r.lapsed = ses[e].lapsed
    BY <1>1, <1>2 DEF Session, Terminations
<1>4. ses' = [ses EXCEPT ![e] = r]
    BY <1>1, <1>2 DEF Deadline, SessionTypeOK
<1> QED BY <1>1, <1>3, <1>4, GoOn DEF SessionInv, SessionTypeOK

LEMMA KillKeeps ==
    ASSUME SessionInv, NEW e \in Exec, DeliverKill(e)
    PROVE  SessionInv'
<1>1. /\ ses[e] \in Session /\ SessionTypeOK
      /\ ses[e].at \in {"reaping", "monitor", "beat", "reclaim"}
      /\ UNCHANGED <<setup, leader, group, pids, deaths, handle_lost>>
    BY DEF SessionInv, SessionTypeOK, DeliverKill
<1>2. CASE ses[e].at = "beat"
    <2>1. PICK r : r = [ses[e] EXCEPT !.killed = TRUE, !.at = "monitor"]
        OBVIOUS
    <2>2. /\ r \in Session /\ r.at = "monitor" /\ r.since = ses[e].since
          /\ r.beats = ses[e].beats /\ r.lapsed = ses[e].lapsed
        BY <1>1, <2>1 DEF Session
    <2>3. ses' = [ses EXCEPT ![e] = r]
        BY <1>1, <1>2, <2>1 DEF DeliverKill, SessionTypeOK
    <2> QED BY <1>1, <2>2, <2>3, GoOn DEF SessionInv, SessionTypeOK
<1>3. CASE ses[e].at = "monitor"
    <2>1. PICK r : r = [ses[e] EXCEPT !.killed = TRUE, !.at = "reclaim", !.ends = "KILLED"]
        OBVIOUS
    <2>2. /\ r \in Session /\ r.at = "reclaim" /\ r.since = ses[e].since
          /\ r.beats = ses[e].beats /\ r.lapsed = ses[e].lapsed
        BY <1>1, <2>1 DEF Session, Terminations
    <2>3. ses' = [ses EXCEPT ![e] = r]
        BY <1>1, <1>3, <2>1 DEF DeliverKill, SessionTypeOK
    <2> QED BY <1>1, <2>2, <2>3, GoOn DEF SessionInv, SessionTypeOK
<1>4. CASE ses[e].at \in {"reaping", "reclaim"}
    <2>1. PICK r : r = [ses[e] EXCEPT !.killed = TRUE, !.at = "over", !.ends = "KILLED"]
        OBVIOUS
    <2>2. /\ r \in Session /\ r.at = "over" /\ r.ends = "KILLED" /\ r.since = ses[e].since
          /\ r.beats = ses[e].beats /\ r.lapsed = ses[e].lapsed
        BY <1>1, <2>1 DEF Session, Terminations, Ended
    <2>3. ses' = [ses EXCEPT ![e] = r]
        BY <1>1, <1>4, <2>1 DEF DeliverKill, SessionTypeOK
    <2> QED BY <1>1, <2>2, <2>3, GoOn DEF SessionInv, SessionTypeOK
<1> QED BY <1>1, <1>2, <1>3, <1>4

LEMMA ReclaimKeeps ==
    ASSUME SessionInv, NEW e \in Exec, Reclaim(e)
    PROVE  SessionInv'
<1>1. /\ ses[e] \in Session /\ SessionTypeOK /\ ses[e].at = "reclaim" /\ leader' = leader \ {e}
      /\ UNCHANGED <<setup, pids, deaths, handle_lost>>
    BY DEF SessionInv, SessionTypeOK, Reclaim
<1>2. CASE group' = group \ {e} /\ Step(e, "clear")
    <2>1. PICK r : r = [ses[e] EXCEPT !.at = "clear"]
        OBVIOUS
    <2>2. /\ r \in Session /\ r.at = "clear" /\ r.since = ses[e].since
          /\ r.beats = ses[e].beats /\ r.lapsed = ses[e].lapsed
        BY <1>1, <2>1 DEF Session
    <2>3. ses' = [ses EXCEPT ![e] = r]
        BY <1>1, <1>2, <2>1 DEF Step, SessionTypeOK
    <2>4. leader' \subseteq group' /\ group' \subseteq group /\ e \notin group'
        BY <1>1, <1>2 DEF SessionTypeOK
    <2> QED BY <1>1, <2>2, <2>3, <2>4, GoOn DEF SessionInv
<1>3. ASSUME NEW termination \in Terminations, NEW retained \in BOOLEAN,
             group' = group, End(e, termination, retained),
             termination = "raised" \/ retained
      PROVE  SessionInv'
    <2>1. PICK r : r = [ses[e] EXCEPT !.at = "over", !.ends = termination, !.retained = retained]
        OBVIOUS
    <2>2. /\ r \in Session /\ r.at = "over" /\ r.ends = termination /\ r.retained = retained
          /\ r.since = ses[e].since /\ r.beats = ses[e].beats /\ r.lapsed = ses[e].lapsed
        BY <1>1, <1>3, <2>1 DEF Session, Ended
    <2>3. ses' = [ses EXCEPT ![e] = r]
        BY <1>1, <1>3, <2>1 DEF End, SessionTypeOK
    <2>4. leader' \subseteq group' /\ group' \subseteq group
        BY <1>1, <1>3 DEF SessionTypeOK
    <2> QED BY <1>1, <1>3, <2>2, <2>3, <2>4, GoOn DEF SessionInv
<1>4. \/ group' = group \ {e} /\ Step(e, "clear")
      \/ group' = group /\ End(e, ses[e].ends, TRUE)
      \/ group' = group /\ End(e, "AGENT_ERROR", TRUE)
      \/ group' = group /\ End(e, "raised", FALSE)
    BY DEF Reclaim
<1>5. ses[e].ends \in Terminations /\ "AGENT_ERROR" \in Terminations /\ "raised" \in Terminations
    BY <1>1 DEF Session, Terminations
<1> QED BY <1>2, <1>3, <1>4, <1>5

LEMMA LapseKeeps ==
    ASSUME SessionInv, NEW e \in Exec, HeartbeatLapses(e)
    PROVE  SessionInv'
<1>1. /\ ses[e] \in Session /\ SessionTypeOK /\ ses[e].at \in {"monitor", "beat"}
      /\ UNCHANGED <<setup, leader, group, pids, deaths, handle_lost>>
    BY DEF SessionInv, SessionTypeOK, HeartbeatLapses
<1>2. PICK r : r = [ses[e] EXCEPT !.lapsed = TRUE]
    OBVIOUS
<1>3. /\ r \in Session /\ r.at = ses[e].at /\ r.since = ses[e].since /\ r.beats = ses[e].beats
      /\ r.lapsed
    BY <1>1, <1>2 DEF Session
<1>4. ses' = [ses EXCEPT ![e] = r]
    BY <1>1, <1>2 DEF HeartbeatLapses, SessionTypeOK
<1> QED BY <1>1, <1>3, <1>4, GoOn DEF SessionInv, SessionTypeOK

\* The file is dropped whoever it names: a living group it named is lost sight of.
LEMMA ClearKeeps ==
    ASSUME SessionInv, NEW e \in Exec, Clear(e)
    PROVE  SessionInv'
<1>1. /\ ses[e] \in Session /\ SessionTypeOK /\ ses[e].at = "clear"
      /\ UNCHANGED <<setup, leader, group, deaths>>
      /\ pids' = 0 /\ handle_lost' = (handle_lost \/ pids \in group)
    BY DEF SessionInv, SessionTypeOK, Clear
<1>2. PICK r : r = [ses[e] EXCEPT !.at = "over"]
    OBVIOUS
<1>3. /\ r \in Session /\ r.at = "over" /\ r.since = ses[e].since /\ r.beats = ses[e].beats
      /\ r.lapsed = ses[e].lapsed
    BY <1>1, <1>2 DEF Session, Ended
<1>4. ses' = [ses EXCEPT ![e] = r]
    BY <1>1, <1>2 DEF Clear, Step, SessionTypeOK
<1>5. ses'[e] = r /\ \A f \in Exec : f # e => ses'[f] = ses[f]
    BY <1>1, <1>4 DEF SessionTypeOK
<1>6. e \notin group
    BY <1>1 DEF SessionInv, GroupIsLaunched, Ended
<1>7. HandleIsHeld'
    <2>1. SUFFICES ASSUME ~handle_lost, pids \notin group PROVE HandleIsHeld'
        BY <1>1 DEF HandleIsHeld
    <2>2. \A g \in group : ses'[g].at = "record"
        BY <1>1, <1>5, <1>6, <2>1 DEF SessionInv, SessionTypeOK, HandleIsHeld
    <2>3. \A f \in Exec : /\ ses'[f].at = "reaping" => group \subseteq {ses'[f].saw}
                          /\ ses'[f].at = "launch" => group = {}
                          /\ ses'[f].at = "record" => group \subseteq {f}
        BY <1>3, <1>5, <2>1 DEF SessionInv, HandleIsHeld
    <2> QED BY <1>1, <2>2, <2>3 DEF HandleIsHeld
<1>8. pids' \in 0..MaxExec /\ handle_lost' \in BOOLEAN /\ leader' \subseteq group'
    BY <1>1, AgentSessionAssumption DEF SessionTypeOK
<1> QED BY <1>1, <1>3, <1>4, <1>6, <1>7, <1>8, MoveSession DEF SessionInv, Ended, Late

-----------------------------------------------------------------------------
(* The world *)

\* No execution moves and groups only die.
LEMMA ExitKeeps ==
    ASSUME SessionInv, NEW e \in Exec, AgentExits(e)
    PROVE  SessionInv'
<1>1. /\ leader' = leader \ {e} /\ group' \in {group, group \ {e}} /\ e \in leader
      /\ UNCHANGED <<setup, ses, pids, deaths, handle_lost>>
    BY DEF AgentExits
<1>2. group' \subseteq group /\ leader' \subseteq group'
    BY <1>1 DEF SessionInv, SessionTypeOK
<1>3. SessionTypeOK' /\ (\A f \in Exec : ses'[f].since <= ses'[f].beats)
    BY <1>1, <1>2 DEF SessionInv, SessionTypeOK
<1>4. GroupIsLaunched' /\ OneAfterAnother'
    BY <1>1, <1>2 DEF SessionInv, GroupIsLaunched, OneAfterAnother
<1>5. HandleIsHeld'
    BY <1>1, <1>2 DEF SessionInv, HandleIsHeld
<1>6. NoLiveAgentBehindAResult'
    BY <1>1, <1>2 DEF SessionInv, NoLiveAgentBehindAResult
<1> QED BY <1>3, <1>4, <1>5, <1>6 DEF SessionInv

\* Every running execution is lost; what it leaves behind unnamed is lost sight of.
LEMMA DeathKeeps ==
    ASSUME SessionInv, WorkerDies
    PROVE  SessionInv'
<1>1. SessionTypeOK /\ UNCHANGED <<setup, pids>> /\ deaths' \in 0..MaxDeaths
    <2>1. SessionTypeOK /\ UNCHANGED <<setup, pids>>
        BY DEF SessionInv, WorkerDies
    <2>2. deaths \in 0..MaxDeaths /\ deaths < MaxDeaths /\ deaths' = deaths + 1 /\ MaxDeaths \in Nat
        BY AgentSessionAssumption DEF SessionInv, SessionTypeOK, WorkerDies
    <2> QED BY <2>1, <2>2
<1>2. ASSUME NEW f \in Exec
      PROVE  /\ ses'[f] \in Session /\ ses'[f].since = ses[f].since /\ ses'[f].beats = ses[f].beats
             /\ ses'[f].lapsed = ses[f].lapsed /\ ses'[f].ends = ses[f].ends
             /\ ses'[f].retained = ses[f].retained
             /\ ses'[f].at = IF Running(f) THEN "lost" ELSE ses[f].at
    <2>1. ses[f] \in Session
        BY <1>1 DEF SessionTypeOK
    <2>2. CASE Running(f)
        <3>1. ses'[f] = [ses[f] EXCEPT !.at = "lost"]
            BY <2>2 DEF WorkerDies
        <3> QED BY <2>1, <2>2, <3>1 DEF Session, Ended
    <2>3. CASE ~Running(f)
        <3>1. ses'[f] = ses[f]
            BY <2>3 DEF WorkerDies
        <3> QED BY <2>1, <2>3, <3>1
    <2> QED BY <2>2, <2>3
<1>3. group' \subseteq group /\ leader' \subseteq group' /\ handle_lost' \in BOOLEAN
    BY <1>1 DEF SessionTypeOK, WorkerDies
<1>4. SessionTypeOK'
    <2>1. ses' = [f \in Exec |-> ses'[f]]
        BY DEF WorkerDies
    <2>2. ses' \in [Exec -> Session]
        BY <1>2, <2>1
    <2> QED BY <1>1, <1>3, <2>2 DEF SessionTypeOK
<1>5. \A f \in Exec : ses'[f].since <= ses'[f].beats
    BY <1>2 DEF SessionInv
<1>6. \A f \in Exec : ses'[f].at \in {"due"} \cup Ended
    BY <1>2 DEF Running, Ended
<1>7. GroupIsLaunched'
    <2>1. \A g \in group : ses'[g].at \in Ended
        BY <1>1, <1>2 DEF SessionInv, SessionTypeOK, GroupIsLaunched, Running, Ended
    <2> QED BY <1>3, <2>1 DEF GroupIsLaunched
<1>8. OneAfterAnother'
    <2>1. \A f \in Exec : ses'[f].lapsed => ses'[f].at \in Late
        BY <1>2 DEF SessionInv, OneAfterAnother, Late, Ended
    <2>2. \A d, f \in Exec : d < f /\ ses'[f].at # "due" => ses'[d].at \in Ended \/ ses'[d].lapsed
        BY <1>2 DEF SessionInv, OneAfterAnother, Running, Ended
    <2> QED BY <2>1, <2>2 DEF OneAfterAnother
<1>9. HandleIsHeld'
    <2>1. \A f \in Exec : ses'[f].at \notin {"reaping", "launch", "record"}
        BY <1>6 DEF Ended
    <2>2. ASSUME ~handle_lost', NEW g \in group' PROVE g = pids'
        <3>1. ~setup.dies_with_parent /\ group' = group
            BY <2>2 DEF WorkerDies
        <3>2. g \in Exec /\ ~handle_lost /\ ses[g].at # "record"
            BY <1>1, <2>2, <3>1 DEF WorkerDies, SessionTypeOK
        <3> QED BY <1>1, <2>2, <3>1, <3>2 DEF SessionInv, HandleIsHeld
    <2> QED BY <2>1, <2>2 DEF HandleIsHeld
<1>10. NoLiveAgentBehindAResult'
    BY <1>2, <1>3 DEF SessionInv, NoLiveAgentBehindAResult
<1> QED BY <1>4, <1>5, <1>7, <1>8, <1>9, <1>10 DEF SessionInv

-----------------------------------------------------------------------------
(* The results *)

LEMMA SessionBegins ==
    ASSUME SessionInit PROVE SessionInv
<1>1. MaxExec \in Nat /\ MaxWait \in Nat /\ MaxDeaths \in Nat
    BY AgentSessionAssumption
<1>2. ses \in [Exec -> Session]
    BY <1>1 DEF SessionInit, Session, Ended, Terminations
<1>3. SessionTypeOK
    <2>1. 0 \in 0..MaxExec /\ 0 \in 0..MaxDeaths
        BY <1>1
    <2>2. setup \in [quarantines : BOOLEAN, dies_with_parent : BOOLEAN] /\ leader \subseteq group
          /\ group \subseteq Exec /\ pids = 0 /\ deaths = 0 /\ handle_lost = FALSE
        BY DEF SessionInit
    <2> QED BY <1>2, <2>1, <2>2 DEF SessionTypeOK
<1>4. \A e \in Exec : /\ ses[e].at = "due" /\ ~ses[e].lapsed /\ ses[e].since = 0 /\ ses[e].beats = 0
                      /\ ses[e].ends = "none"
    BY DEF SessionInit
<1>5. group = {}
    BY DEF SessionInit
<1> QED BY <1>3, <1>4, <1>5 DEF SessionInv, GroupIsLaunched, OneAfterAnother, HandleIsHeld,
                               NoLiveAgentBehindAResult

LEMMA SessionKeeps ==
    ASSUME SessionInv, [SessionNext]_svars PROVE SessionInv'
<1>1. CASE UNCHANGED svars
    BY <1>1 DEF svars, SessionInv, SessionTypeOK, GroupIsLaunched, OneAfterAnother, HandleIsHeld,
               NoLiveAgentBehindAResult
<1>2. CASE WorkerDies
    BY <1>2, DeathKeeps
<1>3. ASSUME NEW e \in Exec,
             Schedule(e) \/ Attempt(e) \/ DeliverKill(e) \/ AgentExits(e) \/ HeartbeatLapses(e)
      PROVE  SessionInv'
    BY <1>3, ScheduleKeeps, UnfitKeeps, ReapSessionKeeps, ReapedKeeps, LaunchKeeps, RecordKeeps,
       ExitedKeeps, BeatKeeps, BeatDoneKeeps, DeadlineKeeps, KillKeeps, ReclaimKeeps, ClearKeeps,
       ExitKeeps, LapseKeeps DEF Attempt
<1> QED BY <1>1, <1>2, <1>3 DEF SessionNext

\* A living group that no file names is about to be the only one.
LEMMA HeldIsAlone ==
    ASSUME SessionInv PROVE LaunchAlone
<1> SUFFICES ASSUME ~handle_lost PROVE ~(Cardinality(group) > 1)
    BY DEF LaunchAlone
<1>1. ASSUME NEW x PROVE IsFiniteSet({x}) /\ Cardinality({x}) = 1
    BY FS_Singleton
<1>2. PICK x : group \subseteq {x}
    <2>1. CASE \E e \in Exec : ses[e].at = "record"
        BY <2>1 DEF SessionInv, HandleIsHeld
    <2>2. CASE \A e \in Exec : ses[e].at # "record"
        BY <2>2 DEF SessionInv, SessionTypeOK, HandleIsHeld
    <2> QED BY <2>1, <2>2
<1>3. Cardinality(group) <= 1 /\ Cardinality(group) \in Nat
    <2>1. IsFiniteSet(group) /\ Cardinality(group) <= Cardinality({x})
        BY <1>1, <1>2, FS_Subset
    <2>2. Cardinality(group) \in Nat
        BY <2>1, FS_CardinalityType
    <2> QED BY <1>1, <2>1, <2>2
<1> QED BY <1>3

\* The agent process of a node (run_agent_attempt, SharedAttemptPolicy.run_attempt):
\* whatever its steps are interleaved with, the files, groups and executions agree.
THEOREM SessionInvariant == SessionInit /\ [][SessionNext]_svars => []SessionInv
<1>1. SessionInit => SessionInv
    BY SessionBegins
<1>2. SessionInv /\ [SessionNext]_svars => SessionInv'
    BY SessionKeeps
<1> QED BY <1>1, <1>2, PTL

\* An agent is alone with what it was given: nobody holds another lease than the
\* one on disk, no credential is lent while an agent uses it, no agent lives
\* behind a result, and no two share a worktree unless one was lost sight of.
THEOREM AgentAlwaysFenced == FenceSpec => []AgentFenced
<1>1. SessionInv => NoLiveAgentBehindAResult /\ LaunchAlone
    BY HeldIsAlone DEF SessionInv
<1>2. LeaseExclusive /\ NotLentWhileUsed /\ NoLiveAgentBehindAResult /\ LaunchAlone => AgentFenced
    BY DEF AgentFenced
<1> QED BY <1>1, <1>2, SessionInvariant, LeaseIsExclusive, CredentialNotLentWhileUsed, PTL DEF FenceSpec

-----------------------------------------------------------------------------
(***************************************************************************)
(*                              THE VERDICT                                *)
(*                                                                         *)
(* For any number of executions, gates, writes and worker deaths, of asks  *)
(* and of tries to record: a gate is blamed for its own writes alone, one  *)
(* that passes is clean, the artifact the workflow hears of is on disk     *)
(* (Gates), and a pass on record was earned (Judge).                       *)
(*                                                                         *)
(* A gate's writes are told from the rest by the length the log had before *)
(* it: that a gate has not written before its turn (Fresh), and that in    *)
(* the sandbox nobody writes between two gates (BlameInv), is what makes   *)
(* the comparison of two trees an account of one gate.                     *)
(***************************************************************************)

-----------------------------------------------------------------------------
(* The gates: the inductive invariant                                       *)

\* A gate whose turn has not come has no process and has written nothing.
Fresh(x, g) == <<x, g>> \notin alive /\ \A i \in 1..Len(log) : log[i].by # <<x, g>>

\* What an execution may rely on: the gates to come are fresh, what the gate
\* under way has written came after the tree it is compared with, and the digest
\* it carries from one gate to the next is of bytes on disk.
RunInv(x) ==
    /\ grun[x].at = "idle" => \A g \in Gates : Fresh(x, g)
    /\ grun[x].at = "queue" => \A g \in Gates : g >= grun[x].gate => Fresh(x, g)
    /\ grun[x].at \in {"gate", "after", "publish"} => \A g \in Gates : g > grun[x].gate => Fresh(x, g)
    /\ InThread(x) => grun[x].before <= Len(log)
    /\ grun[x].at \in {"gate", "after"} =>
          \A i \in 1..Len(log) : log[i].by = <<x, grun[x].gate>> => i > grun[x].before
    /\ grun[x].at # "publish" => grun[x].stored \in {0} \cup shelf.blobs

\* An execution starts once those before it were given up or are over.
OneInv == \A x, y \in Runs : y < x /\ grun[x].at # "idle" => Gone(y)

\* In the sandbox a process lives while its gate runs.
SandboxInv ==
    boundary = "bwrap" => \A p \in alive : grun[p[1]].at = "gate" /\ grun[p[1]].gate = p[2]

\* In the sandbox, while no execution was given up, nobody writes between two
\* gates, and under one of them only that one.
BlameInv ==
    boundary = "bwrap" /\ (\A x \in Runs : ~grun[x].lapsed) => \A x \in Runs :
        /\ grun[x].at \in {"queue", "publish"} => grun[x].before \in {Len(log), NoSnapshot}
        /\ grun[x].at \in {"gate", "after"} /\ grun[x].before # NoSnapshot =>
              \A i \in (grun[x].before + 1)..Len(log) : log[i].by = <<x, grun[x].gate>>

GatesInv ==
    /\ GatesTypeOK /\ OneInv /\ SandboxInv /\ BlameInv /\ ArtifactOnDisk
    /\ \A x \in Runs : RunInv(x)

-----------------------------------------------------------------------------
(* The gates: the operators                                                 *)

Threads == {"queue", "gate", "after", "publish"}

\* The numbers up to m are m.
LEMMA UpToFinite == ASSUME NEW m \in Nat PROVE IsFiniteSet(1..m) /\ Cardinality(1..m) = m
<1>1. IsFiniteSet(1..m) /\ Cardinality(1..m) = IF 1 > m THEN 0 ELSE m - 1 + 1
  BY FS_Interval
<1> QED
  BY <1>1

\* The artifact's bytes are counted by its writes, of which there are as many as
\* the log is long at most.
LEMMA ArtifactType == ASSUME GatesTypeOK PROVE Artifact \in Versions
<1> DEFINE I == {i \in 1..Len(log) : log[i].path = "artifact"}
<1>1. Len(log) \in Nat /\ Len(log) <= MaxWrites
  BY DEF GatesTypeOK
<1>2. IsFiniteSet(1..Len(log)) /\ Cardinality(1..Len(log)) = Len(log)
  BY <1>1, UpToFinite
<1>3. IsFiniteSet(I) /\ Cardinality(I) <= Len(log)
  <2>1. I \in SUBSET (1..Len(log))
    OBVIOUS
  <2> HIDE DEF I
  <2>2. IsFiniteSet(I) /\ Cardinality(I) <= Cardinality(1..Len(log))
    BY <1>2, <2>1, FS_Subset
  <2> QED
    BY <1>2, <2>2
<1>4. Cardinality(I) \in Nat
  BY <1>3, FS_CardinalityType
<1>5. MaxWrites \in Nat
  BY GatesAssumption
<1>6. Cardinality(I) \in 0..MaxWrites
  BY <1>1, <1>3, <1>4, <1>5
<1> QED
  BY <1>6 DEF Artifact, Versions

LEMMA IdleRunType == IdleRun \in GateRun /\ IdleRun.at = "idle" /\ IdleRun.stored = 0
<1>1. 1 \in Gates /\ 0 \in Versions
  BY GatesAssumption DEF Gates, Versions
<1> QED
  BY <1>1 DEF IdleRun, GateRun

\* An execution that starts afresh, in a place and with what it must not forget.
LEMMA IdleType ==
    ASSUME NEW place \in {"done", "raised", "lost"}, NEW l \in BOOLEAN, NEW e,
           e = [IdleRun EXCEPT !.at = place, !.lapsed = l]
    PROVE  e \in GateRun /\ e.at = place /\ e.lapsed = l /\ e.stored = 0
<1>1. IdleRun \in GateRun /\ IdleRun.stored = 0
  BY IdleRunType
<1> QED
  BY <1>1 DEF GateRun

\* The gate after one that was compared, or the end.
LEMMA NextGateType ==
    ASSUME GatesTypeOK, NEW x \in Runs, NEW after \in Versions \cup {NoSnapshot},
           NEW e, e = NextGate(x, after)
    PROVE  /\ e \in GateRun /\ e.lapsed = grun[x].lapsed /\ e.stored = grun[x].stored
           /\ \/ e.at = "done"
              \/ e.at = "queue" /\ e.gate = grun[x].gate + 1 /\ e.before = after
<1>1. grun[x] \in GateRun
  BY DEF GatesTypeOK
<1>2. CASE grun[x].gate = GateCount
  <2>1. e = [IdleRun EXCEPT !.at = "done", !.lapsed = grun[x].lapsed,
                            !.passing = grun[x].passing, !.stored = grun[x].stored]
    BY <1>2 DEF NextGate
  <2>2. IdleRun \in GateRun
    BY IdleRunType
  <2> QED
    BY <1>1, <2>1, <2>2 DEF GateRun
<1>3. CASE grun[x].gate # GateCount
  <2>1. e = [grun[x] EXCEPT !.at = "queue", !.gate = @ + 1, !.before = after, !.baseline = Artifact]
    BY <1>3 DEF NextGate
  <2>2. grun[x].gate + 1 \in Gates
    BY <1>1, <1>3, GatesAssumption DEF GateRun, Gates
  <2> QED
    BY ZenonT(40), <1>1, <2>1, <2>2, ArtifactType DEF GateRun
<1> QED
  BY <1>2, <1>3

\* A gate's result.
LEMMA ComparedType ==
    ASSUME GatesTypeOK, NEW x \in Runs, NEW exit0,
           NEW after \in Versions \cup {NoSnapshot}, NEW stored \in Versions,
           NEW e, e = Compared(x, exit0, after, stored)
    PROVE  /\ e \in GateRun /\ e.at = "publish" /\ e.lapsed = grun[x].lapsed
           /\ e.before = after /\ e.gate = grun[x].gate
<1>1. grun[x] \in GateRun
  BY DEF GatesTypeOK
<1> DEFINE pass == grun[x].passing /\ exit0 /\ Passes(x, after)
<1>2. pass \in BOOLEAN
  OBVIOUS
<1>3. e = [grun[x] EXCEPT !.at = "publish", !.before = after, !.stored = stored, !.passing = pass]
  BY DEF Compared
<1> HIDE DEF pass
<1> QED
  BY <1>1, <1>2, <1>3 DEF GateRun

\* An execution that stands still keeps what it relies on, if the log does, no
\* process of its is new and no bytes are lost.
LEMMA RunRests ==
    ASSUME NEW y \in Runs, RunInv(y), grun'[y] = grun[y], log' = log,
           \A g \in Gates : <<y, g>> \in alive' => <<y, g>> \in alive,
           shelf.blobs \subseteq shelf'.blobs
    PROVE  RunInv(y)'
<1>1. \A g \in Gates : Fresh(y, g) => Fresh(y, g)'
  BY DEF Fresh
<1> QED
  BY <1>1 DEF RunInv, InThread

\* What is left to show of a step of one execution that leaves the log alone.
LEMMA RunStep ==
    ASSUME GatesInv, returned = 0, NEW x \in Runs, NEW e \in GateRun, grun' = [grun EXCEPT ![x] = e],
           UNCHANGED <<boundary, log, returned, gdeaths>>, slot' \in 0..MaxRuns,
           shelf' \in [manifest : Versions, blobs : SUBSET Versions], shelf.blobs \subseteq shelf'.blobs,
           alive' \subseteq GateProcs,
           \A y \in Runs : y # x => \A g \in Gates : <<y, g>> \in alive' => <<y, g>> \in alive,
           grun[x].at \notin {"lost", "raised"}, grun[x].lapsed => e.lapsed, e.at # "idle",
           grun[x].at = "idle" => \A y \in Runs : y < x => Gone(y),
           boundary = "bwrap" => \A g \in Gates : <<x, g>> \in alive' => e.at = "gate" /\ e.gate = g,
           RunInv(x)',
           boundary = "bwrap" /\ (\A y \in Runs : ~grun[y].lapsed) =>
               /\ e.at \in {"queue", "publish"} => e.before \in {Len(log), NoSnapshot}
               /\ e.at \in {"gate", "after"} /\ e.before # NoSnapshot =>
                     \A i \in (e.before + 1)..Len(log) : log[i].by = <<x, e.gate>>
    PROVE  GatesInv'
<1>1. /\ grun' \in [Runs -> GateRun] /\ grun'[x] = e
      /\ \A y \in Runs : y # x => grun'[y] = grun[y]
  BY DEF GatesInv, GatesTypeOK
<1>2. GatesTypeOK'
  BY <1>1 DEF GatesInv, GatesTypeOK
<1>3. \A y \in Runs : grun[y].lapsed => grun'[y].lapsed
  BY <1>1
<1>4. OneInv'
  <2>1. \A y \in Runs : Gone(y) => Gone(y)'
    BY <1>1, <1>3 DEF Gone
  <2> SUFFICES ASSUME NEW z \in Runs, NEW y \in Runs, y < z, grun'[z].at # "idle" PROVE Gone(y)'
    BY DEF OneInv
  <2>2. Gone(y)
    BY <1>1 DEF GatesInv, OneInv
  <2> QED
    BY <2>1, <2>2
<1>5. SandboxInv'
  <2> SUFFICES ASSUME boundary = "bwrap", NEW p \in alive'
               PROVE  grun'[p[1]].at = "gate" /\ grun'[p[1]].gate = p[2]
    BY DEF SandboxInv
  <2>1. p \in Runs \X Gates /\ p = <<p[1], p[2]>> /\ p[1] \in Runs /\ p[2] \in Gates
    BY DEF GateProcs
  <2>2. CASE p[1] = x
    BY <1>1, <2>1, <2>2
  <2>3. CASE p[1] # x
    <3>1. p \in alive
      BY <2>1, <2>3
    <3> QED
      BY <1>1, <2>1, <2>3, <3>1 DEF GatesInv, SandboxInv
  <2> QED
    BY <2>2, <2>3
<1>6. BlameInv'
  <2> SUFFICES ASSUME boundary = "bwrap", \A y \in Runs : ~grun'[y].lapsed, NEW z \in Runs
               PROVE  /\ grun'[z].at \in {"queue", "publish"} => grun'[z].before \in {Len(log), NoSnapshot}
                      /\ grun'[z].at \in {"gate", "after"} /\ grun'[z].before # NoSnapshot =>
                            \A i \in (grun'[z].before + 1)..Len(log) : log[i].by = <<z, grun'[z].gate>>
    BY DEF BlameInv
  <2>1. \A y \in Runs : ~grun[y].lapsed
    BY <1>3
  <2>2. CASE z = x
    BY <1>1, <2>1, <2>2
  <2>3. CASE z # x
    BY <1>1, <2>1, <2>3 DEF GatesInv, BlameInv
  <2> QED
    BY <2>2, <2>3
<1>7. ArtifactOnDisk'
  BY GatesAssumption DEF ArtifactOnDisk, Runs
<1>8. \A y \in Runs : y # x => RunInv(y)'
  BY <1>1, RunRests DEF GatesInv
<1> QED
  BY <1>2, <1>4, <1>5, <1>6, <1>7, <1>8 DEF GatesInv

-----------------------------------------------------------------------------
(* The gates: the steps                                                     *)

LEMMA GatesInitInv == GatesInit => GatesInv
<1> SUFFICES ASSUME GatesInit PROVE GatesInv
  OBVIOUS
<1>1. IdleRun \in GateRun /\ IdleRun.at = "idle" /\ IdleRun.stored = 0
  BY IdleRunType
<1>2. /\ grun \in [Runs -> GateRun] /\ \A x \in Runs : grun[x].at = "idle" /\ grun[x].stored = 0
      /\ alive = {} /\ log = <<>> /\ Len(log) = 0
  BY <1>1 DEF GatesInit
<1>3. GatesTypeOK
  BY <1>2, GatesAssumption DEF GatesInit, GatesTypeOK, Versions, Free
<1>4. \A x \in Runs : RunInv(x)
  BY <1>2 DEF RunInv, InThread, Fresh
<1>5. OneInv /\ SandboxInv /\ BlameInv
  BY <1>2 DEF OneInv, SandboxInv, BlameInv
<1>6. ArtifactOnDisk
  BY GatesAssumption DEF ArtifactOnDisk, GatesInit, Runs
<1> QED
  BY <1>3, <1>4, <1>5, <1>6 DEF GatesInv

LEMMA StartKeeps == ASSUME GatesInv, NEW x \in Runs, StartGates(x) PROVE GatesInv'
<1>1. /\ GatesTypeOK /\ grun[x] \in GateRun /\ grun \in [Runs -> GateRun] /\ RunInv(x)
      /\ returned = 0 /\ grun[x].at = "idle" /\ \A y \in Runs : y < x => Gone(y)
      /\ UNCHANGED <<boundary, slot, alive, log, shelf, returned, gdeaths>>
  BY DEF GatesInv, GatesTypeOK, StartGates
<1>2. slot' \in 0..MaxRuns /\ shelf' \in [manifest : Versions, blobs : SUBSET Versions]
      /\ alive' \subseteq GateProcs
  BY <1>1 DEF GatesTypeOK
<1>3. boundary = "bwrap" => \A g \in Gates : <<x, g>> \notin alive'
  BY <1>1 DEF RunInv, Fresh
<1> DEFINE d == [grun[x] EXCEPT !.at = "done", !.passing = FALSE]
<1>4. CASE grun' = [grun EXCEPT ![x] = d]
  <2>1. d \in GateRun /\ d.at = "done" /\ d.lapsed = grun[x].lapsed /\ d.stored = grun[x].stored
    BY <1>1 DEF GateRun
  <2> HIDE DEF d
  <2>2. grun'[x] = d
    BY <1>1, <1>4
  <2>3. RunInv(x)'
    BY <1>1, <2>1, <2>2 DEF RunInv, InThread
  <2> QED
    BY <1>1, <1>2, <1>3, <1>4, <2>1, <2>3, RunStep
<1>5. ASSUME NEW before \in {Len(log), NoSnapshot},
             grun' = [grun EXCEPT ![x].at = "queue", ![x].before = before, ![x].baseline = Artifact]
      PROVE  GatesInv'
  <2> DEFINE e == [grun[x] EXCEPT !.at = "queue", !.before = before, !.baseline = Artifact]
  <2>1. /\ before \in Versions \cup {NoSnapshot} /\ before <= Len(log) /\ Artifact \in Versions
    BY <1>1, ArtifactType, GatesAssumption DEF GatesTypeOK, Versions, NoSnapshot
  <2>2. grun' = [grun EXCEPT ![x] = e]
    BY <1>1, <1>5
  <2>3. e \in GateRun /\ e.at = "queue" /\ e.lapsed = grun[x].lapsed /\ e.stored = grun[x].stored
        /\ e.before = before
    BY <1>1, <2>1 DEF GateRun
  <2> HIDE DEF e
  <2>4. grun'[x] = e
    BY <1>1, <2>2
  <2>5. \A g \in Gates : Fresh(x, g)'
    BY <1>1 DEF RunInv, Fresh
  <2>6. RunInv(x)'
    BY <1>1, <2>1, <2>3, <2>4, <2>5 DEF RunInv, InThread
  <2> QED
    BY <1>1, <1>2, <1>3, <1>5, <2>2, <2>3, <2>6, RunStep
<1> QED
  <2>1. ASSUME grun' = [grun EXCEPT ![x].at = "done", ![x].passing = FALSE]
        PROVE  grun' = [grun EXCEPT ![x] = d]
    BY <1>1, <2>1
  <2> QED
    BY <1>4, <1>5, <2>1 DEF StartGates

LEMMA AcquireKeeps == ASSUME GatesInv, returned = 0, NEW x \in Runs, AcquireSlot(x) PROVE GatesInv'
<1> DEFINE e == [grun[x] EXCEPT !.at = "gate"]
<1>1. /\ GatesTypeOK /\ grun[x] \in GateRun /\ grun \in [Runs -> GateRun] /\ RunInv(x)
      /\ grun[x].at = "queue" /\ slot' = x /\ alive' = alive \cup {<<x, grun[x].gate>>}
      /\ UNCHANGED <<boundary, log, shelf, returned, gdeaths>>
  BY DEF GatesInv, GatesTypeOK, AcquireSlot
<1>2. grun' = [grun EXCEPT ![x] = e]
  BY <1>1 DEF AcquireSlot
<1>3. /\ e \in GateRun /\ e.at = "gate" /\ e.lapsed = grun[x].lapsed /\ e.stored = grun[x].stored
      /\ e.before = grun[x].before /\ e.gate = grun[x].gate /\ grun[x].gate \in Gates
      /\ e.before \in Versions \cup {NoSnapshot}
  BY <1>1 DEF GateRun
<1> HIDE DEF e
<1>4. grun'[x] = e
  BY <1>1, <1>2
<1>5. /\ slot' \in 0..MaxRuns /\ shelf' \in [manifest : Versions, blobs : SUBSET Versions]
      /\ alive' \subseteq GateProcs
      /\ \A y \in Runs : y # x => \A g \in Gates : <<y, g>> \in alive' => <<y, g>> \in alive
  BY <1>1, <1>3, GatesAssumption DEF GatesTypeOK, GateProcs, Runs
<1>6. Gates \subseteq Nat /\ \A g \in Gates : g >= grun[x].gate => Fresh(x, g)
  BY <1>1, GatesAssumption DEF RunInv, Gates
<1>7. \A g \in Gates : g > grun[x].gate => Fresh(x, g)'
  <2> SUFFICES ASSUME NEW g \in Gates, g > grun[x].gate PROVE Fresh(x, g)'
    OBVIOUS
  <2>0. grun[x].gate \in Nat /\ g \in Nat
    BY <1>3, GatesAssumption DEF Gates
  <2>1. grun[x].gate \in Nat /\ g \in Nat /\ g >= grun[x].gate /\ g # grun[x].gate
    BY <2>0
  <2>2. Fresh(x, g)
    BY <1>6, <2>1
  <2>3. <<x, g>> # <<x, grun[x].gate>>
    BY <2>1
  <2> QED
    BY <1>1, <2>2, <2>3 DEF Fresh
<1>8. \A i \in 1..Len(log) : log[i].by # <<x, grun[x].gate>>
  <2>1. grun[x].gate \in Nat
    BY <1>3, <1>6
  <2>2. Fresh(x, grun[x].gate)
    BY <1>3, <1>6, <2>1
  <2> QED
    BY <2>2 DEF Fresh
<1>9. RunInv(x)'
  BY <1>1, <1>3, <1>4, <1>7, <1>8 DEF RunInv, InThread
<1>10. boundary = "bwrap" => \A g \in Gates : <<x, g>> \in alive' => e.at = "gate" /\ e.gate = g
  <2> SUFFICES ASSUME boundary = "bwrap", NEW g \in Gates, <<x, g>> \in alive' PROVE e.gate = g
    BY <1>3
  <2>1. <<x, g>> \notin alive
    BY <1>1 DEF GatesInv, SandboxInv
  <2> QED
    BY <1>1, <1>3, <2>1
<1>11. boundary = "bwrap" /\ (\A y \in Runs : ~grun[y].lapsed) =>
           (e.before # NoSnapshot => \A i \in (e.before + 1)..Len(log) : log[i].by = <<x, e.gate>>)
  <2> SUFFICES ASSUME boundary = "bwrap", \A y \in Runs : ~grun[y].lapsed, e.before # NoSnapshot
               PROVE  \A i \in (e.before + 1)..Len(log) : log[i].by = <<x, e.gate>>
    OBVIOUS
  <2>1. e.before = Len(log) /\ Len(log) \in Nat
    BY <1>1, <1>3 DEF GatesInv, BlameInv, GatesTypeOK
  <2> QED
    BY <2>1
<1> QED
  BY <1>1, <1>2, <1>3, <1>5, <1>9, <1>10, <1>11, RunStep

LEMMA EndsKeeps == ASSUME GatesInv, returned = 0, NEW x \in Runs, GateEnds(x) PROVE GatesInv'
<1> DEFINE e == [grun[x] EXCEPT !.at = "after"]
<1>1. /\ GatesTypeOK /\ grun[x] \in GateRun /\ grun \in [Runs -> GateRun] /\ RunInv(x)
      /\ grun[x].at = "gate" /\ slot' = Free
      /\ UNCHANGED <<boundary, log, shelf, returned, gdeaths>>
      /\ alive' \subseteq alive /\ (boundary = "bwrap" => alive' = alive \ {<<x, grun[x].gate>>})
  BY DEF GatesInv, GatesTypeOK, GateEnds
<1>2. grun' = [grun EXCEPT ![x] = e]
  BY <1>1 DEF GateEnds
<1>3. /\ e \in GateRun /\ e.at = "after" /\ e.lapsed = grun[x].lapsed /\ e.stored = grun[x].stored
      /\ e.before = grun[x].before /\ e.gate = grun[x].gate
  BY <1>1 DEF GateRun
<1> HIDE DEF e
<1>4. grun'[x] = e
  BY <1>1, <1>2
<1>5. /\ slot' \in 0..MaxRuns /\ shelf' \in [manifest : Versions, blobs : SUBSET Versions]
      /\ alive' \subseteq GateProcs
      /\ \A y \in Runs : y # x => \A g \in Gates : <<y, g>> \in alive' => <<y, g>> \in alive
  BY <1>1, GatesAssumption DEF GatesTypeOK, Free
<1>6. \A g \in Gates : g > grun[x].gate => Fresh(x, g)'
  BY <1>1 DEF RunInv, Fresh
<1>7. RunInv(x)'
  BY <1>1, <1>3, <1>4, <1>6 DEF RunInv, InThread
<1>8. boundary = "bwrap" => \A g \in Gates : <<x, g>> \notin alive'
  <2> SUFFICES ASSUME boundary = "bwrap", NEW g \in Gates, <<x, g>> \in alive' PROVE FALSE
    OBVIOUS
  <2>1. <<x, g>> \in alive /\ g # grun[x].gate
    BY <1>1
  <2> QED
    BY <2>1 DEF GatesInv, SandboxInv
<1>9. boundary = "bwrap" /\ (\A y \in Runs : ~grun[y].lapsed) =>
           (e.before # NoSnapshot => \A i \in (e.before + 1)..Len(log) : log[i].by = <<x, e.gate>>)
  BY <1>1, <1>3 DEF GatesInv, BlameInv
<1> QED
  BY <1>1, <1>2, <1>3, <1>5, <1>7, <1>8, <1>9, RunStep

\* What an execution that is behind its gate has in the sandbox: no process.
LEMMA NoProcess ==
    ASSUME GatesInv, NEW x \in Runs, grun[x].at # "gate"
    PROVE  boundary = "bwrap" => \A g \in Gates : <<x, g>> \notin alive
  BY DEF GatesInv, SandboxInv

LEMMA CompareKeeps == ASSUME GatesInv, returned = 0, NEW x \in Runs, CompareTree(x) PROVE GatesInv'
<1> DEFINE kept == grun[x].gate = 1 /\ Artifact # 0 /\ grun[x].baseline \in {0, Artifact}
           r == [IdleRun EXCEPT !.at = "raised", !.lapsed = grun[x].lapsed]
<1>1. /\ GatesTypeOK /\ grun[x] \in GateRun /\ grun \in [Runs -> GateRun] /\ RunInv(x)
      /\ grun[x].at = "after"
      /\ UNCHANGED <<boundary, slot, alive, log, returned, gdeaths>>
      /\ grun[x].lapsed \in BOOLEAN /\ grun[x].stored \in Versions
  BY DEF GatesInv, GatesTypeOK, GateRun, CompareTree
<1>2. slot' \in 0..MaxRuns /\ alive' \subseteq GateProcs /\ Len(log) \in Versions /\ Artifact \in Versions
      /\ (boundary = "bwrap" => \A g \in Gates : <<x, g>> \notin alive')
  BY <1>1, ArtifactType, NoProcess, GatesAssumption DEF GatesTypeOK, Versions
<1>3. CASE grun' = [grun EXCEPT ![x] = r] /\ UNCHANGED shelf
  <2>1. r \in GateRun /\ r.at = "raised" /\ r.lapsed = grun[x].lapsed /\ r.stored = 0
    BY <1>1, IdleType
  <2> HIDE DEF r
  <2>2. grun'[x] = r
    BY <1>1, <1>3
  <2>3. RunInv(x)'
    BY <2>1, <2>2 DEF RunInv, InThread
  <2>4. shelf' \in [manifest : Versions, blobs : SUBSET Versions]
    BY <1>1, <1>3 DEF GatesTypeOK
  <2> QED
    BY <1>1, <1>2, <1>3, <2>1, <2>3, <2>4, RunStep
<1>4. ASSUME NEW after \in {Len(log), NoSnapshot}, NEW exit0 \in BOOLEAN,
             shelf' = [shelf EXCEPT !.manifest = IF kept THEN Artifact ELSE @],
             grun' = [grun EXCEPT ![x] = Compared(x, exit0, after, IF kept THEN Artifact ELSE @.stored)]
      PROVE  GatesInv'
  <2> DEFINE stored == IF kept THEN Artifact ELSE grun[x].stored
             e == Compared(x, exit0, after, stored)
  <2>1. grun' = [grun EXCEPT ![x] = e]
    BY <1>1, <1>4
  <2>2. /\ shelf' \in [manifest : Versions, blobs : SUBSET Versions] /\ shelf'.blobs = shelf.blobs
    BY <1>1, <1>2, <1>4 DEF GatesTypeOK
  <2>3. stored \in Versions /\ after \in Versions \cup {NoSnapshot} /\ after <= Len(log)
    BY <1>1, <1>2, GatesAssumption DEF Versions, NoSnapshot
  <2>4. /\ e \in GateRun /\ e.at = "publish" /\ e.lapsed = grun[x].lapsed
        /\ e.before = after /\ e.gate = grun[x].gate
    <3>1. e = Compared(x, exit0, after, stored)
      OBVIOUS
    <3> HIDE DEF stored, e
    <3>2. GatesTypeOK /\ x \in Runs /\ after \in Versions \cup {NoSnapshot} /\ stored \in Versions
      BY <1>1, <2>3
    <3>3. ASSUME NEW b, b = Compared(x, exit0, after, stored)
          PROVE  /\ b \in GateRun /\ b.at = "publish" /\ b.lapsed = grun[x].lapsed
                 /\ b.before = after /\ b.gate = grun[x].gate
      BY <3>2, <3>3, ComparedType
    <3> QED
      BY <3>1, <3>3
  <2> HIDE DEF e
  <2>5. grun'[x] = e
    BY <1>1, <2>1
  <2>6. \A g \in Gates : g > grun[x].gate => Fresh(x, g)'
    BY <1>1 DEF RunInv, Fresh
  <2>7. RunInv(x)'
    BY <1>1, <2>3, <2>4, <2>5, <2>6 DEF RunInv, InThread
  <2> QED
    BY <1>1, <1>2, <1>4, <2>1, <2>2, <2>4, <2>7, RunStep
<1> QED
  BY <1>3, <1>4 DEF CompareTree

LEMMA PublishKeeps == ASSUME GatesInv, returned = 0, NEW x \in Runs, Publish(x) PROVE GatesInv'
<1> DEFINE e == NextGate(x, grun[x].before)
<1>1. /\ GatesTypeOK /\ grun[x] \in GateRun /\ grun \in [Runs -> GateRun] /\ RunInv(x)
      /\ grun[x].at = "publish"
      /\ UNCHANGED <<boundary, slot, alive, log, returned, gdeaths>>
      /\ shelf' = [shelf EXCEPT !.blobs = @ \cup ({grun[x].stored} \ {0})]
      /\ grun[x].before \in Versions \cup {NoSnapshot} /\ grun[x].stored \in Versions
  BY DEF GatesInv, GatesTypeOK, GateRun, Publish
<1>2. grun' = [grun EXCEPT ![x] = e]
  BY <1>1 DEF Publish
<1>3. /\ e \in GateRun /\ e.lapsed = grun[x].lapsed /\ e.stored = grun[x].stored
      /\ \/ e.at = "done"
         \/ e.at = "queue" /\ e.gate = grun[x].gate + 1 /\ e.before = grun[x].before
  BY <1>1, NextGateType
<1> HIDE DEF e
<1>4. grun'[x] = e
  BY <1>1, <1>2
<1>5. /\ slot' \in 0..MaxRuns /\ alive' \subseteq GateProcs
      /\ shelf' \in [manifest : Versions, blobs : SUBSET Versions]
      /\ shelf'.blobs = shelf.blobs \cup ({grun[x].stored} \ {0})
      /\ (boundary = "bwrap" => \A g \in Gates : <<x, g>> \notin alive')
  BY <1>1, NoProcess DEF GatesTypeOK
<1>6. grun[x].gate \in Nat /\ Gates \subseteq Nat
  BY <1>1, GatesAssumption DEF GateRun, Gates
<1>7. \A g \in Gates : g >= grun[x].gate + 1 => Fresh(x, g)'
  BY <1>1, <1>6 DEF RunInv, Fresh
<1>8. RunInv(x)'
  BY <1>1, <1>3, <1>4, <1>5, <1>7 DEF RunInv, InThread
<1>9. boundary = "bwrap" /\ (\A y \in Runs : ~grun[y].lapsed) =>
          (e.at = "queue" => e.before \in {Len(log), NoSnapshot})
  BY <1>1, <1>3 DEF GatesInv, BlameInv
<1> QED
  BY <1>1, <1>2, <1>3, <1>5, <1>8, <1>9, RunStep

LEMMA GateLapseKeeps == ASSUME GatesInv, NEW x \in Runs, Lapse(x) PROVE GatesInv'
<1> DEFINE e == [grun[x] EXCEPT !.lapsed = TRUE]
<1>1. /\ GatesTypeOK /\ grun[x] \in GateRun /\ grun \in [Runs -> GateRun] /\ RunInv(x)
      /\ grun[x].at = "queue" /\ returned = 0
      /\ UNCHANGED <<boundary, slot, alive, log, shelf, returned, gdeaths>>
  BY DEF GatesInv, GatesTypeOK, Lapse
<1>2. grun' = [grun EXCEPT ![x] = e]
  BY <1>1 DEF Lapse
<1>3. /\ e \in GateRun /\ e.at = "queue" /\ e.lapsed = TRUE /\ e.stored = grun[x].stored
      /\ e.before = grun[x].before /\ e.gate = grun[x].gate
  BY <1>1 DEF GateRun
<1> HIDE DEF e
<1>4. grun'[x] = e
  BY <1>1, <1>2
<1>5. /\ slot' \in 0..MaxRuns /\ alive' \subseteq GateProcs
      /\ shelf' \in [manifest : Versions, blobs : SUBSET Versions]
      /\ (boundary = "bwrap" => \A g \in Gates : <<x, g>> \notin alive')
  BY <1>1, NoProcess DEF GatesTypeOK
<1>6. \A g \in Gates : g >= grun[x].gate => Fresh(x, g)'
  BY <1>1 DEF RunInv, Fresh
<1>7. RunInv(x)'
  BY <1>1, <1>3, <1>4, <1>6 DEF RunInv, InThread
<1>8. boundary = "bwrap" /\ (\A y \in Runs : ~grun[y].lapsed) => e.before \in {Len(log), NoSnapshot}
  BY <1>1, <1>3 DEF GatesInv, BlameInv
<1> QED
  BY <1>1, <1>2, <1>3, <1>5, <1>7, <1>8, RunStep

\* A write comes after everything a gate is compared with, and in the sandbox
\* from the gate under way: nobody else runs one unless it was given up.
LEMMA WriteKeeps == ASSUME GatesInv, returned = 0, NEW p \in GateProcs, Write(p) PROVE GatesInv'
<1>1. /\ GatesTypeOK /\ p \in alive /\ Len(log) < MaxWrites
      /\ UNCHANGED <<boundary, grun, slot, alive, shelf, returned, gdeaths>>
      /\ Len(log) \in Nat /\ \A x \in Runs : RunInv(x) /\ grun[x] \in GateRun
      /\ p[1] \in Runs /\ p[2] \in Gates /\ p = <<p[1], p[2]>>
  BY DEF GatesInv, GatesTypeOK, Write, GateProcs
<1>2. PICK path \in {"source", "artifact"} : log' = Append(log, [by |-> p, path |-> path])
  BY DEF Write
<1> DEFINE w == [by |-> p, path |-> path]
           n == Len(log)
<1>3. w \in [by : GateProcs, path : {"source", "artifact"}] /\ w.by = p
  OBVIOUS
<1>4. log \in Seq([by : GateProcs, path : {"source", "artifact"}]) /\ log' = Append(log, w)
  BY <1>1, <1>2 DEF GatesTypeOK
<1> HIDE DEF w
<1>5. /\ log' \in Seq([by : GateProcs, path : {"source", "artifact"}]) /\ Len(log') = n + 1
      /\ log'[n + 1] = w /\ \A i \in 1..n : log'[i] = log[i]
  BY <1>3, <1>4
<1>6. \A i \in 1..Len(log') : (i \in 1..n /\ log'[i].by = log[i].by) \/ (i = n + 1 /\ log'[i].by = p)
  <2> SUFFICES ASSUME NEW i \in 1..Len(log'), i # n + 1 PROVE i \in 1..n /\ log'[i].by = log[i].by
    BY <1>3, <1>5
  <2> QED
    BY <1>1, <1>5
<1> HIDE DEF n
<1>7. n \in Nat /\ n = Len(log) /\ Len(log') = n + 1 /\ n < MaxWrites
  BY <1>1, <1>5 DEF n
<1>8. GatesTypeOK'
  BY <1>1, <1>5, <1>7, GatesAssumption DEF GatesTypeOK
<1>9. ASSUME NEW x \in Runs, NEW g \in Gates, Fresh(x, g) PROVE Fresh(x, g)'
  <2>1. <<x, g>> # p /\ \A i \in 1..n : log[i].by # <<x, g>>
    BY <1>1, <1>7, <1>9 DEF Fresh
  <2> QED
    BY <1>1, <1>6, <1>9, <2>1 DEF Fresh
<1>10. ASSUME NEW x \in Runs PROVE RunInv(x)'
  <2>1. RunInv(x) /\ grun[x] \in GateRun /\ grun' = grun /\ shelf' = shelf
    BY <1>1
  <2>2. InThread(x) => grun[x].before <= Len(log')
    BY <1>7, <2>1 DEF RunInv, GateRun, Versions, NoSnapshot
  <2>3. ASSUME grun[x].at \in {"gate", "after"}, NEW i \in 1..Len(log'), log'[i].by = <<x, grun[x].gate>>
        PROVE  i > grun[x].before
    <3>1. CASE i = n + 1
      BY <1>7, <2>1, <2>3, <3>1, GatesAssumption DEF RunInv, InThread, GateRun, Versions, NoSnapshot
    <3>2. CASE i \in 1..n /\ log'[i].by = log[i].by
      BY <1>7, <2>1, <2>3, <3>2 DEF RunInv
    <3> QED
      BY <1>6, <3>1, <3>2
  <2> QED
    BY <1>9, <2>1, <2>2, <2>3 DEF RunInv, InThread
<1>11. OneInv' /\ SandboxInv' /\ ArtifactOnDisk'
  BY <1>1 DEF GatesInv, OneInv, Gone, SandboxInv, ArtifactOnDisk
<1>12. BlameInv'
  <2> SUFFICES ASSUME boundary = "bwrap", \A y \in Runs : ~grun[y].lapsed, NEW z \in Runs
               PROVE  /\ grun[z].at \in {"queue", "publish"} => grun[z].before \in {Len(log'), NoSnapshot}
                      /\ grun[z].at \in {"gate", "after"} /\ grun[z].before # NoSnapshot =>
                            \A i \in (grun[z].before + 1)..Len(log') : log'[i].by = <<z, grun[z].gate>>
    BY <1>1 DEF BlameInv
  <2>1. grun[p[1]].at = "gate" /\ grun[p[1]].gate = p[2]
    BY <1>1 DEF GatesInv, SandboxInv
  <2>2. z # p[1] => grun[z].at \notin Threads
    <3> SUFFICES ASSUME z # p[1], grun[z].at \in Threads PROVE FALSE
      OBVIOUS
    <3>1. ~Gone(z) /\ ~Gone(p[1]) /\ grun[z].at # "idle" /\ grun[p[1]].at # "idle"
      BY <1>1, <2>1 DEF Gone, Threads
    <3>2. z < p[1] \/ p[1] < z
      BY <1>1, GatesAssumption DEF Runs
    <3> QED
      BY <1>1, <3>1, <3>2 DEF GatesInv, OneInv
  <2>3. CASE z # p[1]
    BY <2>2, <2>3 DEF Threads
  <2>4. CASE z = p[1]
    <3> SUFFICES ASSUME grun[z].before # NoSnapshot, NEW i \in (grun[z].before + 1)..Len(log')
                 PROVE  log'[i].by = <<z, grun[z].gate>>
      BY <2>1, <2>4
    <3>1. grun[z].before \in Nat /\ p = <<z, grun[z].gate>>
      BY <1>1, <2>1, <2>4 DEF GateRun, Versions
    <3>2. \A j \in (grun[z].before + 1)..n : log[j].by = p
      BY <1>7, <2>1, <2>4, <3>1 DEF GatesInv, BlameInv
    <3>3. i \in 1..Len(log') /\ i >= grun[z].before + 1
      BY <1>7, <3>1
    <3> QED
      BY <1>6, <1>7, <3>1, <3>2, <3>3
  <2> QED
    BY <2>3, <2>4
<1> QED
  BY <1>8, <1>10, <1>11, <1>12 DEF GatesInv

\* With the worker every thread is lost, and in the sandbox every process.
LEMMA WorkerDiesKeeps == ASSUME GatesInv, returned = 0, GateWorkerDies PROVE GatesInv'
<1> DEFINE l(x) == [IdleRun EXCEPT !.at = "lost", !.lapsed = grun[x].lapsed]
<1>1. /\ GatesTypeOK /\ grun \in [Runs -> GateRun]
      /\ UNCHANGED <<boundary, log, shelf, returned>> /\ slot' = Free
      /\ gdeaths < MaxGateDeaths /\ gdeaths' = gdeaths + 1
      /\ grun' = [x \in Runs |-> IF InThread(x) THEN l(x) ELSE grun[x]]
      /\ alive' \subseteq alive /\ (boundary = "bwrap" => alive' = {})
  BY DEF GatesInv, GatesTypeOK, GateWorkerDies
<1>2. \A x \in Runs : grun[x].lapsed \in BOOLEAN
  BY <1>1 DEF GateRun
<1>3. \A x \in Runs : l(x) \in GateRun /\ l(x).at = "lost" /\ l(x).lapsed = grun[x].lapsed /\ l(x).stored = 0
  <2> SUFFICES ASSUME NEW x \in Runs
               PROVE  l(x) \in GateRun /\ l(x).at = "lost" /\ l(x).lapsed = grun[x].lapsed /\ l(x).stored = 0
    OBVIOUS
  <2>1. l(x) = [IdleRun EXCEPT !.at = "lost", !.lapsed = grun[x].lapsed]
    OBVIOUS
  <2> HIDE DEF l
  <2> QED
    BY <1>2, <2>1, IdleType
<1> HIDE DEF l
<1>4. grun' \in [Runs -> GateRun] /\ \A x \in Runs : grun'[x] = IF InThread(x) THEN l(x) ELSE grun[x]
  BY <1>1, <1>3
<1>5. GatesTypeOK'
  <2>1. slot' \in 0..MaxRuns /\ gdeaths' \in 0..MaxGateDeaths
    BY <1>1, GatesAssumption DEF GatesTypeOK, Free
  <2> QED
    BY <1>1, <1>4, <2>1 DEF GatesTypeOK
<1>6. \A x \in Runs : /\ grun'[x].lapsed = grun[x].lapsed
                      /\ InThread(x) => grun'[x].at = "lost"
                      /\ ~InThread(x) => grun'[x] = grun[x]
  BY <1>3, <1>4
<1>7. OneInv'
  <2>1. \A x \in Runs : (Gone(x) => Gone(x)') /\ (grun'[x].at # "idle" => grun[x].at # "idle")
    BY <1>6 DEF Gone, InThread
  <2> QED
    BY <2>1 DEF GatesInv, OneInv
<1>8. SandboxInv' /\ BlameInv'
  <2>1. \A x \in Runs : grun'[x].at \notin Threads
    BY <1>6 DEF InThread, Threads
  <2> QED
    BY <1>1, <2>1 DEF SandboxInv, BlameInv, Threads
<1>9. ArtifactOnDisk'
  BY <1>1, GatesAssumption DEF ArtifactOnDisk, Runs
<1>10. ASSUME NEW x \in Runs PROVE RunInv(x)'
  <2>1. CASE InThread(x)
    BY <1>3, <1>4, <2>1 DEF RunInv, InThread
  <2>2. CASE ~InThread(x)
    BY <1>1, <1>6, <2>2, RunRests DEF GatesInv
  <2> QED
    BY <2>1, <2>2
<1> QED
  BY <1>5, <1>7, <1>8, <1>9, <1>10 DEF GatesInv

\* The workflow's answer changes nothing else; what it is of is on disk.
LEMMA AnswerKeeps == ASSUME GatesInv, GatesReturn \/ GatesRaise PROVE GatesInv'
<1>1. UNCHANGED <<boundary, grun, slot, alive, log, shelf, gdeaths>> /\ returned' \in -1..MaxRuns
  BY GatesAssumption DEF GatesReturn, GatesRaise, Runs
<1>2. ArtifactOnDisk'
  <2>1. CASE GatesReturn
    BY <1>1, <2>1 DEF GatesReturn, GatesInv, RunInv, ArtifactOnDisk
  <2>2. CASE GatesRaise
    BY <2>2, GatesAssumption DEF GatesRaise, ArtifactOnDisk, Runs
  <2> QED
    BY <2>1, <2>2
<1>3. \A x \in Runs : RunInv(x)'
  BY <1>1, RunRests DEF GatesInv
<1> QED
  BY <1>1, <1>2, <1>3 DEF GatesInv, GatesTypeOK, OneInv, Gone, SandboxInv, BlameInv

LEMMA GatesStep == GatesInv /\ [GatesNext]_gvars => GatesInv'
<1> SUFFICES ASSUME GatesInv, [GatesNext]_gvars PROVE GatesInv'
  OBVIOUS
<1>1. CASE UNCHANGED gvars
  <2>1. \A x \in Runs : RunInv(x)'
    BY <1>1, RunRests DEF GatesInv, gvars
  <2> QED
    BY <1>1, <2>1 DEF gvars, GatesInv, GatesTypeOK, OneInv, Gone, SandboxInv, BlameInv, ArtifactOnDisk
<1>2. ASSUME returned = 0, NEW x \in Runs, StartGates(x) \/ GateThread(x) \/ Lapse(x) PROVE GatesInv'
  BY <1>2, StartKeeps, AcquireKeeps, EndsKeeps, CompareKeeps, PublishKeeps, GateLapseKeeps DEF GateThread
<1>3. ASSUME returned = 0, NEW p \in GateProcs, Write(p) PROVE GatesInv'
  BY <1>3, WriteKeeps
<1>4. CASE returned = 0 /\ GateWorkerDies
  BY <1>4, WorkerDiesKeeps
<1>5. CASE GatesReturn \/ GatesRaise
  BY <1>5, AnswerKeeps
<1> QED
  BY <1>1, <1>2, <1>3, <1>4, <1>5 DEF GatesNext

\* What the invariant says of a gate that is looked at.
LEMMA GatesHold == GatesInv => BlameIsOwn /\ PassIsClean /\ ArtifactOnDisk
<1> SUFFICES ASSUME GatesInv PROVE BlameIsOwn /\ PassIsClean
  BY DEF GatesInv
<1>1. BlameIsOwn
  BY DEF GatesInv, BlameInv, BlameIsOwn, change
<1>2. PassIsClean
  <2> SUFFICES ASSUME NEW x \in Runs, grun[x].at = "after", Passes(x, Len(log)),
                      NEW i \in 1..Len(log), log[i].by = <<x, grun[x].gate>>
               PROVE  log[i].path = "artifact"
    BY DEF PassIsClean
  <2>1. i > grun[x].before /\ grun[x].before \in Versions \cup {NoSnapshot} /\ Len(log) \in Nat
    BY DEF GatesInv, RunInv, GatesTypeOK, GateRun
  <2>2. i \in (grun[x].before + 1)..Len(log)
    BY <2>1, GatesAssumption DEF Versions, NoSnapshot
  <2>3. log[i] \in change(x)
    BY <2>2 DEF change
  <2> QED
    BY <2>3 DEF Passes
<1> QED
  BY <1>1, <1>2

-----------------------------------------------------------------------------
(* The judge                                                                *)

\* On the way to the record the judge was asked where it had to be, as long as
\* there are asks, and a reply that objects is the last word unless an outage is.
JudgeInv ==
    /\ JudgeTypeOK
    /\ verify.at = "output" => verify.outcome = "none" /\ ~verify.objection /\ row = "none"
    /\ verify.at = "output" => verify.asks = 0 /\ verify.tries = 0
    /\ verify.at = "judge" => verify.asks <= MaxJudgeRetries /\ verify.tries = 0
    /\ verify.at = "record" => verify.tries < MaxRecordTries
    /\ verify.at = "judge" => row = "none" /\ gates_passed /\ verify.output
    /\ verify.at = "record" /\ gates_passed /\ verify.output /\ scenarios => verify.outcome # "none"
    /\ verify.at = "record" /\ judge_accepts /\ verify.objection => verify.outcome = "UNAVAILABLE"
    /\ PassIsEarned

LEMMA JudgeInitInv == JudgeInit => JudgeInv
<1> SUFFICES ASSUME JudgeInit PROVE JudgeInv
  OBVIOUS
<1>1. 0 \in 0..(MaxJudgeRetries + 1) /\ 0 \in 0..MaxRecordTries
  BY JudgeAssumption
<1>2. /\ verify \in Verifying /\ verify.at = "output" /\ verify.outcome = "none" /\ ~verify.objection
      /\ verify.asks = 0 /\ verify.tries = 0
  BY <1>1 DEF JudgeInit, Verifying, JudgeOutcomes
<1> QED
  BY <1>2 DEF JudgeInv, JudgeInit, JudgeTypeOK, PassIsEarned

\* What a reply makes of the verification.
LEMMA HeardKeeps ==
    ASSUME JudgeInv, verify.at = "judge", UNCHANGED <<gates_passed, scenarios, row>>,
           NEW outcome \in JudgeOutcomes \ {"none"}, NEW standing \in BOOLEAN, NEW contradicted \in BOOLEAN,
           NEW objection \in BOOLEAN, NEW place \in {"judge", "record"}, LastAsk => place = "record",
           verify' = [verify EXCEPT !.asks = @ + 1, !.outcome = outcome, !.standing = standing,
                                    !.contradicted = contradicted, !.objection = objection, !.at = place],
           outcome = "PASS" \/ (contradicted /\ ~standing) => ~objection
    PROVE  JudgeInv'
<1> DEFINE v == [verify EXCEPT !.asks = @ + 1, !.outcome = outcome, !.standing = standing,
                               !.contradicted = contradicted, !.objection = objection, !.at = place]
<1>1. /\ verify \in Verifying /\ verify.asks \in 0..MaxJudgeRetries /\ verify.tries = 0 /\ row = "none"
      /\ gates_passed /\ verify.output /\ gates_passed \in BOOLEAN /\ scenarios \in BOOLEAN
      /\ MaxJudgeRetries \in Nat /\ MaxRecordTries \in Nat \ {0}
  BY JudgeAssumption DEF JudgeInv, JudgeTypeOK, Verifying
<1>2. verify.asks + 1 \in 0..(MaxJudgeRetries + 1) /\ (place = "judge" => verify.asks + 1 <= MaxJudgeRetries)
  BY <1>1 DEF LastAsk
<1>v. /\ verify.asks + 1 \in 0..(MaxJudgeRetries + 1) /\ outcome \in JudgeOutcomes
      /\ place \in {"judge", "record"} /\ standing \in BOOLEAN
      /\ contradicted \in BOOLEAN /\ objection \in BOOLEAN
  BY <1>2
<1>3. /\ v \in Verifying /\ v.asks = verify.asks + 1 /\ v.outcome = outcome /\ v.standing = standing
      /\ v.contradicted = contradicted /\ v.objection = objection /\ v.at = place
      /\ v.tries = verify.tries /\ v.output = verify.output
  <2> DEFINE a == [verify EXCEPT !.asks = verify.asks + 1]
             b == [a EXCEPT !.outcome = outcome]
             c == [b EXCEPT !.standing = standing]
             d == [c EXCEPT !.contradicted = contradicted]
             e == [d EXCEPT !.objection = objection]
             f == [e EXCEPT !.at = place]
  <2>1. a \in Verifying
    BY <1>1, <1>v DEF Verifying
  <2> HIDE DEF a
  <2>2. b \in Verifying
    BY <1>v, <2>1 DEF Verifying
  <2> HIDE DEF b
  <2>3. c \in Verifying
    BY <1>v, <2>2 DEF Verifying
  <2> HIDE DEF c
  <2>4. d \in Verifying
    BY <1>v, <2>3 DEF Verifying
  <2> HIDE DEF d
  <2>5. e \in Verifying
    BY <1>v, <2>4 DEF Verifying
  <2> HIDE DEF e
  <2>6. f \in Verifying
    BY <1>v, <2>5 DEF Verifying
  <2>7. v = f
    BY DEF a, b, c, d, e
  <2>8. /\ v.asks = verify.asks + 1 /\ v.outcome = outcome /\ v.standing = standing
        /\ v.contradicted = contradicted /\ v.objection = objection /\ v.at = place
        /\ v.tries = verify.tries /\ v.output = verify.output
    BY <1>1 DEF Verifying
  <2> HIDE DEF f
  <2> QED
    BY <2>6, <2>7, <2>8
<1>4. verify' = v
  OBVIOUS
<1> HIDE DEF v
<1>5. JudgeTypeOK' /\ PassIsEarned'
  BY <1>1, <1>3, <1>4 DEF JudgeTypeOK, PassIsEarned
<1>6. judge_accepts' /\ verify'.objection => verify'.outcome = "UNAVAILABLE"
  BY <1>3, <1>4 DEF judge_accepts
<1> QED
  BY <1>1, <1>2, <1>3, <1>4, <1>5, <1>6 DEF JudgeInv

LEMMA RepliesKeep == ASSUME JudgeInv, JudgeUnavailable \/ JudgeMalformed \/ JudgeReplies PROVE JudgeInv'
<1>1. verify.at = "judge" /\ UNCHANGED <<gates_passed, scenarios, row>> /\ verify \in Verifying
  BY DEF JudgeUnavailable, JudgeMalformed, JudgeReplies, JudgeInv, JudgeTypeOK
<1>2. ASSUME NEW outcome \in {"UNAVAILABLE", "FAIL", "RETRY"}, NoReply(outcome) PROVE JudgeInv'
  <2> DEFINE place == IF judge_should_be_reasked(outcome, FALSE, FALSE) /\ ~LastAsk THEN "judge" ELSE "record"
  <2>1. verify' = [verify EXCEPT !.asks = @ + 1, !.outcome = outcome, !.standing = FALSE,
                                 !.contradicted = FALSE, !.objection = verify.objection, !.at = place]
    BY <1>1, <1>2 DEF NoReply, Verifying
  <2>2. place \in {"judge", "record"} /\ (LastAsk => place = "record") /\ outcome \in JudgeOutcomes \ {"none"}
        /\ verify.objection \in BOOLEAN /\ outcome # "PASS"
    BY <1>1 DEF JudgeOutcomes, Verifying
  <2> HIDE DEF place
  <2> QED
    BY <1>1, <2>1, <2>2, HeardKeeps
<1>4. CASE JudgeUnavailable
  BY <1>2, <1>4 DEF JudgeUnavailable
<1>5. CASE JudgeMalformed
  <2>1. (IF LastAsk THEN "FAIL" ELSE "RETRY") \in {"FAIL", "RETRY"}
    OBVIOUS
  <2> QED
    BY <1>2, <1>5, <2>1 DEF JudgeMalformed
<1>3. CASE JudgeReplies
  <2>1. PICK outcome \in {"PASS", "RETRY", "FAIL"}, standing \in BOOLEAN, contradicted \in BOOLEAN :
          LET heard == IF contradicted /\ ~LastAsk THEN "RETRY" ELSE outcome
          IN  /\ standing \/ contradicted => outcome # "PASS"
              /\ verify' = [verify EXCEPT
                    !.asks = @ + 1, !.outcome = heard, !.standing = standing,
                    !.contradicted = contradicted, !.objection = standing,
                    !.at = IF judge_should_be_reasked(heard, TRUE, contradicted) /\ ~LastAsk
                           THEN @ ELSE "record"]
    BY <1>3 DEF JudgeReplies
  <2> DEFINE heard == IF contradicted /\ ~LastAsk THEN "RETRY" ELSE outcome
             place == IF judge_should_be_reasked(heard, TRUE, contradicted) /\ ~LastAsk THEN "judge" ELSE "record"
  <2>2. verify' = [verify EXCEPT !.asks = @ + 1, !.outcome = heard, !.standing = standing,
                                 !.contradicted = contradicted, !.objection = standing, !.at = place]
    BY <1>1, <2>1
  <2>3. place \in {"judge", "record"} /\ (LastAsk => place = "record") /\ heard \in JudgeOutcomes \ {"none"}
        /\ (heard = "PASS" \/ (contradicted /\ ~standing) => ~standing)
    BY <2>1 DEF JudgeOutcomes
  <2> HIDE DEF place, heard
  <2>4. standing = TRUE \/ standing = FALSE
    OBVIOUS
  <2>5. contradicted = TRUE \/ contradicted = FALSE
    OBVIOUS
  <2> QED
    BY <1>1, <2>2, <2>3, <2>4, <2>5, HeardKeeps
<1> QED
  BY <1>3, <1>4, <1>5

\* What the record is written from does not change until it is settled.
LEMMA JudgedRecordKeeps == ASSUME JudgeInv, RecordVerification \/ RecordLost PROVE JudgeInv'
<1>1. /\ verify \in Verifying /\ verify.at = "record" /\ verify.tries < MaxRecordTries
      /\ UNCHANGED <<gates_passed, scenarios>> /\ PassIsEarned /\ row \in {"none", "PASS", "FAIL"}
      /\ gates_passed \in BOOLEAN /\ scenarios \in BOOLEAN
  BY DEF JudgeInv, JudgeTypeOK, RecordVerification, RecordLost
<1>2. row' \in {row, IF gates_passed /\ verify.output /\ judge_accepts THEN "PASS" ELSE "FAIL"}
  BY DEF RecordVerification, RecordLost
<1>3. row' = "PASS" => /\ gates_passed /\ verify.output
                       /\ scenarios => verify.outcome # "none"
                       /\ verify.objection => verify.outcome = "UNAVAILABLE"
  BY <1>1, <1>2 DEF JudgeInv, PassIsEarned
<1>4. /\ verify' \in Verifying
      /\ verify'.output = verify.output /\ verify'.outcome = verify.outcome /\ verify'.objection = verify.objection
      /\ verify'.standing = verify.standing /\ verify'.contradicted = verify.contradicted
      /\ verify'.at \in {"record", "settled", "raised"} /\ (verify'.at = "record" => verify'.tries < MaxRecordTries)
  <2>1. CASE RecordVerification
    BY <1>1, <2>1 DEF RecordVerification, Verifying
  <2>2. CASE RecordLost
    <3> DEFINE place == IF verify.tries + 1 = MaxRecordTries THEN "raised" ELSE "record"
    <3>1. verify' = [verify EXCEPT !.tries = @ + 1, !.at = place]
      BY <1>1, <2>2 DEF RecordLost
    <3>2. verify.tries + 1 \in 0..MaxRecordTries /\ (place = "record" => verify.tries + 1 < MaxRecordTries)
      BY <1>1, JudgeAssumption DEF Verifying
    <3>3. place \in {"record", "raised"}
      OBVIOUS
    <3> HIDE DEF place
    <3> QED
      BY <1>1, <3>1, <3>2, <3>3 DEF Verifying
  <2> QED
    BY <2>1, <2>2
<1> QED
  <2>1. judge_accepts' => judge_accepts
    BY <1>4 DEF judge_accepts
  <2>2. JudgeTypeOK' /\ PassIsEarned'
    BY <1>1, <1>2, <1>3, <1>4 DEF JudgeTypeOK, PassIsEarned
  <2>3. verify'.at = "record" /\ judge_accepts' /\ verify'.objection => verify'.outcome = "UNAVAILABLE"
    BY <1>1, <1>4, <2>1 DEF JudgeInv
  <2>4. verify'.at = "record" /\ gates_passed' /\ verify'.output /\ scenarios' => verify'.outcome # "none"
    BY <1>1, <1>4 DEF JudgeInv
  <2> QED
    BY <1>4, <2>2, <2>3, <2>4 DEF JudgeInv

LEMMA JudgeStep == JudgeInv /\ [JudgeNext]_jvars => JudgeInv'
<1> SUFFICES ASSUME JudgeInv, [JudgeNext]_jvars PROVE JudgeInv'
  OBVIOUS
<1>1. /\ verify \in Verifying /\ gates_passed \in BOOLEAN /\ scenarios \in BOOLEAN
      /\ row \in {"none", "PASS", "FAIL"} /\ MaxJudgeRetries \in Nat /\ MaxRecordTries \in Nat \ {0}
  BY JudgeAssumption DEF JudgeInv, JudgeTypeOK
<1>2. CASE CheckOutput
  <2>1. PICK passed \in BOOLEAN :
           verify' = [verify EXCEPT !.output = passed,
                                    !.at = IF gates_passed /\ passed /\ scenarios THEN "judge" ELSE "record"]
    BY <1>2 DEF CheckOutput
  <2> DEFINE place == IF gates_passed /\ passed /\ scenarios THEN "judge" ELSE "record"
  <2>2. /\ verify.at = "output" /\ verify.outcome = "none" /\ ~verify.objection /\ row = "none"
        /\ verify.asks = 0 /\ verify.tries = 0 /\ UNCHANGED <<gates_passed, scenarios, row>>
    BY <1>2 DEF CheckOutput, JudgeInv
  <2>3. place \in {"judge", "record"} /\ (place = "judge" <=> gates_passed /\ passed /\ scenarios)
    OBVIOUS
  <2>4. verify' = [verify EXCEPT !.output = passed, !.at = place]
    BY <2>1
  <2> HIDE DEF place
  <2>5. /\ verify' \in Verifying /\ verify'.output = passed /\ verify'.at = place
        /\ verify'.outcome = "none" /\ verify'.objection = verify.objection
        /\ verify'.asks = 0 /\ verify'.tries = 0
    BY <1>1, <2>2, <2>3, <2>4 DEF Verifying
  <2> QED
    BY <1>1, <2>2, <2>3, <2>5 DEF JudgeInv, JudgeTypeOK, PassIsEarned
<1>3. CASE JudgeUnavailable \/ JudgeMalformed \/ JudgeReplies
  BY <1>3, RepliesKeep
<1>4. CASE JudgeRaises
  <2>1. /\ verify.at = "judge" /\ row = "none" /\ UNCHANGED <<gates_passed, scenarios, row>>
        /\ verify' = [verify EXCEPT !.at = "raised"]
    BY <1>4 DEF JudgeRaises, JudgeInv
  <2>2. verify' \in Verifying /\ verify'.at = "raised"
    BY <1>1, <2>1 DEF Verifying
  <2> QED
    BY <1>1, <2>1, <2>2 DEF JudgeInv, JudgeTypeOK, PassIsEarned
<1>5. CASE RecordVerification \/ RecordLost
  BY <1>5, JudgedRecordKeeps
<1>6. CASE UNCHANGED jvars
  BY <1>6 DEF jvars, JudgeInv, JudgeTypeOK, PassIsEarned, judge_accepts
<1> QED
  BY <1>2, <1>3, <1>4, <1>5, <1>6 DEF JudgeNext

-----------------------------------------------------------------------------
(* The theorems                                                             *)

\* The gates' state keeps its types, and each execution what it relies on of
\* the log, the processes and the disk (gates.py: run_gates).
THEOREM GatesInvariant == GatesSpec => []GatesInv
<1> QED
  BY GatesInitInv, GatesStep, PTL DEF GatesSpec

\* The judge's state keeps its types, and a row says PASS only of what every
\* check there is passed (workflow.py: _verify; models.py: compose_result).
THEOREM JudgeInvariant == JudgeSpec => []JudgeInv
<1> QED
  BY JudgeInitInv, JudgeStep, PTL DEF JudgeSpec

\* For any number of executions, gates, writes, deaths, asks and tries: a verdict
\* says what was run (VerdictIsEarned).
THEOREM VerdictIsAlwaysEarned == VerdictSpec => []VerdictIsEarned
<1>1. GatesInv /\ JudgeInv => VerdictIsEarned
  BY GatesHold DEF JudgeInv, VerdictIsEarned
<1> QED
  BY <1>1, GatesInvariant, JudgeInvariant, PTL DEF VerdictSpec

-----------------------------------------------------------------------------
(***************************************************************************)
(*                               THE FLEET                                 *)
(*                                                                         *)
(* For any number of builds, of deploys and sweeps, of workflows, of boots *)
(* and of probed units: the version new work goes to is on the host, open  *)
(* work keeps its unit and units keep their checkouts (Deploy), a child's  *)
(* death takes the engine down and the demo is dispatched once             *)
(* (Supervisor), and what is on record was said (Probe).                   *)
(*                                                                         *)
(* A deploy or sweep acts on what it read several steps before.  FloorInv  *)
(* says that nobody else can have moved a unit or a checkout since;        *)
(* DeployingInv and SweepingInv, what a round may still rely on of what it *)
(* read, although the server and the operator go on.                       *)
(***************************************************************************)

-----------------------------------------------------------------------------
(* Deploys and sweeps: the inductive invariant                              *)

\* Where a round holds the deployment lock, and where it has its targets.
Critical == {"freeze", "sync", "start_unit", "await", "promote", "snapshot",
             "list", "recount", "stop", "remove", "delete"}
Sweeping == {"recount", "stop", "remove", "delete"}

\* One round at a time is past the lock.
FloorInv == \A r \in Rounds : round[r].at \in Critical => floor = r

\* A version the server calls drained has nothing open and is not the current.
DrainedInv == \A b \in Builds : record[b] = "drained" => open[b] = 0 /\ b # current

\* A version whose work the count does not run behind.
Counted(b) == b # current /\ open[b] <= counted[b]

\* A deploy's build is on the host as far as the deploy has come.
DeployingInv(r) ==
    /\ round[r].at \in {"freeze", "sync", "start_unit", "await", "promote"} => round[r].build # 0
    /\ round[r].at \in {"sync", "start_unit", "await", "promote"} => tree[round[r].build] # "none"
    /\ round[r].at \in {"await", "promote"} => round[r].build \in unit

\* A sweep's targets are not the current version, nothing is open on one that
\* the count does not show, and a unit is known for the one it is.
SweepingInv(r) ==
    /\ round[r].at = "list" => \A b \in round[r].drained : Counted(b)
    /\ round[r].at \in Sweeping =>
          /\ round[r].targets # {}
          /\ \A t \in round[r].targets :
                Counted(t.build) /\ (~unlisted /\ t.build \in unit => t.unit)
    /\ round[r].at = "stop" => open[This(r).build] = 0 \/ This(r).build \in unlucky
    /\ round[r].at = "remove" /\ ~unlisted => This(r).build \notin unit

DeployInv ==
    /\ DeployTypeOK /\ FloorInv /\ DrainedInv
    /\ \A r \in Rounds : DeployingInv(r) /\ SweepingInv(r)
    /\ CurrentIsOnTheFloor /\ WorkKeepsItsWorker /\ UnitHasItsTree

-----------------------------------------------------------------------------
(* The supervisor: the inductive invariant                                  *)

\* The epic is shipped behind its sentinel, by a container that was brought up.
ShippedInv ==
    /\ at # "down" => boots > 0
    /\ shipped > 0 \/ driver = "ship" => "dispatched" \in sentinel
    /\ shipped > 0 => driver # "ship"
    /\ shipped <= 1

\* Nobody is told to go before the watch but Temporal where it did not answer;
\* in the watch, a child is told behind a signal or the first death.
ToldInv ==
    /\ at \notin {"watch", "unready"} => \A n \in Children : child[n] # "told"
    /\ at \notin {"watch", "down"} => first = Nobody /\ ~asked
    /\ at = "watch" =>
          /\ first # Nobody => first \in Supervised /\ child[first] = "gone"
          /\ asked \/ first # Nobody => \A n \in pending : child[n] # "up"
          /\ (\E n \in Supervised : child[n] = "told") => asked \/ first # Nobody

SupervisorInv == SupervisorTypeOK /\ ShippedInv /\ ToldInv

-----------------------------------------------------------------------------
(* The probe: the inductive invariant                                       *)

\* A verdict goes to disk once it was said, where it is news.
SaidInv ==
    /\ RecordedIsSaid
    /\ disk.status = Unknown /\ stage # "write" /\ ~lost => told.status # DEGRADED
    /\ stage = "deliver" => AlertDue(read) \/ Heartbeat(read)
    /\ stage \in {"deliver", "write"} => read = disk
    /\ stage = "write" /\ ~lost =>
          /\ verdict = DEGRADED => told.status = DEGRADED
          /\ verdict = HEALTHY => told.status # DEGRADED

ProbeInv == ProbeTypeOK /\ SaidInv

-----------------------------------------------------------------------------
(* The probe                                                                *)

LEMMA ProbeInitInv == ProbeInit => ProbeInv
<1> SUFFICES ASSUME ProbeInit PROVE ProbeInv
  OBVIOUS
<1>1. ProbeTypeOK
  <2>1. 0 \in 0..MaxTime
    BY ProbeAssumption
  <2>2. NoState \in State /\ [status |-> Unknown, carried |-> TRUE, at |-> 0] \in Said
    BY <2>1 DEF NoState, State, Said
  <2> QED
    BY <2>1, <2>2 DEF ProbeInit, ProbeTypeOK
<1>2. SaidInv
  BY DEF ProbeInit, SaidInv, RecordedIsSaid, NoState, Unknown, HEALTHY, DEGRADED
<1> QED
  BY <1>1, <1>2 DEF ProbeInv

\* What a probe writes is a verdict at a time of the clock.
LEMMA WrittenType ==
    ASSUME ProbeTypeOK
    PROVE  Written \in State /\ Written.status = verdict
<1>1. verdict \in {HEALTHY, DEGRADED, Unknown} /\ clock \in 0..MaxTime
  BY DEF ProbeTypeOK
<1>2. read.heartbeat_at \in 0..MaxTime
  BY DEF ProbeTypeOK, State
<1> QED
  BY <1>1, <1>2 DEF Written, State

LEMMA ProbeStep == ProbeInv /\ [ProbeNext]_pvars => ProbeInv'
<1> SUFFICES ASSUME ProbeInv, [ProbeNext]_pvars PROVE ProbeInv'
  OBVIOUS
<1> USE DEF ProbeInv
<1>1. CASE Tick
  <2>1. ProbeTypeOK'
    BY <1>1, ProbeAssumption DEF Tick, ProbeTypeOK
  <2>2. SaidInv'
    BY <1>1 DEF Tick, SaidInv, RecordedIsSaid
  <2> QED
    BY <2>1, <2>2
<1>2. CASE assess
  <2>1. ProbeTypeOK'
    BY <1>2 DEF assess, ProbeTypeOK
  <2>2. SaidInv'
    BY <1>2 DEF assess, SaidInv, RecordedIsSaid
  <2> QED
    BY <2>1, <2>2
<1>3. CASE decide_alert
  <2>1. ProbeTypeOK'
    BY <1>3 DEF decide_alert, ProbeTypeOK, stack
  <2>2. SaidInv'
    <3>1. stage' = "deliver" => AlertDue(disk) \/ Heartbeat(disk)
      BY <1>3 DEF decide_alert
    <3>2. (AlertDue(disk) \/ Heartbeat(disk)) <=> (AlertDue(read) \/ Heartbeat(read))'
      BY <1>3 DEF decide_alert, AlertDue, Heartbeat
    <3>3. stage' = "write" => ~AlertDue(disk)
      BY <1>3 DEF decide_alert
    <3>4. disk.status \in {HEALTHY, DEGRADED, Unknown} /\ verdict \in {HEALTHY, DEGRADED}
      BY DEF ProbeTypeOK, State
    <3>5. verdict = DEGRADED /\ stage' = "write" => disk.status = DEGRADED
      BY <3>3 DEF AlertDue
    <3>6. verdict = HEALTHY /\ stage' = "write" => disk.status # DEGRADED
      BY <3>3 DEF AlertDue
    <3> QED
      BY <1>3, <3>1, <3>2, <3>4, <3>5, <3>6 DEF decide_alert, SaidInv, RecordedIsSaid, stack
  <2> QED
    BY <2>1, <2>2
<1>4. CASE deliver_alert
  <2>1. ProbeTypeOK'
    BY <1>4 DEF deliver_alert, ProbeTypeOK, stack, Said
  <2>2. SaidInv'
    BY <1>4 DEF deliver_alert, SaidInv, RecordedIsSaid, stack, HEALTHY, DEGRADED
  <2> QED
    BY <2>1, <2>2
<1>5. CASE write_state
  <2>1. ProbeTypeOK'
    BY <1>5, WrittenType DEF write_state, ProbeTypeOK, stack
  <2>2. SaidInv'
    BY <1>5, WrittenType DEF write_state, SaidInv, RecordedIsSaid, stack, ProbeTypeOK, Unknown, HEALTHY, DEGRADED
  <2> QED
    BY <2>1, <2>2
<1>6. CASE ProbeDies
  <2>1. ProbeTypeOK'
    BY <1>6, ProbeAssumption DEF ProbeDies, ProbeTypeOK, NoState, State, stack
  <2>2. SaidInv'
    <3>1. CASE disk' = disk
      BY <1>6, <3>1 DEF ProbeDies, SaidInv, RecordedIsSaid, stack
    <3>2. CASE disk' = NoState /\ stage = "write"
      BY <1>6, <3>2 DEF ProbeDies, SaidInv, RecordedIsSaid, stack, NoState, Unknown, HEALTHY, DEGRADED
    <3> QED
      BY <1>6, <3>1, <3>2 DEF ProbeDies
  <2> QED
    BY <2>1, <2>2
<1>7. CASE UNCHANGED pvars
  BY <1>7 DEF pvars, ProbeTypeOK, SaidInv, RecordedIsSaid, AlertDue, Heartbeat
<1> QED
  BY <1>1, <1>2, <1>3, <1>4, <1>5, <1>6, <1>7 DEF ProbeNext

-----------------------------------------------------------------------------
(* The supervisor                                                           *)

LEMMA SupervisorInitInv == SupervisorInit => SupervisorInv
<1> SUFFICES ASSUME SupervisorInit PROVE SupervisorInv
  OBVIOUS
<1>1. SupervisorTypeOK
  <2>1. 0 \in 0..MaxBoots /\ 0 \in 0..1
    BY SupervisorAssumption
  <2>2. AllOff \in [Children -> {"off", "up", "told", "gone"}]
    BY DEF AllOff
  <2> QED
    BY <2>1, <2>2 DEF SupervisorInit, SupervisorTypeOK
<1>2. ShippedInv /\ ToldInv
  BY DEF SupervisorInit, ShippedInv, ToldInv, AllOff, Nobody
<1> QED
  BY <1>1, <1>2 DEF SupervisorInv

\* A container that is gone leaves nobody to tell.
LEMMA WorkEndsKeeps ==
    ASSUME SupervisorInv, NEW s \in 0..1, Ends(s), UNCHANGED <<first, asked, Story>>,
           identity' \in BOOLEAN, UNCHANGED sentinel
    PROVE  SupervisorInv'
<1> USE DEF SupervisorInv
<1>1. SupervisorTypeOK'
  BY DEF Ends, Story, SupervisorTypeOK, AllOff
<1>2. ShippedInv'
  BY DEF Ends, Story, ShippedInv
<1>3. ToldInv'
  BY DEF Ends, ToldInv, AllOff
<1> QED
  BY <1>1, <1>2, <1>3

LEMMA StartingKeeps ==
    ASSUME SupervisorInv, Starting
    PROVE  SupervisorInv'
<1> USE DEF SupervisorInv
<1>1. CASE _check_same_path_registry
  <2>1. CASE Ends(1)
    BY <1>1, <2>1, WorkEndsKeeps DEF _check_same_path_registry, Volume, SupervisorTypeOK
  <2>2. CASE at' = "temporal" /\ UNCHANGED <<exit, child, pending, driver>>
    BY <1>1, <2>2 DEF _check_same_path_registry, Volume, Story, SupervisorTypeOK, ShippedInv, ToldInv
  <2> QED
    BY <1>1, <2>1, <2>2 DEF _check_same_path_registry
<1>2. CASE StartTemporal
  BY <1>2 DEF StartTemporal, _start_real_child, Volume, Story, SupervisorTypeOK, ShippedInv, ToldInv,
              Children, Supervised
<1>3. CASE _probe_temporal_address
  BY <1>3 DEF _probe_temporal_address, Story, SupervisorTypeOK, ShippedInv, ToldInv,
              Children, Supervised
<1>4. CASE Unready
  BY <1>4, WorkEndsKeeps DEF Unready, Volume, SupervisorTypeOK
<1>5. CASE StartWorker
  BY <1>5 DEF StartWorker, _start_real_child, Volume, Story, SupervisorTypeOK, ShippedInv, ToldInv,
              Children, Supervised
<1>6. CASE _bridge_is_configured
  BY <1>6 DEF _bridge_is_configured, _start_real_child, Volume, Story, SupervisorTypeOK, ShippedInv,
              ToldInv, Children, Supervised
<1>7. CASE _demo_requested
  BY <1>7 DEF _demo_requested, Volume, Story, SupervisorTypeOK, ShippedInv, ToldInv,
              Children, Supervised
<1> QED
  BY <1>1, <1>2, <1>3, <1>4, <1>5, <1>6, <1>7 DEF Starting

\* Who is told to go is a child it waits for that was up.
LEMMA StopType ==
    ASSUME SupervisorTypeOK, NEW v, _stop_all_except(v)
    PROVE  /\ child' \in [Children -> {"off", "up", "told", "gone"}]
           /\ \A n \in Children : child'[n] = IF n \in pending \ {v} /\ child[n] = "up" THEN "told" ELSE child[n]
  BY DEF SupervisorTypeOK, _stop_all_except

LEMMA ChildrenKeep ==
    ASSUME SupervisorInv, NEW n \in Children, ChildDies(n) \/ ChildObeys(n) \/ Observe(n)
    PROVE  SupervisorInv'
<1> USE DEF SupervisorInv
<1>1. CASE ChildDies(n)
  BY <1>1 DEF ChildDies, watching, Volume, Story, SupervisorTypeOK, ShippedInv, ToldInv, Children
<1>2. CASE ChildObeys(n)
  BY <1>2 DEF ChildObeys, watching, Volume, Story, SupervisorTypeOK, ShippedInv, ToldInv, Children
<1>3. CASE Observe(n)
  <2>1. n \in Supervised /\ n # Nobody /\ pending \subseteq Supervised /\ Supervised \subseteq Children
    BY <1>3 DEF Observe, SupervisorTypeOK, Supervised, Children, Nobody
  <2>2. CASE asked \/ first # Nobody
    BY <1>3, <2>1, <2>2 DEF Observe, Volume, Story, SupervisorTypeOK, ShippedInv, ToldInv
  <2>3. CASE ~asked /\ first = Nobody
    <3>1. /\ first' = n /\ _stop_all_except(n) /\ at = "watch" /\ child[n] = "gone"
          /\ pending' = pending \ {n} /\ UNCHANGED <<at, exit, asked, driver, Story, Volume>>
      BY <1>3, <2>3 DEF Observe
    <3>2. SupervisorTypeOK'
      BY <2>1, <3>1, StopType DEF Volume, Story, SupervisorTypeOK
    <3>3. ShippedInv'
      BY <3>1 DEF ShippedInv, Volume, Story
    <3>4. ToldInv'
      BY <2>1, <3>1, StopType DEF ToldInv
    <3> QED
      BY <3>2, <3>3, <3>4
  <2> QED
    BY <2>2, <2>3
<1> QED
  BY <1>1, <1>2, <1>3

LEMMA DriverKeeps ==
    ASSUME SupervisorInv, Driver
    PROVE  SupervisorInv'
<1> USE DEF SupervisorInv
<1>1. at = "watch" /\ UNCHANGED <<at, exit, watching, boots, config, deaf, identity>>
      /\ "demo" \in Children /\ "demo" \notin Supervised
  BY DEF Driver, run_prepare_phase, run_dispatch_phase, Ship, run_watch_phase, Driving, Story, Volume,
         Children, Supervised
<1>2. child' = child \/ DriverEnds
  BY DEF Driver, run_prepare_phase, run_dispatch_phase, Ship, run_watch_phase
<1>3. child' \in [Children -> {"off", "up", "told", "gone"}] /\ \A n \in Supervised : child'[n] = child[n]
  BY <1>1, <1>2 DEF DriverEnds, SupervisorTypeOK, Children
<1>4. boots \in 1..MaxBoots
  BY <1>1, SupervisorAssumption DEF ShippedInv, SupervisorTypeOK
<1>5. /\ driver' \in {"prepare", "dispatch", "ship", "follow", "over"}
      /\ sentinel' \subseteq {"prepared", "dispatched"} /\ shipped' \in 0..MaxBoots /\ ShippedInv'
  <2>1. CASE run_prepare_phase
    BY <1>1, <2>1 DEF run_prepare_phase, Driving, DriverEnds, Story, SupervisorTypeOK, ShippedInv
  <2>2. CASE run_dispatch_phase
    <3>1. CASE "dispatched" \in sentinel
      BY <1>1, <2>2, <3>1 DEF run_dispatch_phase, Driving, DriverEnds, Story, SupervisorTypeOK, ShippedInv
    <3>2. CASE "dispatched" \notin sentinel
      <4>1. ~(shipped > 0) /\ driver' = "ship" /\ sentinel' = sentinel \cup {"dispatched"} /\ shipped' = shipped
        BY <2>2, <3>2 DEF run_dispatch_phase, ShippedInv, Story
      <4> QED
        BY <1>1, <4>1 DEF SupervisorTypeOK, ShippedInv
    <3> QED
      BY <3>1, <3>2
  <2>3. CASE Ship
    BY <1>1, <1>4, <2>3, SupervisorAssumption
       DEF Ship, Driving, DriverEnds, Volume, SupervisorTypeOK, ShippedInv
  <2>4. CASE run_watch_phase
    BY <1>1, <2>4 DEF run_watch_phase, Driving, DriverEnds, Story, Volume, SupervisorTypeOK, ShippedInv
  <2> QED
    BY <2>1, <2>2, <2>3, <2>4 DEF Driver
<1>6. SupervisorTypeOK'
  BY <1>1, <1>3, <1>5 DEF SupervisorTypeOK, watching
<1>7. ToldInv'
  BY <1>1, <1>3 DEF ToldInv, watching, SupervisorTypeOK
<1> QED
  BY <1>5, <1>6, <1>7

LEMMA SupervisorStep == SupervisorInv /\ [SupervisorNext]_bvars => SupervisorInv'
<1> SUFFICES ASSUME SupervisorInv, [SupervisorNext]_bvars PROVE SupervisorInv'
  OBVIOUS
<1> USE DEF SupervisorInv
<1>1. CASE BringUp
  <2>1. boots' \in 1..MaxBoots /\ boots' \in 0..MaxBoots
    BY <1>1, SupervisorAssumption DEF BringUp, SupervisorTypeOK
  <2>2. SupervisorTypeOK'
    BY <1>1, <2>1 DEF BringUp, Volume, SupervisorTypeOK
  <2>3. ShippedInv'
    <3>1. boots' > 0
      BY <2>1, SupervisorAssumption
    <3> QED
      BY <1>1, <3>1 DEF BringUp, Volume, ShippedInv
  <2>4. ToldInv'
    BY <1>1 DEF BringUp, ToldInv
  <2> QED
    BY <2>2, <2>3, <2>4
<1>2. CASE on_signal
  <2>1. CASE at = "watch"
    <3>1. asked' /\ asked' \in BOOLEAN /\ _stop_all_except(Nobody)
          /\ UNCHANGED <<at, exit, pending, driver, first, Story, Volume>>
      BY <1>2, <2>1 DEF on_signal
    <3>2. SupervisorTypeOK'
      BY <1>2, <2>1, <3>1, StopType DEF on_signal, Volume, Story, SupervisorTypeOK
    <3>3. pending \subseteq Supervised /\ Supervised \subseteq Children /\ Nobody \notin Supervised
      BY DEF SupervisorTypeOK, Supervised, Children, Nobody
    <3>4. ToldInv'
      BY <2>1, <3>1, <3>3, StopType DEF ToldInv
    <3>5. ShippedInv'
      BY <3>1 DEF ShippedInv, Volume, Story
    <3> QED
      BY <3>2, <3>4, <3>5
  <2>2. CASE at # "watch"
    BY <1>2, <2>2, WorkEndsKeeps DEF on_signal, Volume, SupervisorTypeOK
  <2> QED
    BY <2>1, <2>2
<1>3. CASE ContainerDies
  BY <1>3, WorkEndsKeeps DEF ContainerDies, Volume, SupervisorTypeOK
<1>4. CASE Finish
  <2>1. PICK s \in 0..1 : Ends(s)
    BY <1>4 DEF Finish
  <2> QED
    BY <1>4, <2>1, WorkEndsKeeps DEF Finish, SupervisorTypeOK
<1>5. CASE UNCHANGED bvars
  BY <1>5 DEF bvars, SupervisorTypeOK, ShippedInv, ToldInv
<1> QED
  BY <1>1, <1>2, <1>3, <1>4, <1>5, StartingKeeps, ChildrenKeep, DriverKeeps DEF SupervisorNext

-----------------------------------------------------------------------------
(* Deploys and sweeps: the operators                                        *)

\* Of some targets there is a first.
LEMMA FirstIsOne ==
    ASSUME NEW T \in SUBSET Target, T # {}
    PROVE  First(T) \in T
<1> DEFINE I == {t.build : t \in T}
<1>1. \A t \in T : t.build \in Builds
  BY DEF Target
<1>2. Builds \subseteq Nat
  BY DeployAssumption DEF Builds
<1>3. I \subseteq Nat /\ I # {}
  BY <1>1, <1>2
<1>4. PICK x \in I : \A y \in I : ~(<<y, x>> \in OpToRel(<, Nat))
  BY <1>3, NatLessThanWellFounded, WFMin
<1>5. \A y \in I : ~(y < x)
  BY <1>3, <1>4 DEF OpToRel
<1>6. PICK t \in T : x = t.build
  BY <1>4
<1>7. \A o \in T : t.build <= o.build
  <2> SUFFICES ASSUME NEW o \in T PROVE t.build <= o.build
    OBVIOUS
  <2>1. ~(o.build < t.build)
    BY <1>5, <1>6
  <2>2. o.build \in Nat /\ t.build \in Nat
    BY <1>1, <1>2
  <2> QED
    BY <2>1, <2>2
<1> QED
  BY <1>7 DEF First

Places == {"start", "lock", "freeze", "sync", "start_unit", "await", "promote", "snapshot",
           "list", "recount", "stop", "remove", "delete"} \cup Over

\* A round that goes on to another place keeps the rest of what it holds, and
\* the other rounds all of it.
LEMMA GoesKeeps ==
    ASSUME DeployTypeOK, NEW r \in Rounds, NEW place \in Places, Goes(r, place)
    PROVE  /\ round' \in [Rounds -> Round]
           /\ \A q \in Rounds : q # r => round'[q] = round[q]
           /\ round'[r].at = place /\ round'[r].build = round[r].build
           /\ round'[r].drained = round[r].drained /\ round'[r].targets = round[r].targets
           /\ This(r)' = This(r)
<1>1. round \in [Rounds -> Round]
  BY DEF DeployTypeOK
<1>2. round' = [round EXCEPT ![r] = [round[r] EXCEPT !.at = place]]
  BY <1>1 DEF Goes
<1>3. round[r] \in Round /\ [round[r] EXCEPT !.at = place] \in Round
  BY <1>1 DEF Round, Places
<1>4. round'[r] = [round[r] EXCEPT !.at = place]
  BY <1>1, <1>2
<1>5. round'[r].targets = round[r].targets
  BY <1>3, <1>4 DEF Round
<1>6. This(r)' = This(r)
  BY <1>5 DEF This
<1> QED
  BY <1>1, <1>2, <1>3, <1>4, <1>5, <1>6 DEF Round

\* One that ends forgets its targets and lets go of the lock.
LEMMA EndKeeps ==
    ASSUME DeployTypeOK, NEW r \in Rounds, NEW how \in Over, RoundEnds(r, how)
    PROVE  /\ round' \in [Rounds -> Round]
           /\ \A q \in Rounds : q # r => round'[q] = round[q]
           /\ round'[r].at = how /\ floor' = 0
<1>1. round \in [Rounds -> Round]
  BY DEF DeployTypeOK
<1> DEFINE e == [Idle EXCEPT !.build = round[r].build, !.at = how]
<1>2. Idle \in Round /\ round[r].build \in 0..B
  BY <1>1, DeployAssumption DEF Idle, Round
<1>3. e \in Round /\ e.at = how
  BY <1>2 DEF Round
<1>4. round' = [round EXCEPT ![r] = e] /\ floor' = 0
  BY DEF RoundEnds
<1> HIDE DEF e
<1> QED
  BY <1>1, <1>3, <1>4

LEMMA DeployInitInv == DeployInit => DeployInv
<1> SUFFICES ASSUME DeployInit PROVE DeployInv
  OBVIOUS
<1>1. B \in Nat /\ B >= 1 /\ MaxRounds \in Nat /\ MaxOpen \in Nat
  BY DeployAssumption
<1>2. Idle \in Round /\ Idle.at = "start"
  BY <1>1 DEF Idle, Round, Over
<1>3. \A b \in Builds : open[b] = 0 /\ counted[b] = 0
  BY DEF DeployInit
<1>4. DeployTypeOK
  <2>1. {open, counted} \subseteq [Builds -> 0..MaxOpen]
    BY <1>1 DEF DeployInit
  <2>2. unit \subseteq Builds /\ current \in 0..B
    BY <1>1 DEF DeployInit, Builds
  <2>3. tree \in [Builds -> {"none", "part", "whole"}]
    BY DEF DeployInit
  <2>4. record \in [Builds -> {"none", "inactive", "draining", "drained"}]
    BY DEF DeployInit
  <2>5. floor \in 0..MaxRounds /\ round \in [Rounds -> Round]
    BY <1>1, <1>2 DEF DeployInit
  <2>6. unlisted \in BOOLEAN /\ unlucky \subseteq Builds
    BY DEF DeployInit
  <2> QED
    BY <2>1, <2>2, <2>3, <2>4, <2>5, <2>6 DEF DeployTypeOK
<1>5. \A r \in Rounds : round[r].at = "start"
  BY <1>2 DEF DeployInit
<1>6. \A r \in Rounds : DeployingInv(r) /\ SweepingInv(r)
  BY <1>5 DEF DeployingInv, SweepingInv, Sweeping
<1>7. DrainedInv /\ FloorInv
  BY <1>3, <1>5 DEF DrainedInv, FloorInv, Critical, DeployInit
<1>8. WorkKeepsItsWorker
  BY <1>3 DEF WorkKeepsItsWorker
<1>9. CurrentIsOnTheFloor /\ UnitHasItsTree
  BY <1>4 DEF DeployInit, DeployTypeOK, CurrentIsOnTheFloor, UnitHasItsTree
<1> QED
  BY <1>4, <1>6, <1>7, <1>8, <1>9 DEF DeployInv

-----------------------------------------------------------------------------
(* Deploys and sweeps: the server, the clock and the operator               *)

\* While the rounds stand still, each keeps what it may rely on, if the host
\* does and no target's work gets ahead of its count.
LEMMA RoundsKeep ==
    ASSUME DeployInv, UNCHANGED <<host, current, floor, round, unlisted>>, unlucky \subseteq unlucky',
           \A b \in Builds \ {current} : open[b] <= counted[b] => open'[b] <= counted'[b],
           \A r \in Rounds : round[r].at = "stop" =>
               \/ This(r).build \in unlucky' \/ open'[This(r).build] = 0
    PROVE  FloorInv' /\ \A r \in Rounds : DeployingInv(r)' /\ SweepingInv(r)'
<1>1. FloorInv'
  BY DEF DeployInv, FloorInv
<1>2. \A r \in Rounds : DeployingInv(r)'
  BY DEF DeployInv, DeployingInv, host
<1>3. ASSUME NEW b \in Builds, Counted(b) PROVE Counted(b)'
  BY <1>3 DEF Counted
<1>4. ASSUME NEW r \in Rounds PROVE SweepingInv(r)'
  <2>1. SweepingInv(r) /\ This(r)' = This(r) /\ round[r] \in Round
    BY <1>4 DEF DeployInv, This, DeployTypeOK
  <2>2. round[r].drained \subseteq Builds /\ \A t \in round[r].targets : t.build \in Builds
    BY <2>1 DEF Round, Target
  <2>3. round[r].at = "list" => \A b \in round[r].drained : Counted(b)'
    BY <1>3, <2>1, <2>2 DEF SweepingInv
  <2>4. round[r].at \in Sweeping => \A t \in round[r].targets :
             Counted(t.build)' /\ (~unlisted /\ t.build \in unit => t.unit)
    BY <1>3, <2>1, <2>2 DEF SweepingInv
  <2> QED
    BY <1>4, <2>1, <2>3, <2>4 DEF SweepingInv, host
<1> QED
  BY <1>1, <1>2, <1>4

LEMMA ServerKeeps ==
    ASSUME DeployInv, NEW b \in Builds,
           Registers(b) \/ Drains(b) \/ Completes(b) \/ Counts(b)
    PROVE  DeployInv'
<1>1. /\ DeployTypeOK /\ DrainedInv /\ open[b] \in 0..MaxOpen /\ MaxOpen \in Nat
      /\ CurrentIsOnTheFloor /\ WorkKeepsItsWorker /\ UnitHasItsTree
  BY DeployAssumption DEF DeployInv, DeployTypeOK
<1>2. UNCHANGED <<host, current, floor, round, past>>
  BY DEF Registers, Drains, Completes, Counts
<1>3. DeployTypeOK'
  BY <1>1, <1>2 DEF Registers, Drains, Completes, Counts, DeployTypeOK, host, past
<1>4. \A v \in Builds : open'[v] \in 0..open[v]
  BY <1>1 DEF Registers, Drains, Completes, Counts, DeployTypeOK
<1>5. \A v \in Builds : open[v] <= counted[v] => open'[v] <= counted'[v]
  BY <1>1 DEF Registers, Drains, Completes, Counts, DeployTypeOK
<1>6. \A v \in Builds : record'[v] = "drained" => open'[v] = 0 /\ v # current
  BY <1>1, <1>4 DEF Registers, Drains, Completes, Counts, DeployTypeOK, DrainedInv
<1>7. \A r \in Rounds : round[r].at = "stop" => \/ This(r).build \in unlucky'
                                                \/ open'[This(r).build] = 0
  <2> SUFFICES ASSUME NEW r \in Rounds, round[r].at = "stop", This(r).build \notin unlucky
               PROVE  open'[This(r).build] = 0
    BY <1>2 DEF past
  <2>1. round[r] \in Round /\ round[r].targets # {} /\ open[This(r).build] = 0
    BY DEF DeployInv, DeployTypeOK, SweepingInv, Sweeping
  <2>2. This(r).build \in Builds
    BY <2>1, FirstIsOne DEF This, Round, Target
  <2> QED
    BY <1>4, <2>1, <2>2
<1>8. FloorInv' /\ \A r \in Rounds : DeployingInv(r)' /\ SweepingInv(r)'
  BY <1>2, <1>5, <1>7, RoundsKeep DEF past
<1>9. CurrentIsOnTheFloor' /\ WorkKeepsItsWorker' /\ UnitHasItsTree'
  <2>1. \A v \in Builds : open'[v] > 0 => open[v] > 0
    BY <1>1, <1>4 DEF DeployTypeOK
  <2> QED
    BY <1>1, <1>2, <2>1 DEF CurrentIsOnTheFloor, WorkKeepsItsWorker, UnitHasItsTree, host, past
<1> QED
  BY <1>2, <1>3, <1>6, <1>8, <1>9 DEF DeployInv, DrainedInv

LEMMA DispatchKeeps == ASSUME DeployInv, Dispatch PROVE DeployInv'
<1>1. /\ DeployTypeOK /\ DrainedInv /\ current \in Builds /\ current \in unit
      /\ UNCHANGED <<host, record, current, counted, floor, round, past>>
      /\ CurrentIsOnTheFloor /\ WorkKeepsItsWorker /\ UnitHasItsTree
  BY DeployAssumption DEF DeployInv, DeployTypeOK, Dispatch, CurrentIsOnTheFloor, Builds
<1>2. open \in [Builds -> 0..MaxOpen] /\ counted \in [Builds -> 0..MaxOpen]
  BY <1>1 DEF DeployTypeOK
<1>3. open' \in [Builds -> 0..MaxOpen] /\ \A v \in Builds \ {current} : open'[v] = open[v]
  BY <1>1, <1>2, DeployAssumption DEF Dispatch
<1>4. DeployTypeOK'
  BY <1>1, <1>2, <1>3 DEF DeployTypeOK, host, past
<1>5. DrainedInv'
  BY <1>1, <1>3 DEF DrainedInv
<1>6. \A r \in Rounds : round[r].at = "stop" => \/ This(r).build \in unlucky'
                                                \/ open'[This(r).build] = 0
  <2> SUFFICES ASSUME NEW r \in Rounds, round[r].at = "stop", This(r).build \notin unlucky
               PROVE  open'[This(r).build] = 0
    BY <1>1 DEF past
  <2>1. /\ round[r] \in Round /\ round[r].targets # {} /\ open[This(r).build] = 0
        /\ \A t \in round[r].targets : t.build # current
    BY DEF DeployInv, DeployTypeOK, SweepingInv, Sweeping, Counted
  <2>2. This(r).build \in Builds \ {current}
    BY <2>1, FirstIsOne DEF This, Round, Target
  <2> QED
    BY <1>3, <2>1, <2>2
<1>7. FloorInv' /\ \A r \in Rounds : DeployingInv(r)' /\ SweepingInv(r)'
  BY <1>1, <1>3, <1>6, RoundsKeep DEF past
<1>8. CurrentIsOnTheFloor' /\ WorkKeepsItsWorker' /\ UnitHasItsTree'
  BY <1>1, <1>3 DEF CurrentIsOnTheFloor, WorkKeepsItsWorker, UnitHasItsTree, host, past
<1> QED
  BY <1>4, <1>5, <1>7, <1>8 DEF DeployInv

\* Work reopened on a version that a sweep is taking down is the operator's bad
\* luck; on any other it shows in the count at once.
LEMMA ReopenKeeps == ASSUME DeployInv, NEW b \in Builds, Reopen(b) PROVE DeployInv'
<1>1. /\ DeployTypeOK /\ DrainedInv /\ b # current /\ b \notin unlucky
      /\ UNCHANGED <<host, current, floor, round, unlisted>>
      /\ CurrentIsOnTheFloor /\ WorkKeepsItsWorker /\ UnitHasItsTree
  BY DEF DeployInv, Reopen
<1>2. open \in [Builds -> 0..MaxOpen] /\ counted \in [Builds -> 0..MaxOpen]
  BY <1>1 DEF DeployTypeOK
<1>3. /\ open' \in [Builds -> 0..MaxOpen] /\ counted' \in [Builds -> 0..MaxOpen]
      /\ open'[b] = counted'[b] /\ open'[b] \in Nat
      /\ \A v \in Builds \ {b} : open'[v] = open[v] /\ counted'[v] = counted[v]
  BY <1>1, <1>2, DeployAssumption DEF Reopen
<1>4. /\ record' \in [Builds -> {"none", "inactive", "draining", "drained"}] /\ record'[b] = "draining"
      /\ \A v \in Builds \ {b} : record'[v] = record[v]
  BY <1>1 DEF Reopen, DeployTypeOK
<1>5. unlucky' \in {unlucky, unlucky \cup {b}} /\ (BehindASweep(b) => b \in unlucky')
  BY DEF Reopen
<1>6. DeployTypeOK'
  BY <1>1, <1>2, <1>3, <1>4, <1>5 DEF DeployTypeOK, host
<1>7. DrainedInv'
  BY <1>1, <1>3, <1>4 DEF DrainedInv
<1>8. \A r \in Rounds : round[r].at = "stop" => \/ This(r).build \in unlucky'
                                                \/ open'[This(r).build] = 0
  <2> SUFFICES ASSUME NEW r \in Rounds, round[r].at = "stop", This(r).build \notin unlucky'
               PROVE  open'[This(r).build] = 0
    OBVIOUS
  <2>1. round[r] \in Round /\ round[r].targets # {} /\ (open[This(r).build] = 0 \/ This(r).build \in unlucky)
    BY DEF DeployInv, DeployTypeOK, SweepingInv, Sweeping
  <2>2. This(r) \in round[r].targets /\ This(r).build \in Builds
    BY <2>1, FirstIsOne DEF This, Round, Target
  <2>3. This(r).build # b
    BY <1>5, <2>2 DEF BehindASweep
  <2> QED
    BY <1>3, <1>5, <2>1, <2>2, <2>3
<1>9. FloorInv' /\ \A r \in Rounds : DeployingInv(r)' /\ SweepingInv(r)'
  <2>1. \A v \in Builds \ {current} : open[v] <= counted[v] => open'[v] <= counted'[v]
    BY <1>3
  <2> QED
    BY <1>1, <1>5, <1>8, <2>1, RoundsKeep
<1>10. WorkKeepsItsWorker'
  BY <1>1, <1>3, <1>5 DEF WorkKeepsItsWorker, BehindASweep, host
<1> QED
  BY <1>1, <1>6, <1>7, <1>9, <1>10 DEF DeployInv, CurrentIsOnTheFloor, UnitHasItsTree, host

-----------------------------------------------------------------------------
(* Deploys and sweeps: one round's steps                                    *)

\* Beside the holder of the lock, or when nobody has it, no round is anywhere
\* that it relies on anything.
LEMMA OthersRest ==
    ASSUME DeployInv, NEW r \in Rounds, round[r].at \in Critical \/ floor \in {0, r},
           NEW q \in Rounds, q # r, round'[q] = round[q]
    PROVE  round'[q].at \notin Critical /\ DeployingInv(q)' /\ SweepingInv(q)'
<1>1. floor \in {0, r} /\ q # 0
  BY DeployAssumption DEF DeployInv, FloorInv, Rounds
<1>2. round'[q].at \notin Critical
  BY <1>1 DEF DeployInv, FloorInv
<1> QED
  BY <1>2 DEF DeployingInv, SweepingInv, Critical, Sweeping

\* A round in a place where it relies on nothing.
LEMMA RestsThere ==
    ASSUME NEW r \in Rounds, round'[r].at \in {"start", "lock", "snapshot"} \cup Over
    PROVE  DeployingInv(r)' /\ SweepingInv(r)'
  BY DEF DeployingInv, SweepingInv, Sweeping, Over

\* What is left to show of a step past the lock.
LEMMA HolderStep ==
    ASSUME DeployInv, NEW r \in Rounds, round[r].at \in Critical \/ floor \in {0, r},
           \A q \in Rounds : q # r => round'[q] = round[q],
           floor' = r \/ round'[r].at \notin Critical,
           DeployTypeOK', DrainedInv', DeployingInv(r)', SweepingInv(r)',
           CurrentIsOnTheFloor', WorkKeepsItsWorker', UnitHasItsTree'
    PROVE  DeployInv'
<1>1. \A q \in Rounds : q # r =>
         round'[q].at \notin Critical /\ DeployingInv(q)' /\ SweepingInv(q)'
  BY OthersRest
<1>2. FloorInv'
  BY <1>1 DEF FloorInv
<1> QED
  BY <1>1, <1>2 DEF DeployInv

\* A step past the lock that leaves the host and the server alone.
LEMMA QuietStep ==
    ASSUME DeployInv, NEW r \in Rounds, round[r].at \in Critical \/ floor \in {0, r},
           UNCHANGED <<host, server, unlucky>>, unlisted => unlisted',
           unlisted' \in BOOLEAN,
           round' \in [Rounds -> Round], \A q \in Rounds : q # r => round'[q] = round[q],
           floor' \in 0..MaxRounds, floor' = r \/ round'[r].at \notin Critical,
           DeployingInv(r)', SweepingInv(r)'
    PROVE  DeployInv'
<1>1. DeployTypeOK' /\ DrainedInv'
  BY DEF DeployInv, DeployTypeOK, DrainedInv, host, server
<1>2. CurrentIsOnTheFloor' /\ WorkKeepsItsWorker' /\ UnitHasItsTree'
  BY DEF DeployInv, CurrentIsOnTheFloor, WorkKeepsItsWorker, UnitHasItsTree, host, server
<1> QED
  BY <1>1, <1>2, HolderStep

\* A round that ends does so wherever it was, with the host as it is.
LEMMA EndStep ==
    ASSUME DeployInv, NEW r \in Rounds, round[r].at \in Critical, NEW how \in Over, RoundEnds(r, how),
           UNCHANGED <<host, server, past>>
    PROVE  DeployInv'
<1>1. DeployTypeOK /\ how \notin Critical /\ 0 \in 0..MaxRounds
  BY DeployAssumption DEF DeployInv, Over, Critical
<1> QED
  BY <1>1, EndKeeps, RestsThere, QuietStep DEF past, DeployInv, DeployTypeOK

LEMMA BeginKeeps == ASSUME DeployInv, NEW r \in Rounds, Begin(r) PROVE DeployInv'
<1>1. round \in [Rounds -> Round] /\ Idle \in Round
  BY DeployAssumption DEF DeployInv, DeployTypeOK, Idle, Round, Over
<1>2. PICK b \in 0..B : round' = [round EXCEPT ![r] = [Idle EXCEPT !.build = b, !.at = "lock"]]
  BY DEF Begin
<1> DEFINE e == [Idle EXCEPT !.build = b, !.at = "lock"]
<1>3. e \in Round /\ e.at = "lock"
  BY <1>1 DEF Round
<1>4. round' = [round EXCEPT ![r] = e]
  BY <1>2
<1> HIDE DEF e
<1>5. /\ round' \in [Rounds -> Round] /\ round'[r].at = "lock"
      /\ \A q \in Rounds : q # r => round'[q] = round[q]
  BY <1>1, <1>3, <1>4
<1>6. UNCHANGED <<host, server, floor, past>>
  BY DEF Begin
<1>7. ASSUME NEW q \in Rounds, q # r PROVE DeployingInv(q)' /\ SweepingInv(q)'
  <2>1. round'[q] = round[q] /\ This(q)' = This(q) /\ DeployingInv(q) /\ SweepingInv(q)
    BY <1>5, <1>7 DEF DeployInv, This
  <2>2. DeployingInv(q)'
    BY <1>6, <2>1 DEF DeployingInv, host
  <2>3. SweepingInv(q)'
    BY <1>6, <2>1 DEF SweepingInv, Counted, host, server, past
  <2> QED
    BY <2>2, <2>3
<1>8. DeployingInv(r)' /\ SweepingInv(r)'
  BY <1>5, RestsThere
<1>9. FloorInv'
  BY <1>5, <1>6 DEF DeployInv, FloorInv, Critical
<1>10. DeployTypeOK' /\ DrainedInv'
  BY <1>5, <1>6 DEF DeployInv, DeployTypeOK, DrainedInv, host, server, past
<1>11. CurrentIsOnTheFloor' /\ WorkKeepsItsWorker' /\ UnitHasItsTree'
  BY <1>6 DEF DeployInv, CurrentIsOnTheFloor, WorkKeepsItsWorker, UnitHasItsTree, host, server, past
<1> QED
  BY <1>7, <1>8, <1>9, <1>10, <1>11 DEF DeployInv

\* A round that goes on with the host and the server as they are.
LEMMA GoStep ==
    ASSUME DeployInv, NEW r \in Rounds, round[r].at \in Critical, NEW place \in Places, Goes(r, place),
           UNCHANGED <<host, server, floor, past>>, DeployingInv(r)', SweepingInv(r)'
    PROVE  DeployInv'
<1>1. DeployTypeOK /\ floor = r /\ floor' = r
  BY DEF DeployInv, FloorInv
<1> QED
  BY <1>1, GoesKeeps, QuietStep DEF DeployTypeOK, past, DeployInv

LEMMA LockKeeps == ASSUME DeployInv, NEW r \in Rounds, exclusive_lock(r) PROVE DeployInv'
<1>1. DeployTypeOK /\ r \in 0..MaxRounds /\ round[r].at = "lock" /\ UNCHANGED <<host, server, past>>
  BY DeployAssumption DEF DeployInv, exclusive_lock, Rounds
<1>2. CASE floor = 0 /\ floor' = r /\ Goes(r, IF round[r].build = 0 THEN "snapshot" ELSE "freeze")
  <2> DEFINE place == IF round[r].build = 0 THEN "snapshot" ELSE "freeze"
  <2>1. place \in Places /\ Goes(r, place)
    BY <1>2 DEF Places
  <2>2. DeployingInv(r)' /\ SweepingInv(r)'
    BY <1>1, <2>1, GoesKeeps DEF DeployingInv, SweepingInv, Sweeping
  <2> HIDE DEF place
  <2> QED
    BY <1>1, <1>2, <2>1, <2>2, GoesKeeps, QuietStep DEF past, DeployTypeOK
<1>3. CASE floor = 0 /\ Goes(r, "refused") /\ UNCHANGED floor
  <2>1. "refused" \in Places /\ "refused" \in Over /\ "refused" \notin Critical
    BY DEF Places, Over, Critical
  <2>2. DeployingInv(r)' /\ SweepingInv(r)'
    BY <1>1, <1>3, <2>1, GoesKeeps, RestsThere
  <2> QED
    BY <1>1, <1>3, <2>1, <2>2, GoesKeeps, QuietStep DEF past, DeployTypeOK
<1>4. CASE Goes(r, "refused") /\ UNCHANGED floor
  <2>1. "refused" \in Places /\ "refused" \in Over /\ "refused" \notin Critical
    BY DEF Places, Over, Critical
  <2>2. /\ round' \in [Rounds -> Round] /\ round'[r].at = "refused"
        /\ \A q \in Rounds : q # r => round'[q] = round[q]
    BY <1>1, <1>4, <2>1, GoesKeeps
  <2>3. DeployingInv(r)' /\ SweepingInv(r)'
    BY <2>1, <2>2, RestsThere
  <2>4. ASSUME NEW q \in Rounds, q # r PROVE DeployingInv(q)' /\ SweepingInv(q)'
    <3>1. round'[q] = round[q] /\ This(q)' = This(q) /\ DeployingInv(q) /\ SweepingInv(q)
      BY <2>2, <2>4 DEF DeployInv, This
    <3>2. DeployingInv(q)'
      BY <1>1, <3>1 DEF DeployingInv, host
    <3>3. SweepingInv(q)'
      BY <1>1, <3>1 DEF SweepingInv, Counted, host, server, past
    <3> QED
      BY <3>2, <3>3
  <2>5. FloorInv'
    BY <1>4, <2>1, <2>2 DEF DeployInv, FloorInv
  <2>6. DeployTypeOK' /\ DrainedInv'
    BY <1>1, <1>4, <2>2 DEF DeployInv, DeployTypeOK, DrainedInv, host, server, past
  <2>7. CurrentIsOnTheFloor' /\ WorkKeepsItsWorker' /\ UnitHasItsTree'
    BY <1>1 DEF DeployInv, CurrentIsOnTheFloor, WorkKeepsItsWorker, UnitHasItsTree, host, server, past
  <2> QED
    BY <2>3, <2>4, <2>5, <2>6, <2>7 DEF DeployInv
<1> QED
  BY <1>2, <1>3, <1>4 DEF exclusive_lock

LEMMA FreezeKeeps == ASSUME DeployInv, NEW r \in Rounds, _freeze(r) PROVE DeployInv'
<1>1. /\ DeployTypeOK /\ round[r].at \in Critical /\ round[r].build # 0 /\ UNCHANGED <<unit, server, past>>
      /\ round[r].build \in Builds /\ floor = r /\ DrainedInv
      /\ CurrentIsOnTheFloor /\ WorkKeepsItsWorker /\ UnitHasItsTree
  <2>1. round[r].at = "freeze" /\ UNCHANGED <<unit, server, past>>
    BY DEF _freeze
  <2>2. round[r].at \in Critical /\ round[r].build # 0 /\ round[r] \in Round
    BY <2>1 DEF DeployInv, DeployingInv, DeployTypeOK, Critical
  <2> QED
    BY <2>1, <2>2, DeployAssumption DEF DeployInv, FloorInv, Round, Builds
<1> DEFINE b == round[r].build
<1>2. /\ tree' \in [Builds -> {"none", "part", "whole"}]
      /\ \A v \in Builds : tree[v] # "none" => tree'[v] # "none"
  BY <1>1 DEF _freeze, DeployTypeOK
<1>3. CurrentIsOnTheFloor' /\ WorkKeepsItsWorker' /\ UnitHasItsTree' /\ DrainedInv'
  <2>1. CurrentIsOnTheFloor'
    BY <1>1, <1>2, DeployAssumption DEF CurrentIsOnTheFloor, server, DeployTypeOK, Builds
  <2>2. UnitHasItsTree'
    BY <1>1, <1>2 DEF UnitHasItsTree, past, DeployTypeOK
  <2> QED
    BY <1>1, <2>1, <2>2 DEF WorkKeepsItsWorker, DrainedInv, server, past
<1>4. CASE Goes(r, "sync") /\ UNCHANGED floor /\ tree'[b] # "none"
  <2>1. "sync" \in Places
    BY DEF Places
  <2>2. DeployingInv(r)' /\ SweepingInv(r)'
    BY <1>1, <1>4, <2>1, GoesKeeps DEF DeployingInv, SweepingInv, Sweeping
  <2>3. DeployTypeOK'
    BY <1>1, <1>2, <1>4, <2>1, GoesKeeps DEF DeployTypeOK, server, past
  <2> QED
    BY <1>1, <1>3, <1>4, <2>1, <2>2, <2>3, GoesKeeps, HolderStep
<1>5. CASE RoundEnds(r, "refused") \/ RoundEnds(r, "died")
  <2>1. PICK how \in Over : RoundEnds(r, how)
    BY <1>5 DEF Over
  <2>2. how \notin Critical /\ 0 \in 0..MaxRounds
    BY DeployAssumption DEF Over, Critical
  <2>3. DeployingInv(r)' /\ SweepingInv(r)'
    BY <1>1, <2>1, EndKeeps, RestsThere
  <2>4. DeployTypeOK'
    BY <1>1, <1>2, <2>1, <2>2, EndKeeps DEF DeployTypeOK, server, past
  <2> QED
    BY <1>1, <1>3, <2>1, <2>2, <2>3, <2>4, EndKeeps, HolderStep
<1>6. \/ Goes(r, "sync") /\ UNCHANGED floor /\ tree'[b] # "none"
      \/ RoundEnds(r, "refused") \/ RoundEnds(r, "died")
  BY <1>1 DEF _freeze, DeployTypeOK
<1> QED
  BY <1>4, <1>5, <1>6

LEMMA SyncKeeps == ASSUME DeployInv, NEW r \in Rounds, _sync(r) PROVE DeployInv'
<1>1. /\ DeployTypeOK /\ round[r].at \in Critical /\ round[r].build # 0 /\ tree[round[r].build] # "none"
      /\ UNCHANGED <<host, server, past>> /\ "start_unit" \in Places /\ "refused" \in Over
  BY DEF DeployInv, DeployingInv, Critical, _sync, Places, Over
<1>2. CASE Goes(r, "start_unit") /\ UNCHANGED floor
  <2>1. DeployingInv(r)' /\ SweepingInv(r)'
    BY <1>1, <1>2, GoesKeeps DEF DeployingInv, SweepingInv, Sweeping, host
  <2> QED
    BY <1>1, <1>2, <2>1, GoStep
<1>3. CASE RoundEnds(r, "refused")
  BY <1>1, <1>3, EndStep
<1> QED
  BY <1>2, <1>3 DEF _sync

LEMMA ChildStartKeeps == ASSUME DeployInv, NEW r \in Rounds, _start(r) PROVE DeployInv'
<1>1. /\ DeployTypeOK /\ round[r].at \in Critical /\ floor = r
      /\ round[r].build # 0 /\ tree[round[r].build] # "none" /\ round[r] \in Round
      /\ UNCHANGED <<tree, server, past>> /\ "await" \in Places /\ "refused" \in Over
  BY DEF DeployInv, DeployTypeOK, FloorInv, DeployingInv, Critical, _start, Places, Over
<1>2. CASE unit' = unit \cup {round[r].build} /\ Goes(r, "await") /\ UNCHANGED floor
  <2>1. round[r].build \in Builds
    BY <1>1, DeployAssumption DEF Round, Builds
  <2>2. DeployingInv(r)' /\ SweepingInv(r)'
    BY <1>1, <1>2, GoesKeeps DEF DeployingInv, SweepingInv, Sweeping
  <2>3. DeployTypeOK'
    BY <1>1, <1>2, <2>1, GoesKeeps DEF DeployTypeOK, server, past
  <2>4. CurrentIsOnTheFloor' /\ WorkKeepsItsWorker' /\ UnitHasItsTree' /\ DrainedInv'
    BY <1>1, <1>2, <2>1 DEF DeployInv, CurrentIsOnTheFloor, WorkKeepsItsWorker, UnitHasItsTree, DrainedInv,
                       server, past
  <2> QED
    BY <1>1, <1>2, <2>2, <2>3, <2>4, GoesKeeps, HolderStep
<1>3. CASE RoundEnds(r, "refused") /\ UNCHANGED unit
  BY <1>1, <1>3, EndStep DEF host
<1> QED
  BY <1>2, <1>3 DEF _start

LEMMA AwaitKeeps == ASSUME DeployInv, NEW r \in Rounds, _await_registration(r) PROVE DeployInv'
<1>1. /\ DeployTypeOK /\ round[r].at \in Critical /\ round[r].at = "await" /\ DeployingInv(r)
      /\ UNCHANGED <<host, server, past>> /\ "promote" \in Places /\ "refused" \in Over /\ "degraded" \in Over
  BY DEF DeployInv, Critical, _await_registration, Places, Over
<1>2. CASE Goes(r, "promote") /\ UNCHANGED floor
  <2>1. DeployingInv(r)' /\ SweepingInv(r)'
    BY <1>1, <1>2, GoesKeeps DEF DeployingInv, SweepingInv, Sweeping, host
  <2> QED
    BY <1>1, <1>2, <2>1, GoStep
<1>3. CASE RoundEnds(r, "refused") \/ RoundEnds(r, "degraded")
  BY <1>1, <1>3, EndStep
<1> QED
  BY <1>2, <1>3 DEF _await_registration

\* New work is only sent to a version that is on the host.
LEMMA PromotedKeeps ==
    ASSUME DeployInv, NEW b \in unit, tree[b] # "none", Promoted(b), b # current, UNCHANGED <<host, past>>
    PROVE  /\ record' \in [Builds -> {"none", "inactive", "draining", "drained"}] /\ current' \in 0..B
           /\ UNCHANGED <<open, counted>>
           /\ DrainedInv' /\ CurrentIsOnTheFloor' /\ WorkKeepsItsWorker' /\ UnitHasItsTree'
<1>1. b \in Builds /\ DeployTypeOK
  BY DEF DeployInv, DeployTypeOK
<1>2. current' = b /\ UNCHANGED <<open, counted>> /\ \A v \in Builds :
         record'[v] = IF v = b THEN "inactive" ELSE IF v = current THEN "draining" ELSE record[v]
  BY <1>1 DEF Promoted
<1>3. record' \in [Builds -> {"none", "inactive", "draining", "drained"}]
  BY <1>1 DEF Promoted, DeployTypeOK
<1>4. DrainedInv'
  BY <1>1, <1>2 DEF DeployInv, DrainedInv
<1>5. CurrentIsOnTheFloor' /\ WorkKeepsItsWorker' /\ UnitHasItsTree'
  BY <1>2 DEF DeployInv, CurrentIsOnTheFloor, WorkKeepsItsWorker, UnitHasItsTree, host, past
<1> QED
  BY <1>1, <1>2, <1>3, <1>4, <1>5, DeployAssumption DEF Builds

LEMMA SetCurrentKeeps == ASSUME DeployInv, NEW r \in Rounds, _set_current(r) PROVE DeployInv'
<1> DEFINE b == round[r].build
<1>1. /\ DeployTypeOK /\ round[r].at \in Critical /\ floor = r /\ UNCHANGED <<host, past>>
      /\ b # 0 /\ tree[b] # "none" /\ b \in unit
      /\ "snapshot" \in Places /\ "refused" \in Over /\ "refused" \notin Critical
  BY DEF DeployInv, FloorInv, DeployingInv, Critical, _set_current, Places, Over
<1>2. 0 \in 0..MaxRounds
  BY DeployAssumption
<1> HIDE DEF b
<1>3. CASE Goes(r, "snapshot") /\ UNCHANGED <<server, floor>>
  BY <1>1, <1>3, GoesKeeps, RestsThere, GoStep
<1>4. CASE b # current /\ Promoted(b) /\ Goes(r, "snapshot") /\ UNCHANGED floor
  <2>1. DeployingInv(r)' /\ SweepingInv(r)'
    BY <1>1, <1>4, GoesKeeps, RestsThere
  <2>2. DeployTypeOK'
    BY <1>1, <1>4, GoesKeeps, PromotedKeeps DEF DeployTypeOK, host, past
  <2> QED
    BY <1>1, <1>4, <2>1, <2>2, GoesKeeps, PromotedKeeps, HolderStep
<1>5. CASE b # current /\ Promoted(b) /\ RoundEnds(r, "refused")
  <2>1. DeployingInv(r)' /\ SweepingInv(r)'
    BY <1>1, <1>5, EndKeeps, RestsThere
  <2>2. DeployTypeOK'
    BY <1>1, <1>2, <1>5, EndKeeps, PromotedKeeps DEF DeployTypeOK, host, past
  <2> QED
    BY <1>1, <1>5, <2>1, <2>2, EndKeeps, PromotedKeeps, HolderStep
<1>6. CASE UNCHANGED server /\ RoundEnds(r, "refused")
  BY <1>1, <1>6, EndStep
<1> QED
  BY <1>3, <1>4, <1>5, <1>6 DEF _set_current, b

\* What a sweep lists was drained and idle when it looked.
LEMMA DescribeKeeps == ASSUME DeployInv, NEW r \in Rounds, _describe(r) PROVE DeployInv'
<1>1. /\ DeployTypeOK /\ round[r].at \in Critical /\ floor = r /\ UNCHANGED <<host, server, past>>
      /\ round \in [Rounds -> Round] /\ "done" \in Over
  BY DEF DeployInv, DeployTypeOK, FloorInv, Critical, _describe, Over
<1> DEFINE drained == {b \in Builds \ {current} : record[b] = "drained"}
           idle == {b \in Builds \ {current} : record[b] # "none" /\ counted[b] = 0}
           e == [round[r] EXCEPT !.at = "list", !.drained = drained, !.idle = idle]
<1>2. CASE round' = [round EXCEPT ![r].at = "list", ![r].drained = drained, ![r].idle = idle] /\ UNCHANGED floor
  <2>1. e \in Round /\ e.at = "list" /\ e.drained = drained
    BY <1>1 DEF Round
  <2>2. round' = [round EXCEPT ![r] = e]
    BY <1>1, <1>2
  <2>3. \A b \in drained : Counted(b)
    BY <1>1 DEF DeployInv, DrainedInv, Counted, DeployTypeOK
  <2> HIDE DEF e, drained
  <2>4. /\ round' \in [Rounds -> Round] /\ round'[r].at = "list" /\ round'[r].drained = drained
        /\ \A q \in Rounds : q # r => round'[q] = round[q]
    BY <1>1, <2>1, <2>2
  <2>5. DeployingInv(r)'
    BY <2>4 DEF DeployingInv
  <2>6. SweepingInv(r)'
    BY <1>1, <2>3, <2>4 DEF SweepingInv, Sweeping, Counted, server
  <2> QED
    BY <1>1, <1>2, <2>4, <2>5, <2>6, QuietStep DEF past, DeployTypeOK
<1>3. CASE RoundEnds(r, "done")
  BY <1>1, <1>3, EndStep
<1> QED
  BY <1>2, <1>3 DEF _describe

\* A target is a version that was drained, with what the list said of its unit.
LEMMA ReapableAre ==
    ASSUME NEW drained \in SUBSET Builds, NEW seenidle, NEW units, NEW t \in reapable(drained, seenidle, units)
    PROVE  t \in Target /\ t.build \in drained /\ (t.build \in units => t.unit)
<1>1. PICK b \in drained \cap seenidle : t = [build |-> b, unit |-> b \in units]
  BY DEF reapable
<1>2. CASE b \in units
  <2>1. t = [build |-> b, unit |-> TRUE]
    BY <1>1, <1>2
  <2> QED
    BY <1>1, <2>1 DEF Target
<1>3. CASE b \notin units
  <2>0. (b \in units) = FALSE
    BY <1>3
  <2>1. t = [build |-> b, unit |-> FALSE]
    BY <1>1, <2>0
  <2> QED
    BY <1>1, <1>3, <2>1 DEF Target
<1> QED
  BY <1>2, <1>3

LEMMA InstancesKeeps == ASSUME DeployInv, NEW r \in Rounds, _instances(r) PROVE DeployInv'
<1>1. /\ DeployTypeOK /\ round[r].at \in Critical /\ round[r].at = "list" /\ floor = r
      /\ UNCHANGED <<host, server, unlucky>>
      /\ round \in [Rounds -> Round] /\ "done" \in Over /\ "done" \notin Critical /\ 0 \in 0..MaxRounds
  BY DeployAssumption DEF DeployInv, DeployTypeOK, FloorInv, Critical, _instances, Over
<1>2. PICK seen \in {unit, {}} :
          /\ unlisted' = (unlisted \/ seen # unit)
          /\ LET targets == reapable(round[r].drained, round[r].idle, seen)
             IN  IF targets = {} THEN RoundEnds(r, "done")
                 ELSE round' = [round EXCEPT ![r].targets = targets, ![r].at = "recount"] /\ UNCHANGED floor
  BY DEF _instances
<1> DEFINE targets == reapable(round[r].drained, round[r].idle, seen)
           e == [round[r] EXCEPT !.targets = targets, !.at = "recount"]
<1>3. unlisted' \in BOOLEAN /\ (unlisted => unlisted')
  BY <1>1, <1>2 DEF DeployTypeOK
<1>4. CASE targets # {}
  <2>1. round[r] \in Round /\ round[r].drained \subseteq Builds /\ \A b \in round[r].drained : Counted(b)
    BY <1>1 DEF DeployInv, SweepingInv, Round
  <2>2. \A t \in targets : t \in Target /\ t.build \in round[r].drained /\ (t.build \in seen => t.unit)
    BY <2>1, ReapableAre
  <2>3. round' = [round EXCEPT ![r] = e] /\ UNCHANGED floor
    BY <1>1, <1>2, <1>4
  <2> HIDE DEF targets
  <2>4. e \in Round /\ e.at = "recount" /\ e.targets = targets
    BY <2>1, <2>2 DEF Round
  <2> HIDE DEF e
  <2>5. /\ round' \in [Rounds -> Round] /\ round'[r].at = "recount" /\ round'[r].targets = targets
        /\ \A q \in Rounds : q # r => round'[q] = round[q]
    BY <1>1, <2>3, <2>4
  <2>6. DeployingInv(r)'
    BY <2>5 DEF DeployingInv
  <2>7. \A t \in targets : Counted(t.build)' /\ (~unlisted' /\ t.build \in unit' => t.unit)
    BY <1>1, <1>2, <2>1, <2>2 DEF Counted, server, host
  <2>8. SweepingInv(r)'
    BY <1>4, <2>5, <2>7 DEF SweepingInv
  <2> QED
    BY <1>1, <1>3, <2>3, <2>5, <2>6, <2>8, QuietStep DEF DeployTypeOK
<1>5. CASE targets = {}
  <2>1. RoundEnds(r, "done")
    BY <1>2, <1>5
  <2>2. DeployingInv(r)' /\ SweepingInv(r)'
    BY <1>1, <2>1, EndKeeps, RestsThere
  <2> QED
    BY <1>1, <1>3, <2>1, <2>2, EndKeeps, QuietStep
<1> QED
  BY <1>4, <1>5

\* A sweep goes on to its next target, or ends: what it lets go of is no
\* longer its affair, and what it has left stays as it was.
LEMMA NextKeeps ==
    ASSUME DeployInv, NEW r \in Rounds, round[r].at \in Sweeping, Next_target(r),
           UNCHANGED <<current, open, counted, past>>, unit' \subseteq unit
    PROVE  /\ round' \in [Rounds -> Round]
           /\ \A q \in Rounds : q # r => round'[q] = round[q]
           /\ floor' \in 0..MaxRounds /\ (floor' = r \/ round'[r].at \notin Critical)
           /\ DeployingInv(r)' /\ SweepingInv(r)'
<1>1. /\ DeployTypeOK /\ floor = r /\ floor \in 0..MaxRounds /\ round \in [Rounds -> Round]
      /\ "done" \in Over /\ "done" \notin Critical /\ 0 \in 0..MaxRounds
  BY DeployAssumption DEF DeployInv, DeployTypeOK, FloorInv, Sweeping, Critical, Over
<1>2. CASE RoundEnds(r, "done")
  <2>1. /\ round' \in [Rounds -> Round] /\ round'[r].at = "done" /\ floor' = 0
        /\ \A q \in Rounds : q # r => round'[q] = round[q]
    BY <1>1, <1>2, EndKeeps
  <2>2. DeployingInv(r)' /\ SweepingInv(r)'
    BY <1>1, <2>1, RestsThere
  <2> QED
    BY <1>1, <2>1, <2>2
<1> DEFINE rest == round[r].targets \ {This(r)}
           e == [round[r] EXCEPT !.targets = rest, !.at = "recount"]
<1>3. CASE /\ round[r].targets # {This(r)} /\ UNCHANGED floor
           /\ round' = [round EXCEPT ![r].targets = @ \ {This(r)}, ![r].at = "recount"]
  <2>1. round[r] \in Round /\ round[r].targets \subseteq Target /\ round[r].targets # {}
    BY <1>1 DEF DeployInv, SweepingInv, Round
  <2>2. rest # {} /\ rest \subseteq round[r].targets
    BY <1>3, <2>1
  <2>3. round' = [round EXCEPT ![r] = e]
    BY <1>1, <1>3
  <2>4. e \in Round /\ e.at = "recount" /\ e.targets = rest
    BY <2>1 DEF Round
  <2> HIDE DEF rest, e
  <2>5. /\ round' \in [Rounds -> Round] /\ round'[r].at = "recount" /\ round'[r].targets = rest
        /\ \A q \in Rounds : q # r => round'[q] = round[q]
    BY <1>1, <2>3, <2>4
  <2>6. DeployingInv(r)'
    BY <2>5 DEF DeployingInv
  <2>7. \A t \in rest : Counted(t.build)' /\ (~unlisted' /\ t.build \in unit' => t.unit)
    BY <2>2 DEF DeployInv, SweepingInv, Counted, past
  <2>8. SweepingInv(r)'
    BY <2>2, <2>5, <2>7 DEF SweepingInv
  <2> QED
    BY <1>1, <1>3, <2>5, <2>6, <2>8
<1> QED
  BY <1>2, <1>3 DEF Next_target

\* What a sweep knows of the target it is at.
LEMMA ThisIs ==
    ASSUME DeployInv, NEW r \in Rounds, round[r].at \in Sweeping
    PROVE  /\ This(r) \in round[r].targets /\ This(r).build \in Builds \ {current}
           /\ Counted(This(r).build) /\ (~unlisted /\ This(r).build \in unit => This(r).unit)
           /\ round[r].at \in Critical /\ floor = r
<1>1. round[r] \in Round /\ round[r].targets # {} /\ round[r].at \in Critical
  BY DEF DeployInv, DeployTypeOK, SweepingInv, Sweeping, Critical
<1>2. This(r) \in round[r].targets /\ This(r).build \in Builds
  BY <1>1, FirstIsOne DEF This, Round, Target
<1> QED
  BY <1>1, <1>2 DEF DeployInv, SweepingInv, FloorInv, Counted

\* One that goes on with the target it is at.
LEMMA OnKeeps ==
    ASSUME DeployInv, NEW r \in Rounds, round[r].at \in Sweeping,
           NEW place \in Sweeping, Goes(r, place),
           UNCHANGED <<current, open, counted, floor, past>>, unit' \subseteq unit,
           place = "stop" => open[This(r).build] = 0 \/ This(r).build \in unlucky,
           place = "remove" /\ ~unlisted => This(r).build \notin unit'
    PROVE  /\ round' \in [Rounds -> Round]
           /\ \A q \in Rounds : q # r => round'[q] = round[q]
           /\ floor' \in 0..MaxRounds /\ floor' = r
           /\ DeployingInv(r)' /\ SweepingInv(r)'
<1>1. DeployTypeOK /\ floor = r /\ floor \in 0..MaxRounds /\ place \in Places
  BY DEF DeployInv, DeployTypeOK, FloorInv, Sweeping, Critical, Places
<1>2. /\ round' \in [Rounds -> Round] /\ \A q \in Rounds : q # r => round'[q] = round[q]
      /\ round'[r].at = place /\ round'[r].targets = round[r].targets /\ This(r)' = This(r)
  BY <1>1, GoesKeeps
<1>3. DeployingInv(r)'
  BY <1>2 DEF DeployingInv, Sweeping
<1>4. round[r].targets # {} /\ \A t \in round[r].targets :
         Counted(t.build)' /\ (~unlisted' /\ t.build \in unit' => t.unit)
  BY DEF DeployInv, SweepingInv, Counted, past
<1>5. SweepingInv(r)'
  BY <1>2, <1>4 DEF SweepingInv, Sweeping, past
<1> QED
  BY <1>1, <1>2, <1>3, <1>5

LEMMA RecountKeeps == ASSUME DeployInv, NEW r \in Rounds, open_pinned(r) PROVE DeployInv'
<1>1. round[r].at \in Sweeping /\ UNCHANGED <<host, server, past>> /\ round[r].at \in Critical
  BY DEF open_pinned, Sweeping, Critical
<1>2. UNCHANGED <<current, open, counted, unlucky, unlisted>> /\ unit' \subseteq unit /\ unlisted \in BOOLEAN
  BY <1>1 DEF host, server, past, DeployInv, DeployTypeOK
<1>3. CASE Next_target(r)
  BY <1>1, <1>2, <1>3, NextKeeps, QuietStep
<1> DEFINE place == IF This(r).unit THEN "stop" ELSE "remove"
<1>4. CASE counted[This(r).build] = 0 /\ Goes(r, place) /\ UNCHANGED floor
  <2>1. place \in Sweeping
    BY DEF Sweeping
  <2>2. open[This(r).build] = 0
    BY <1>1, <1>4, ThisIs DEF Counted, DeployInv, DeployTypeOK
  <2>3. place = "remove" /\ ~unlisted => This(r).build \notin unit'
    BY <1>1, ThisIs DEF host
  <2>4. Goes(r, place) /\ UNCHANGED floor
    BY <1>4
  <2> HIDE DEF place
  <2> QED
    BY <1>1, <1>2, <2>1, <2>2, <2>3, <2>4, OnKeeps, QuietStep
<1> QED
  BY <1>3, <1>4 DEF open_pinned

LEMMA StopKeeps == ASSUME DeployInv, NEW r \in Rounds, StopUnit(r) PROVE DeployInv'
<1>1. /\ round[r].at \in Sweeping /\ round[r].at \in Critical /\ round[r].at = "stop"
      /\ UNCHANGED <<tree, server, past>>
  BY DEF StopUnit, Sweeping, Critical
<1>2. UNCHANGED <<current, open, counted, unlucky, unlisted, record>> /\ unlisted \in BOOLEAN
  BY <1>1 DEF server, past, DeployInv, DeployTypeOK
<1>3. CASE Next_target(r) /\ UNCHANGED unit
  BY <1>1, <1>2, <1>3, NextKeeps, QuietStep DEF host
<1>4. CASE unit' = unit \ {This(r).build} /\ Goes(r, "remove") /\ UNCHANGED floor
  <2>1. /\ This(r).build # current /\ (open[This(r).build] = 0 \/ This(r).build \in unlucky)
        /\ This(r).build \in Builds
    BY <1>1, ThisIs DEF DeployInv, SweepingInv
  <2>2. /\ round' \in [Rounds -> Round] /\ floor' \in 0..MaxRounds /\ floor' = r
        /\ \A q \in Rounds : q # r => round'[q] = round[q]
        /\ DeployingInv(r)' /\ SweepingInv(r)'
    BY <1>1, <1>2, <1>4, OnKeeps DEF Sweeping
  <2>3. DeployTypeOK' /\ DrainedInv'
    BY <1>1, <1>2, <1>4, <2>2 DEF DeployInv, DeployTypeOK, DrainedInv, server, past
  <2>4. CurrentIsOnTheFloor' /\ UnitHasItsTree'
    BY <1>1, <1>2, <1>4, <2>1 DEF DeployInv, CurrentIsOnTheFloor, UnitHasItsTree
  <2>5. WorkKeepsItsWorker'
    <3>1. ASSUME NEW b \in Builds \ unlucky, open[b] > 0 PROVE b \in unit'
      <4>1. b # This(r).build
        BY <2>1, <3>1
      <4> QED
        BY <1>4, <3>1, <4>1 DEF DeployInv, WorkKeepsItsWorker
    <3> QED
      BY <1>2, <3>1 DEF WorkKeepsItsWorker
  <2> QED
    BY <1>1, <2>2, <2>3, <2>4, <2>5, HolderStep
<1> QED
  BY <1>3, <1>4 DEF StopUnit

LEMMA RemoveKeeps == ASSUME DeployInv, NEW r \in Rounds, _remove_checkout(r) PROVE DeployInv'
<1>1. /\ round[r].at \in Sweeping /\ round[r].at \in Critical /\ round[r].at = "remove"
      /\ UNCHANGED <<unit, server, past>>
  BY DEF _remove_checkout, Sweeping, Critical
<1>2. UNCHANGED <<current, open, counted, unlucky, unlisted, record>> /\ unlisted \in BOOLEAN
  BY <1>1 DEF server, past, DeployInv, DeployTypeOK
<1>3. CASE Next_target(r) /\ UNCHANGED tree
  BY <1>1, <1>2, <1>3, NextKeeps, QuietStep DEF host
<1>4. CASE tree' = [tree EXCEPT ![This(r).build] = "none"] /\ Goes(r, "delete") /\ UNCHANGED floor
  <2>1. This(r).build # current /\ This(r).build \in Builds /\ (~unlisted => This(r).build \notin unit)
    BY <1>1, ThisIs DEF DeployInv, SweepingInv
  <2>2. /\ round' \in [Rounds -> Round] /\ floor' \in 0..MaxRounds /\ floor' = r
        /\ \A q \in Rounds : q # r => round'[q] = round[q]
        /\ DeployingInv(r)' /\ SweepingInv(r)'
    BY <1>1, <1>2, <1>4, OnKeeps DEF Sweeping
  <2>3. DeployTypeOK' /\ DrainedInv'
    BY <1>1, <1>2, <1>4, <2>2 DEF DeployInv, DeployTypeOK, DrainedInv, server, past
  <2>4. \A b \in Builds : b # This(r).build => tree'[b] = tree[b]
    BY <1>4 DEF DeployInv, DeployTypeOK
  <2>5. CurrentIsOnTheFloor'
    BY <1>1, <1>2, <2>1, <2>4, DeployAssumption
    DEF DeployInv, DeployTypeOK, CurrentIsOnTheFloor, Builds
  <2>6. UnitHasItsTree' /\ WorkKeepsItsWorker'
    BY <1>1, <1>2, <2>1, <2>4 DEF DeployInv, DeployTypeOK, UnitHasItsTree, WorkKeepsItsWorker
  <2> QED
    BY <1>1, <2>2, <2>3, <2>5, <2>6, HolderStep
<1> QED
  BY <1>3, <1>4 DEF _remove_checkout

LEMMA DeleteKeeps == ASSUME DeployInv, NEW r \in Rounds, _delete(r) PROVE DeployInv'
<1>1. /\ round[r].at \in Sweeping /\ round[r].at \in Critical /\ Next_target(r)
      /\ UNCHANGED <<host, current, open, counted, past>>
  BY DEF _delete, Sweeping, Critical
<1>2. UNCHANGED <<tree, unit, unlucky, unlisted>>
  BY <1>1 DEF host, past
<1>3. /\ record' \in [Builds -> {"none", "inactive", "draining", "drained"}]
      /\ \A b \in Builds : record'[b] = "drained" => record[b] = "drained"
  BY DEF _delete, DeployInv, DeployTypeOK
<1>4. /\ round' \in [Rounds -> Round] /\ floor' \in 0..MaxRounds
      /\ floor' = r \/ round'[r].at \notin Critical
      /\ \A q \in Rounds : q # r => round'[q] = round[q]
      /\ DeployingInv(r)' /\ SweepingInv(r)'
  BY <1>1, <1>2, NextKeeps
<1>5. DeployTypeOK' /\ DrainedInv'
  BY <1>1, <1>2, <1>3, <1>4 DEF DeployInv, DeployTypeOK, DrainedInv
<1>6. CurrentIsOnTheFloor' /\ WorkKeepsItsWorker' /\ UnitHasItsTree'
  BY <1>1, <1>2 DEF DeployInv, CurrentIsOnTheFloor, WorkKeepsItsWorker, UnitHasItsTree
<1> QED
  BY <1>1, <1>4, <1>5, <1>6, HolderStep

\* A process that dies lets go of the lock and leaves the host where it had it.
LEMMA DiesKeeps == ASSUME DeployInv, NEW r \in Rounds, Dies(r) PROVE DeployInv'
<1>1. round[r] \in Round
  BY DEF DeployInv, DeployTypeOK
<1>2. round[r].at \in Critical
  BY <1>1 DEF Dies, Critical, Round
<1>3. "died" \in Over
  BY DEF Over
<1> QED
  BY <1>2, <1>3, EndStep DEF Dies

\* Every step of deploys, sweeps, Temporal and the units keeps the invariant.
LEMMA DeployStep == DeployInv /\ [DeployNext]_dvars => DeployInv'
<1> SUFFICES ASSUME DeployInv, [DeployNext]_dvars PROVE DeployInv'
  OBVIOUS
<1>1. CASE UNCHANGED dvars
  <2>1. UNCHANGED <<host, server, floor, round, past>>
    BY <1>1 DEF dvars, host, server, past
  <2>2. \A r \in Rounds : DeployingInv(r)' /\ SweepingInv(r)'
    <3> SUFFICES ASSUME NEW r \in Rounds PROVE DeployingInv(r)' /\ SweepingInv(r)'
      OBVIOUS
    <3>1. This(r)' = This(r) /\ DeployingInv(r) /\ SweepingInv(r)
      BY <2>1 DEF DeployInv, This
    <3> QED
      BY <2>1, <3>1 DEF DeployingInv, SweepingInv, Counted, host, server, past
  <2>3. DeployTypeOK' /\ FloorInv' /\ DrainedInv'
    BY <2>1 DEF DeployInv, DeployTypeOK, FloorInv, DrainedInv, host, server, past
  <2>4. CurrentIsOnTheFloor' /\ WorkKeepsItsWorker' /\ UnitHasItsTree'
    BY <2>1 DEF DeployInv, CurrentIsOnTheFloor, WorkKeepsItsWorker, UnitHasItsTree, host, server, past
  <2> QED
    BY <2>2, <2>3, <2>4 DEF DeployInv
<1>2. CASE Dispatch
  BY <1>2, DispatchKeeps
<1>3. ASSUME NEW b \in Builds, Registers(b) \/ Drains(b) \/ Reopen(b) \/ Completes(b) \/ Counts(b)
      PROVE  DeployInv'
  BY <1>3, ServerKeeps, ReopenKeeps
<1>4. ASSUME NEW r \in Rounds,
             Begin(r) \/ exclusive_lock(r) \/ _freeze(r) \/ _sync(r) \/ _start(r)
             \/ _await_registration(r) \/ _set_current(r)
      PROVE  DeployInv'
  BY <1>4, BeginKeeps, LockKeeps, FreezeKeeps, SyncKeeps, ChildStartKeeps, AwaitKeeps, SetCurrentKeeps
<1>5. ASSUME NEW r \in Rounds,
             _describe(r) \/ _instances(r) \/ open_pinned(r) \/ StopUnit(r)
             \/ _remove_checkout(r) \/ _delete(r) \/ Dies(r)
      PROVE  DeployInv'
  BY <1>5, DescribeKeeps, InstancesKeeps, RecountKeeps, StopKeeps, RemoveKeeps, DeleteKeeps, DiesKeeps
<1> QED
  BY <1>1, <1>2, <1>3, <1>4, <1>5 DEF DeployNext

-----------------------------------------------------------------------------
(* The theorems                                                             *)

\* The deployment's state keeps its types, one round at a time is past the
\* lock, and each round keeps what it relies on (deploy.py: deploy, sweep).
THEOREM DeployInvariant == DeploySpec => []DeployInv
<1> QED
  BY DeployInitInv, DeployStep, PTL DEF DeploySpec

\* The container engine's supervisor keeps its types, the epic is shipped at
\* most once behind its sentinel, and whoever is told to go is told for a
\* signal or a death (container_supervisor.py: the supervisor's loop).
THEOREM SupervisorInvariant == SupervisorSpec => []SupervisorInv
<1> QED
  BY SupervisorInitInv, SupervisorStep, PTL DEF SupervisorSpec

\* The probe keeps its types, and a verdict goes to disk once it was said
\* (probe.py: the run of the probe).
THEOREM ProbeInvariant == ProbeSpec => []ProbeInv
<1> QED
  BY ProbeInitInv, ProbeStep, PTL DEF ProbeSpec

\* For any number of builds, rounds, workflows, boots and units: work that runs
\* has its worker, a death takes the engine down, the demo is dispatched once,
\* and what is on record was said (WorkHasItsWorker).
THEOREM WorkAlwaysHasItsWorker == FleetSpec => []WorkHasItsWorker
<1>1. DeployInv /\ SupervisorInv /\ ProbeInv => WorkHasItsWorker
  <2>1. SupervisorInv => DispatchedOnce
    BY DEF SupervisorInv, ShippedInv, DispatchedOnce
  <2>2. SupervisorInv => FaultsStopTheEngine
    BY DEF SupervisorInv, ToldInv, FaultsStopTheEngine, Supervised, Nobody
  <2> QED
    BY <2>1, <2>2 DEF DeployInv, ProbeInv, SaidInv, WorkHasItsWorker
<1> QED
  BY <1>1, DeployInvariant, SupervisorInvariant, ProbeInvariant, PTL DEF FleetSpec
=============================================================================
