------------------------------- MODULE Workers ------------------------------
(***************************************************************************)
(* What the worker processes owe a node, whichever of them dies where:     *)
(*   - an agent alone with what it was given: the lease on the host wide   *)
(*     credential (CredentialOwner) and the process group behind a node's  *)
(*     worktree (AgentSession); EpicWorkflow holds the first round the     *)
(*     activity that is the second;                                        *)
(*   - a verdict on one verification: the gates, run in the worktree       *)
(*     (Gates), and what the judge and the record make of their results    *)
(*     (Judge, which takes any results the gates may return);              *)
(*   - a worker under the work: the versions deployed on a host (Deploy),  *)
(*     the supervisor that runs one in a container (Supervisor) and the    *)
(*     probe that tells an operator when one is down (Probe).              *)
(* They meet on the host, and none reads what another keeps.               *)
(***************************************************************************)
EXTENDS CredentialOwner, AgentSession, Gates, Judge, Deploy, Supervisor, Probe

FenceSpec   == OwnerSpec /\ SessionInit /\ [][SessionNext]_svars
VerdictSpec == GatesSpec /\ JudgeSpec
FleetSpec   == DeploySpec /\ SupervisorSpec /\ ProbeSpec

-----------------------------------------------------------------------------
(* Properties *)

\* An agent is alone with what it was given: none lives on behind its activity's
\* result or beside the next launch (adapter.py), one node at a time is between
\* admission and release, on the lease that is on disk, and nobody is admitted
\* while another's agent has the credential, unless that attempt was abandoned
\* (codex_credential.py).
AgentFenced == LeaseExclusive /\ NotLentWhileUsed /\ NoLiveAgentBehindAResult /\ LaunchAlone

\* A verdict says what was run: in the sandbox a gate is blamed for its own
\* writes alone, one that passes wrote nothing it did not declare, the artifact's
\* digest is of bytes on disk (gates.py, artifact_capture.py), and a pass on
\* record took every check there is (judge.py, compose_result of models.py).
VerdictIsEarned == BlameIsOwn /\ PassIsClean /\ ArtifactOnDisk /\ PassIsEarned

\* Work that runs has the worker it runs on: the version new work goes to is on
\* this host, a version with open work keeps its unit, and no unit loses its
\* checkout, whatever deploy or sweep died where (deploy.py); a child's own death
\* stops the engine and the demo is dispatched once (container_supervisor.py);
\* and what the probe recorded was said (probe.py).
WorkHasItsWorker ==
    /\ CurrentIsOnTheFloor /\ WorkKeepsItsWorker /\ UnitHasItsTree
    /\ DispatchedOnce /\ FaultsStopTheEngine
    /\ RecordedIsSaid
=============================================================================
