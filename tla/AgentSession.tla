---------------------------- MODULE AgentSession ----------------------------
(***************************************************************************)
(* The agent process of one node, as SharedAttemptPolicy.run_attempt       *)
(* (factory/workgraph/adapter.py) launches, watches, ends and reaps it     *)
(* under run_agent_attempt (factory/activities/agent_activities.py).       *)
(*                                                                         *)
(* A node has one worktree and one pid file, and a sequence of executions: *)
(* Temporal runs an activity whose heartbeat lapsed once more, and the     *)
(* node makes further attempts.  Execution e launches at most one process  *)
(* group, called e too.  `ses[e].at` is the await it stands at:            *)
(*   due, reap, reaping, launch, record, monitor, beat, reclaim, clear,    *)
(*   then over or lost (its worker died).                                  *)
(* launch and record are not awaits, but a worker can die between them.    *)
(***************************************************************************)
EXTENDS Naturals, FiniteSets

CONSTANTS
    MaxExec,         \* bound: executions
    MaxWait,         \* bound: beats until the deadline
    MaxDeaths        \* bound: worker deaths

ASSUME AgentSessionAssumption ==
    MaxExec \in Nat \ {0} /\ MaxWait \in Nat \ {0} /\ MaxDeaths \in Nat

VARIABLES
    setup,      \* what the attempt runs with: its adapter and its backend
    ses,        \* the executions
    leader,     \* the process each launch returned is running
    group,      \* the process groups with a living member
    pids,       \* the pid file: the group it names, or 0
    deaths,     \* worker deaths so far
    handle_lost \* history: a living group is named by no pid file

svars == <<setup, ses, leader, group, pids, deaths, handle_lost>>

Exec == 1..MaxExec
Ended == {"over", "lost"}
Terminations == {"none", "COMPLETED", "AGENT_ERROR", "PRE_AGENT_FAILURE", "TIMEOUT", "KILLED",
                 "AGENT_LAUNCH_FAILED", "raised"}
Session == [at : {"due", "reap", "reaping", "launch", "record", "monitor", "beat", "reclaim",
                  "clear"} \cup Ended,
            saw : 0..MaxExec,          \* the group _reap read
            beats : 0..MaxWait,        \* since launch
            killed : BOOLEAN,          \* a cancellation has been delivered
            since : 0..MaxWait,        \* beats since the kill was delivered
            lapsed : BOOLEAN,          \* Temporal has given the execution up
            ends : Terminations, retained : BOOLEAN]

SessionTypeOK ==
    /\ setup \in [quarantines : BOOLEAN, dies_with_parent : BOOLEAN]
    /\ ses \in [Exec -> Session]
    /\ leader \subseteq group /\ group \subseteq Exec /\ pids \in 0..MaxExec
    /\ deaths \in 0..MaxDeaths /\ handle_lost \in BOOLEAN

SessionInit ==
    /\ setup \in [quarantines : BOOLEAN, dies_with_parent : BOOLEAN]
    /\ ses = [e \in Exec |-> [at |-> "due", saw |-> 0, beats |-> 0, killed |-> FALSE, since |-> 0,
                              lapsed |-> FALSE, ends |-> "none", retained |-> FALSE]]
    /\ leader = {} /\ group = {} /\ pids = 0 /\ deaths = 0 /\ handle_lost = FALSE

Step(e, place) == ses' = [ses EXCEPT ![e].at = place]
End(e, termination, retained) ==
    ses' = [ses EXCEPT ![e].at = "over", ![e].ends = termination, ![e].retained = retained]

Running(e) == ses[e].at \notin {"due"} \cup Ended

-----------------------------------------------------------------------------
(* Launch *)

\* Temporal starts the next execution once the last is over, lost or given up.
Schedule(e) ==
    /\ ses[e].at = "due"
    /\ \A d \in Exec : d < e => ses[d].at \in Ended \/ ses[d].lapsed
    /\ \A d \in Exec : d < e => ~ses[d].killed \/ ses[d].lapsed
    /\ Step(e, "reap")
    /\ UNCHANGED <<setup, leader, group, pids, deaths, handle_lost>>

\* No credential is a refusal, an expired one an attempt that never was; both
\* come before the reap.
CredentialUnfit(e) ==
    /\ ses[e].at = "reap"
    /\ \E refused \in {"AGENT_LAUNCH_FAILED", "PRE_AGENT_FAILURE"} : End(e, refused, FALSE)
    /\ UNCHANGED <<setup, leader, group, pids, deaths, handle_lost>>

\* Variant: a survivor of the SIGKILL is not looked for.
Reap_unproved(e) ==
    /\ ses[e].at = "reap"
    /\ Step(e, "launch")
    /\ leader' = leader \ {pids} /\ group' \in {group, group \ {pids}}
    /\ UNCHANGED <<setup, pids, deaths, handle_lost>>

\* _reap: nothing to do unless the file names a living group, which is killed.
Reap(e) ==
    /\ ses[e].at = "reap"
    /\ IF pids \notin group THEN Step(e, "launch") /\ UNCHANGED <<leader, group>>
       ELSE /\ ses' = [ses EXCEPT ![e].at = "reaping", ![e].saw = pids]
            /\ leader' = leader \ {pids}
            /\ group' \in {group, group \ {pids}} /\ leader' \subseteq group'
    /\ UNCHANGED <<setup, pids, deaths, handle_lost>>

Reaped(e) ==
    /\ ses[e].at = "reaping"
    /\ IF ses[e].saw \in group
       THEN End(e, "PRE_AGENT_FAILURE", TRUE) /\ UNCHANGED pids
       ELSE Step(e, "launch") /\ pids' = 0
    /\ UNCHANGED <<setup, leader, group, deaths, handle_lost>>

Launch(e) ==
    /\ ses[e].at = "launch"
    /\ \/ End(e, "AGENT_LAUNCH_FAILED", FALSE) /\ UNCHANGED <<leader, group>>
       \/ Step(e, "record") /\ leader' = leader \cup {e} /\ group' = group \cup {e}
    /\ UNCHANGED <<setup, pids, deaths, handle_lost>>

\* _write_pid_file replaces whatever the file named.
Record(e) ==
    /\ ses[e].at = "record"
    /\ pids' = e /\ Step(e, "monitor")
    /\ handle_lost' = (handle_lost \/ pids \in group)
    /\ UNCHANGED <<setup, leader, group, deaths>>

-----------------------------------------------------------------------------
(* _monitor *)

\* Exit status, and whether the agent took a turn in time: _failure_class.
Exited(e) ==
    /\ ses[e].at = "monitor" /\ e \notin leader
    /\ \E class \in {"COMPLETED", "AGENT_ERROR", "PRE_AGENT_FAILURE"} :
          ses' = [ses EXCEPT ![e].at = "reclaim", ![e].ends = class]
    /\ UNCHANGED <<setup, leader, group, pids, deaths, handle_lost>>

\* A beat: the proxy is read and the ferry carried, each behind an await of
\* its own, and the heartbeat is sent.
Beat(e) ==
    /\ ses[e].at = "monitor" /\ ses[e].beats < MaxWait
    /\ ses' = [ses EXCEPT ![e].at = "beat", ![e].beats = @ + 1,
                          ![e].since = IF ses[e].killed THEN @ + 1 ELSE @]
    /\ UNCHANGED <<setup, leader, group, pids, deaths, handle_lost>>

BeatDone(e) ==
    /\ ses[e].at = "beat" /\ Step(e, "monitor")
    /\ UNCHANGED <<setup, leader, group, pids, deaths, handle_lost>>

\* Variant: the deadline is read only when nothing is killed.
Deadline_unkilled(e) ==
    /\ ses[e].at = "monitor" /\ ses[e].beats = MaxWait /\ ~ses[e].killed
    /\ ses' = [ses EXCEPT ![e].at = "reclaim", ![e].ends = "TIMEOUT"]
    /\ UNCHANGED <<setup, leader, group, pids, deaths, handle_lost>>

Deadline(e) ==
    /\ ses[e].at = "monitor" /\ ses[e].beats = MaxWait
    /\ ses' = [ses EXCEPT ![e].at = "reclaim", ![e].ends = "TIMEOUT"]
    /\ UNCHANGED <<setup, leader, group, pids, deaths, handle_lost>>

\* The workflow's kill, or the word that Temporal gave the execution up, comes
\* with a beat's answer and is raised once, in whatever await the attempt stands at.  The
\* calls of a beat catch every exception, this one too, and go on; in the
\* monitor's own wait it ends the attempt; during the reap or the reclaim it
\* leaves at once.
DeliverKill(e) ==
    /\ ~ses[e].killed /\ ses[e].at \in {"reaping", "monitor", "beat", "reclaim"}
    /\ CASE ses[e].at = "beat" ->
              ses' = [ses EXCEPT ![e].killed = TRUE, ![e].at = "monitor"]
         [] ses[e].at = "monitor" ->
              ses' = [ses EXCEPT ![e].killed = TRUE, ![e].at = "reclaim", ![e].ends = "KILLED"]
         [] OTHER ->
              ses' = [ses EXCEPT ![e].killed = TRUE, ![e].at = "over", ![e].ends = "KILLED"]
    /\ UNCHANGED <<setup, leader, group, pids, deaths, handle_lost>>

-----------------------------------------------------------------------------
(* The end of an attempt *)

\* Variant: the last SIGKILL is taken for the proof.
Reclaim_unproved(e) ==
    /\ ses[e].at = "reclaim"
    /\ leader' = leader \ {e}
    /\ group' \in {group, group \ {e}} /\ Step(e, "clear")
    /\ UNCHANGED <<setup, pids, deaths, handle_lost>>

\* _finalize_current: SIGTERM, the grace, SIGKILL, and the proof that nothing
\* of the group is left.  Codex quarantines its credential when there is none;
\* without a quarantine the failure is the attempt's, and a killed one raises.
Reclaim(e) ==
    /\ ses[e].at = "reclaim"
    /\ leader' = leader \ {e}
    /\ \/ group' = group \ {e} /\ Step(e, "clear")
       \/ e \in group /\ group' = group
          /\ IF ses[e].ends # "KILLED" THEN End(e, ses[e].ends, TRUE)
             ELSE IF setup.quarantines THEN End(e, "AGENT_ERROR", TRUE)
             ELSE End(e, "raised", FALSE)
    /\ UNCHANGED <<setup, pids, deaths, handle_lost>>

\* The evidence is archived and the file dropped, whoever it names by now.
Clear(e) ==
    /\ ses[e].at = "clear"
    /\ pids' = 0 /\ Step(e, "over")
    /\ handle_lost' = (handle_lost \/ pids \in group)
    /\ UNCHANGED <<setup, leader, group, deaths>>

-----------------------------------------------------------------------------
(* The world *)

AgentExits(e) ==
    /\ e \in leader /\ leader' = leader \ {e}
    /\ group' \in {group, group \ {e}}
    /\ UNCHANGED <<setup, ses, pids, deaths, handle_lost>>

\* No beat reaches Temporal in time: it gives the execution up.
HeartbeatLapses(e) ==
    /\ ses[e].at \in {"monitor", "beat"} /\ ~ses[e].killed /\ ~ses[e].lapsed
    /\ ses' = [ses EXCEPT ![e].lapsed = TRUE]
    /\ UNCHANGED <<setup, leader, group, pids, deaths, handle_lost>>

\* Every execution in the worker is gone; the sandbox dies with its parent, a
\* bare process does not.
WorkerDies ==
    /\ deaths < MaxDeaths /\ \E e \in Exec : Running(e)
    /\ deaths' = deaths + 1
    /\ ses' = [e \in Exec |-> IF Running(e) THEN [ses[e] EXCEPT !.at = "lost"] ELSE ses[e]]
    /\ IF setup.dies_with_parent THEN leader' = {} /\ group' = {} /\ UNCHANGED handle_lost
       ELSE /\ UNCHANGED <<leader, group>>
            /\ handle_lost' = (handle_lost \/ \E e \in Exec : ses[e].at = "record" /\ e \in group)
    /\ UNCHANGED <<setup, pids>>

Attempt(e) == CredentialUnfit(e) \/ Reap(e) \/ Reaped(e) \/ Launch(e) \/ Record(e) \/ Exited(e)
              \/ Beat(e) \/ BeatDone(e) \/ Deadline(e) \/ Reclaim(e) \/ Clear(e)

SessionNext ==
    \/ WorkerDies
    \/ \E e \in Exec : Schedule(e) \/ Attempt(e) \/ DeliverKill(e) \/ AgentExits(e)
                       \/ HeartbeatLapses(e)

SessionFair == \A e \in Exec : WF_svars(Attempt(e))
SessionSpec == SessionInit /\ [][SessionNext]_svars /\ SessionFair

-----------------------------------------------------------------------------
(* Properties *)

\* The result a node is verified on, salvaged on and given its next attempt
\* on: the agent behind it is dead, or the result says its owner is retained.
NoLiveAgentBehindAResult ==
    \A e \in Exec :
        ses[e].ends \in {"COMPLETED", "AGENT_ERROR", "PRE_AGENT_FAILURE", "TIMEOUT"} /\ ses[e].at = "over"
            => e \notin group \/ ses[e].retained

\* Two agents never share the worktree, as long as every living group was
\* named by the pid file: what a death between launch and record, or a
\* predecessor that clears its successor's file, takes away.
LaunchAlone ==
    Cardinality(group) > 1 => handle_lost

\* An attempt ends within its own beats, with an agent that never exits and
\* whatever is killed, unless its worker is lost.
AttemptComesToAnEnd == \A e \in Exec : ses[e].at = "reap" ~> ses[e].at \in Ended

\* "what lets a cancellation land within a beat instead of at the deadline"
KillLandsWithinABeat == \A e \in Exec : ses[e].since <= 1

\* "Raises CancelledError on the kill path after the group is dead"
KilledIsDead == \A e \in Exec : ses[e].at = "over" /\ ses[e].ends = "KILLED" => e \notin group
=============================================================================
