-------------------------------- MODULE Deploy -------------------------------
(***************************************************************************)
(* Versioned workers on one host (factory/supervision/deploy.py): `ergane  *)
(* worker deploy` puts a version on the floor and sends new work to it;    *)
(* the sweep, at a deploy's tail and in every run of the probe, takes the  *)
(* versions off that have drained.  Both hold one lock, which the kernel   *)
(* drops for a process that dies.                                          *)
(*                                                                         *)
(* A version is a checkout, a systemd unit and a record at Temporal, whose *)
(* drainage is the server's and whose count of open work lags.             *)
(***************************************************************************)
EXTENDS Naturals, FiniteSets

CONSTANTS
    B,            \* number of builds
    MaxRounds,    \* bound: deploys and sweeps somebody starts
    MaxOpen       \* bound: workflows opened on a version

ASSUME DeployAssumption == B \in Nat \ {0} /\ MaxRounds \in Nat /\ MaxOpen \in Nat

VARIABLES
    tree,         \* each build's checkout: "none", "part" or "whole"
    unit,         \* the builds whose unit is enabled and running
    record,       \* what Temporal holds of each build
    current,      \* the build new work goes to, or 0
    open, counted,\* open workflows pinned to each build, and as counted
    floor,        \* who holds the deployment lock, or 0
    round,        \* the deploys and sweeps
    unlisted,     \* history: a sweep could not list the units
    unlucky       \* history: builds whose work was reopened behind a sweep's back

dvars == <<tree, unit, record, current, open, counted, floor, round, unlisted, unlucky>>

Builds == 1..B
Rounds == 1..MaxRounds
Over == {"done", "refused", "degraded", "died"}
Target == [build : Builds, unit : BOOLEAN]
Round == [build : 0..B,                                    \* the build deployed, or 0: a sweep
          at : {"start", "lock", "freeze", "sync", "start_unit", "await", "promote", "snapshot",
                "list", "recount", "stop", "remove", "delete"} \cup Over,
          drained : SUBSET Builds, idle : SUBSET Builds,   \* as the snapshot saw them
          targets : SUBSET Target]

DeployTypeOK ==
    /\ tree \in [Builds -> {"none", "part", "whole"}] /\ unit \subseteq Builds
    /\ record \in [Builds -> {"none", "inactive", "draining", "drained"}]
    /\ current \in 0..B
    /\ {open, counted} \subseteq [Builds -> 0..MaxOpen]
    /\ floor \in 0..MaxRounds /\ round \in [Rounds -> Round]
    /\ unlisted \in BOOLEAN /\ unlucky \subseteq Builds

Idle == [build |-> 0, at |-> "start", drained |-> {}, idle |-> {}, targets |-> {}]

\* A host before its first deploy, or on which build 1 has been deployed.
DeployInit ==
    /\ current \in {0, 1} /\ unit = {current} \ {0}
    /\ tree = [b \in Builds |-> IF b = current THEN "whole" ELSE "none"]
    /\ record = [b \in Builds |-> IF b = current THEN "inactive" ELSE "none"]
    /\ open = [b \in Builds |-> 0] /\ counted = open
    /\ floor = 0 /\ round = [r \in Rounds |-> Idle] /\ unlisted = FALSE /\ unlucky = {}

host == <<tree, unit>>
server == <<record, current, open, counted>>
past == <<unlisted, unlucky>>
Goes(r, place) == round' = [round EXCEPT ![r].at = place]
RoundEnds(r, how) ==
    /\ round' = [round EXCEPT ![r] = [Idle EXCEPT !.build = round[r].build, !.at = how]]
    /\ floor' = 0

-----------------------------------------------------------------------------
(* Temporal and the units, as the code in src/ meets them *)

\* A worker that polls has its version registered.
Registers(b) ==
    /\ b \in unit /\ record[b] = "none" /\ record' = [record EXCEPT ![b] = "inactive"]
    /\ UNCHANGED <<host, current, open, counted, floor, round, past>>

\* The server says a version is drained once nothing is open on it.
Drains(b) ==
    /\ record[b] = "draining" /\ open[b] = 0 /\ b # current
    /\ record' = [record EXCEPT ![b] = "drained"]
    /\ UNCHANGED <<host, current, open, counted, floor, round, past>>

\* New work goes to the current version.
Dispatch ==
    /\ current # 0 /\ open[current] < MaxOpen
    /\ open' = [open EXCEPT ![current] = @ + 1]
    /\ UNCHANGED <<host, record, current, counted, floor, round, past>>

BehindASweep(b) ==
    \/ b \notin unit
    \/ \E r \in Rounds : /\ round[r].at \in {"stop", "remove", "delete"}
                         /\ \E t \in round[r].targets : t.build = b

\* A workflow of a version that was drained is reset, and runs there again.
Reopen(b) ==
    /\ record[b] = "drained" /\ b # current /\ open[b] < MaxOpen /\ b \notin unlucky
    /\ open' = [open EXCEPT ![b] = @ + 1] /\ counted' = [counted EXCEPT ![b] = open'[b]]
    /\ record' = [record EXCEPT ![b] = "draining"]
    /\ unlucky' = IF BehindASweep(b) THEN unlucky \cup {b} ELSE unlucky
    /\ UNCHANGED <<host, current, floor, round, unlisted>>

Completes(b) ==
    /\ open[b] > 0 /\ b \in unit /\ open' = [open EXCEPT ![b] = @ - 1]
    /\ UNCHANGED <<host, record, current, counted, floor, round, past>>

Counts(b) ==
    /\ counted[b] # open[b] /\ counted' = [counted EXCEPT ![b] = open[b]]
    /\ UNCHANGED <<host, record, current, open, floor, round, past>>

-----------------------------------------------------------------------------
(* ergane worker deploy *)

\* Somebody deploys a build, or a probe comes round to sweep.
Begin(r) ==
    /\ round[r] = Idle /\ \A q \in 1..(r - 1) : round[q] # Idle
    /\ \E b \in 0..B : round' = [round EXCEPT ![r] = [Idle EXCEPT !.build = b, !.at = "lock"]]
    /\ UNCHANGED <<host, server, floor, past>>

\* What a deploy refuses, it refuses before it has moved anything: no commit,
\* no user session, no Temporal.
exclusive_lock(r) ==
    /\ round[r].at = "lock"
    /\ \/ floor = 0 /\ floor' = r /\ Goes(r, IF round[r].build = 0 THEN "snapshot" ELSE "freeze")
       \/ floor # 0 /\ Goes(r, "refused") /\ UNCHANGED floor
       \/ floor = 0 /\ round[r].build # 0 /\ Goes(r, "refused") /\ UNCHANGED floor
    /\ UNCHANGED <<host, server, past>>

\* A checkout that is there is taken as it is.
_freeze(r) ==
    /\ round[r].at = "freeze"
    /\ LET b == round[r].build
       IN  \/ tree[b] # "none" /\ Goes(r, "sync") /\ UNCHANGED <<tree, floor>>
           \/ tree[b] = "none" /\ tree' = [tree EXCEPT ![b] = "whole"] /\ Goes(r, "sync") /\ UNCHANGED floor
           \/ tree[b] = "none" /\ RoundEnds(r, "refused") /\ UNCHANGED tree
           \/ tree[b] = "none" /\ tree' = [tree EXCEPT ![b] = "part"] /\ RoundEnds(r, "died")
    /\ UNCHANGED <<unit, server, past>>

_sync(r) ==
    /\ round[r].at = "sync"
    /\ \/ Goes(r, "start_unit") /\ UNCHANGED floor
       \/ RoundEnds(r, "refused")
    /\ UNCHANGED <<host, server, past>>

\* Variant: what the start answered is not read.
_start_anyway(r) ==
    /\ round[r].at = "start_unit"
    /\ unit' = unit \cup {round[r].build} \/ UNCHANGED unit
    /\ Goes(r, "await") /\ UNCHANGED <<tree, server, floor, past>>

\* enable --now; a version another deploy left registered is not waited for.
_start(r) ==
    /\ round[r].at = "start_unit"
    /\ \/ unit' = unit \cup {round[r].build} /\ Goes(r, "await") /\ UNCHANGED floor
       \/ RoundEnds(r, "refused") /\ UNCHANGED unit
    /\ UNCHANGED <<tree, server, past>>

\* A version that does not come is left where it is.
_await_registration(r) ==
    /\ round[r].at = "await"
    /\ \/ record[round[r].build] # "none" /\ Goes(r, "promote") /\ UNCHANGED floor
       \/ record[round[r].build] = "none" /\ RoundEnds(r, "degraded")
       \/ RoundEnds(r, "refused")
    /\ UNCHANGED <<host, server, past>>

Promoted(b) ==
    /\ current' = b
    /\ record' = [v \in Builds |-> IF v = b THEN "inactive"
                                   ELSE IF v = current THEN "draining" ELSE record[v]]
    /\ UNCHANGED <<open, counted>>

\* The answer may be lost; the unit is left running either way.
_set_current(r) ==
    /\ round[r].at = "promote"
    /\ LET b == round[r].build
       IN  \/ current = b /\ Goes(r, "snapshot") /\ UNCHANGED <<server, floor>>
           \/ current # b /\ Promoted(b) /\ Goes(r, "snapshot") /\ UNCHANGED floor
           \/ current # b /\ RoundEnds(r, "refused") /\ (Promoted(b) \/ UNCHANGED server)
    /\ UNCHANGED <<host, past>>

-----------------------------------------------------------------------------
(* The sweep *)

\* The server's word on each version, and what is still open on it.
_describe(r) ==
    /\ round[r].at = "snapshot"
    /\ \/ /\ round' = [round EXCEPT ![r].at = "list",
                           ![r].drained = {b \in Builds \ {current} : record[b] = "drained"},
                           ![r].idle = {b \in Builds \ {current} : record[b] # "none" /\ counted[b] = 0}]
          /\ UNCHANGED floor
       \/ RoundEnds(r, "done")                                     \* Temporal is away
    /\ UNCHANGED <<host, server, past>>

\* Variant: nothing open is as good as drained.
reapable_idle(drained, idle, units) == {[build |-> b, unit |-> b \in units] : b \in idle}

reapable(drained, idle, units) == {[build |-> b, unit |-> b \in units] : b \in drained \cap idle}

\* A list that fails reads as no units.
_instances(r) ==
    /\ round[r].at = "list"
    /\ \E seen \in {unit, {}} :
          /\ unlisted' = (unlisted \/ seen # unit)
          /\ LET targets == reapable(round[r].drained, round[r].idle, seen)
             IN  IF targets = {} THEN RoundEnds(r, "done")
                 ELSE round' = [round EXCEPT ![r].targets = targets, ![r].at = "recount"] /\ UNCHANGED floor
    /\ UNCHANGED <<host, server, unlucky>>

First(targets) == CHOOSE t \in targets : \A o \in targets : t.build <= o.build
This(r) == First(round[r].targets)
Next_target(r) ==
    IF round[r].targets = {This(r)} THEN RoundEnds(r, "done")
    ELSE /\ round' = [round EXCEPT ![r].targets = @ \ {This(r)}, ![r].at = "recount"]
         /\ UNCHANGED floor

\* Asked again just before the first act that cannot be undone.
open_pinned(r) ==
    /\ round[r].at = "recount"
    /\ \/ /\ counted[This(r).build] = 0
          /\ Goes(r, IF This(r).unit THEN "stop" ELSE "remove") /\ UNCHANGED floor
       \/ Next_target(r)                                      \* work, or no answer
    /\ UNCHANGED <<host, server, past>>

\* Variant: what the stop answered is not read.
StopUnit_anyway(r) ==
    /\ round[r].at = "stop"
    /\ \/ unit' = unit \ {This(r).build} \/ UNCHANGED unit
    /\ Goes(r, "remove") /\ UNCHANGED <<tree, server, floor, past>>

\* disable --now; a unit that does not stop keeps its checkout.
StopUnit(r) ==
    /\ round[r].at = "stop"
    /\ \/ unit' = unit \ {This(r).build} /\ Goes(r, "remove") /\ UNCHANGED floor
       \/ Next_target(r) /\ UNCHANGED unit
    /\ UNCHANGED <<tree, server, past>>

_remove_checkout(r) ==
    /\ round[r].at = "remove"
    /\ \/ tree' = [tree EXCEPT ![This(r).build] = "none"] /\ Goes(r, "delete") /\ UNCHANGED floor
       \/ Next_target(r) /\ UNCHANGED tree
    /\ UNCHANGED <<unit, server, past>>

\* The server keeps the record of a version it has seen polling, or that is
\* not drained; a later sweep asks again.
_delete(r) ==
    /\ round[r].at = "delete"
    /\ LET b == This(r).build
       IN  \/ record[b] = "drained" /\ record' = [record EXCEPT ![b] = "none"]
           \/ UNCHANGED record
    /\ Next_target(r)
    /\ UNCHANGED <<host, current, open, counted, past>>

\* A process that dies anywhere lets go of the lock.
Dies(r) ==
    /\ round[r].at \notin Over \cup {"start", "lock"} /\ RoundEnds(r, "died")
    /\ UNCHANGED <<host, server, past>>

DeployNext ==
    \/ Dispatch
    \/ \E b \in Builds : Registers(b) \/ Drains(b) \/ Reopen(b) \/ Completes(b) \/ Counts(b)
    \/ \E r \in Rounds : \/ Begin(r) \/ exclusive_lock(r) \/ _freeze(r) \/ _sync(r) \/ _start(r)
                         \/ _await_registration(r) \/ _set_current(r) \/ _describe(r) \/ _instances(r)
                         \/ open_pinned(r) \/ StopUnit(r) \/ _remove_checkout(r) \/ _delete(r) \/ Dies(r)

DeploySpec == DeployInit /\ [][DeployNext]_dvars

-----------------------------------------------------------------------------
(* Properties *)

\* The version new work goes to is on this host and runs, whatever deploy or
\* sweep died where.
CurrentIsOnTheFloor == current # 0 => current \in unit /\ tree[current] # "none"

\* A version with open work keeps its worker, unless the work was reopened
\* behind a sweep that had counted.
WorkKeepsItsWorker == \A b \in Builds \ unlucky : open[b] > 0 => b \in unit

\* No checkout goes from under a worker, unless the units could not be listed.
UnitHasItsTree == ~unlisted => \A b \in unit : tree[b] # "none"
=============================================================================
