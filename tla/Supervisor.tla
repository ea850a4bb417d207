------------------------------ MODULE Supervisor -----------------------------
(***************************************************************************)
(* The engine container's init process                                     *)
(* (factory/supervision/container_supervisor.py): it starts Temporal,      *)
(* waits for its address, starts the worker and the bridge, and takes the  *)
(* container down with the first of them that dies.  Beside them, in a     *)
(* container that asks for it, runs the demo driver                        *)
(* (factory/supervision/demo_driver.py), which prepares a repository and   *)
(* dispatches one epic, each behind a sentinel on the state volume.        *)
(***************************************************************************)
EXTENDS Naturals, FiniteSets

CONSTANT MaxBoots      \* bound: times somebody brings the container up

ASSUME SupervisorAssumption == MaxBoots \in Nat

VARIABLES
    boots,         \* how often it was brought up
    at,            \* where the supervisor is
    exit,          \* its exit status, of the last time
    config,        \* the bridge's token is set; the demo is asked for
    deaf,          \* the children that do not heed SIGTERM
    child,         \* each child process
    pending,       \* the children it still waits for
    first,         \* the child it saw die before any stop was asked
    asked,         \* a signal asked it to stop
    identity,      \* the identity on the state volume
    driver,        \* where the demo driver is
    sentinel,      \* the sentinels on the state volume
    shipped        \* history: epics the driver dispatched

bvars == <<boots, at, exit, config, deaf, child, pending, first, asked, identity, driver, sentinel, shipped>>

Supervised == {"temporal", "worker", "bridge"}
Children == Supervised \cup {"demo"}
Nobody == "nobody"

SupervisorTypeOK ==
    /\ boots \in 0..MaxBoots /\ exit \in 0..1
    /\ at \in {"down", "registry", "temporal", "probe", "unready", "worker", "bridge", "demo", "watch"}
    /\ config \in [bridge : BOOLEAN, demo : BOOLEAN] /\ deaf \subseteq Supervised
    /\ child \in [Children -> {"off", "up", "told", "gone"}] /\ pending \subseteq Supervised
    /\ first \in Children \cup {Nobody} /\ asked \in BOOLEAN /\ identity \in BOOLEAN
    /\ driver \in {"prepare", "dispatch", "ship", "follow", "over"}
    /\ sentinel \subseteq {"prepared", "dispatched"} /\ shipped \in 0..MaxBoots

AllOff == [n \in Children |-> "off"]

SupervisorInit ==
    /\ boots = 0 /\ at = "down" /\ exit = 0
    /\ config \in [bridge : BOOLEAN, demo : BOOLEAN] /\ deaf \in SUBSET Supervised
    /\ child = AllOff /\ pending = {} /\ first = Nobody /\ asked = FALSE
    /\ identity = FALSE /\ driver = "over" /\ sentinel = {} /\ shipped = 0

Volume == <<identity, sentinel>>
Story == <<boots, config, deaf, shipped>>
watching == <<pending, first, asked>>

\* The container is gone, and every process in it.
Ends(status) == at' = "down" /\ exit' = status /\ child' = AllOff /\ pending' = {} /\ driver' = "over"

-----------------------------------------------------------------------------
(* Starting *)

BringUp ==
    /\ at = "down" /\ boots < MaxBoots
    /\ boots' = boots + 1 /\ at' = "registry" /\ first' = Nobody /\ asked' = FALSE
    /\ UNCHANGED <<exit, config, deaf, child, pending, driver, shipped, Volume>>

\* A repository that is registered and not mounted refuses the start.
_check_same_path_registry ==
    /\ at = "registry"
    /\ \/ at' = "temporal" /\ UNCHANGED <<exit, child, pending, driver>>
       \/ Ends(1)
    /\ UNCHANGED <<first, asked, Story, Volume>>

_start_real_child(n, next) ==
    /\ child' = [child EXCEPT ![n] = "up"] /\ pending' = pending \cup {n} /\ at' = next

StartTemporal ==
    /\ at = "temporal" /\ _start_real_child("temporal", "probe")
    /\ UNCHANGED <<exit, first, asked, driver, Story, Volume>>

\* An address that does not answer in time stops what was started; one that
\* answers puts the engine's identity on the volume.
_probe_temporal_address ==
    /\ at = "probe"
    /\ \/ at' = "worker" /\ identity' = TRUE /\ UNCHANGED child
       \/ /\ at' = "unready" /\ UNCHANGED identity
          /\ child' = [child EXCEPT !["temporal"] = IF @ = "gone" THEN @ ELSE "told"]
    /\ UNCHANGED <<exit, pending, first, asked, driver, sentinel, Story>>

Unready ==
    /\ at = "unready" /\ child["temporal"] = "gone" /\ Ends(1)
    /\ UNCHANGED <<first, asked, Story, Volume>>

StartWorker ==
    /\ at = "worker" /\ _start_real_child("worker", "bridge")
    /\ UNCHANGED <<exit, first, asked, driver, Story, Volume>>

_bridge_is_configured ==
    /\ at = "bridge"
    /\ IF config.bridge THEN _start_real_child("bridge", "demo")
       ELSE at' = "demo" /\ UNCHANGED <<child, pending>>
    /\ UNCHANGED <<exit, first, asked, driver, Story, Volume>>

\* The driver is nobody the supervisor waits for; it may fail to start.
_demo_requested ==
    /\ at = "demo" /\ at' = "watch"
    /\ \/ config.demo /\ child' = [child EXCEPT !["demo"] = "up"] /\ driver' = "prepare"
       \/ UNCHANGED <<child, driver>>
    /\ UNCHANGED <<exit, pending, first, asked, Story, Volume>>

-----------------------------------------------------------------------------
(* The children, and a signal from outside *)

ChildDies(n) ==
    /\ n \in Supervised /\ child[n] = "up" /\ child' = [child EXCEPT ![n] = "gone"]
    /\ UNCHANGED <<at, exit, driver, watching, Story, Volume>>

ChildObeys(n) ==
    /\ child[n] = "told" /\ n \notin deaf /\ child' = [child EXCEPT ![n] = "gone"]
    /\ UNCHANGED <<at, exit, driver, watching, Story, Volume>>

_stop_all_except(victim) ==
    child' = [n \in Children |-> IF n \in pending \ {victim} /\ child[n] = "up" THEN "told" ELSE child[n]]

\* Before its handler is there, a signal ends the supervisor on the spot.
on_signal ==
    /\ at # "down" /\ ~asked
    /\ IF at = "watch" THEN asked' = TRUE /\ _stop_all_except(Nobody) /\ UNCHANGED <<at, exit, pending, driver>>
       ELSE Ends(1) /\ UNCHANGED asked
    /\ UNCHANGED <<first, Story, Volume>>

\* The host's own end: power, memory, docker's patience with a stop.
ContainerDies ==
    /\ at # "down" /\ Ends(1) /\ UNCHANGED <<first, asked, Story, Volume>>

-----------------------------------------------------------------------------
(* Watching *)

\* Variant: the driver is one of the children it watches.
Observe_driver(n) ==
    /\ at = "watch" /\ child[n] = "gone"
    /\ n \in pending \cup {"demo"} /\ pending # {}
    /\ pending' = pending \ {n}
    /\ IF asked \/ first # Nobody THEN UNCHANGED <<first, child>>
       ELSE first' = n /\ _stop_all_except(n)
    /\ UNCHANGED <<at, exit, asked, driver, Story, Volume>>

\* The first to go while nobody asked stops the others.  The loop ends with
\* nobody left to wait for, so that what follows it, which kills after a grace
\* those that are left, has nobody to kill.
Observe(n) ==
    /\ at = "watch" /\ n \in pending /\ child[n] = "gone"
    /\ pending' = pending \ {n}
    /\ IF asked \/ first # Nobody THEN UNCHANGED <<first, child>>
       ELSE first' = n /\ _stop_all_except(n)
    /\ UNCHANGED <<at, exit, asked, driver, Story, Volume>>

\* Whatever the identity's removal answers.
Finish ==
    /\ at = "watch" /\ pending = {}
    /\ Ends(IF first # Nobody THEN 1 ELSE 0)
    /\ identity' \in {FALSE, identity}
    /\ UNCHANGED <<first, asked, sentinel, Story>>

-----------------------------------------------------------------------------
(* The demo driver *)

Driving(place) == at = "watch" /\ child["demo"] = "up" /\ driver = place
DriverEnds == driver' = "over" /\ child' = [child EXCEPT !["demo"] = "gone"]

run_prepare_phase ==
    /\ Driving("prepare")
    /\ \/ driver' = "dispatch" /\ sentinel' = sentinel \cup {"prepared"} /\ UNCHANGED child
       \/ "prepared" \notin sentinel /\ DriverEnds /\ UNCHANGED sentinel
    /\ UNCHANGED <<at, exit, watching, identity, Story>>

\* Variant: the preparing alone is behind a sentinel.
run_dispatch_phase_unmarked ==
    /\ Driving("dispatch")
    /\ IF "dispatched" \in sentinel THEN DriverEnds ELSE driver' = "ship" /\ UNCHANGED child
    /\ UNCHANGED <<at, exit, watching, Story, Volume>>

\* The sentinel is there before the epic is.
run_dispatch_phase ==
    /\ Driving("dispatch")
    /\ IF "dispatched" \in sentinel THEN DriverEnds /\ UNCHANGED sentinel
       ELSE driver' = "ship" /\ sentinel' = sentinel \cup {"dispatched"} /\ UNCHANGED child
    /\ UNCHANGED <<at, exit, watching, identity, Story>>

Ship ==
    /\ Driving("ship")
    /\ \/ shipped' = shipped + 1 /\ driver' = "follow" /\ UNCHANGED child
       \/ shipped' = shipped + 1 /\ DriverEnds
       \/ DriverEnds /\ UNCHANGED shipped
    /\ UNCHANGED <<at, exit, watching, boots, config, deaf, Volume>>

\* Until the epic is over, its readings fail, or a deadline.
run_watch_phase ==
    /\ Driving("follow") /\ DriverEnds /\ UNCHANGED <<at, exit, watching, Story, Volume>>

Starting ==
    \/ _check_same_path_registry \/ StartTemporal \/ _probe_temporal_address \/ Unready
    \/ StartWorker \/ _bridge_is_configured \/ _demo_requested
Driver == run_prepare_phase \/ run_dispatch_phase \/ Ship \/ run_watch_phase

SupervisorNext ==
    \/ BringUp \/ Starting \/ on_signal \/ ContainerDies \/ Finish \/ Driver
    \/ \E n \in Children : ChildDies(n) \/ ChildObeys(n) \/ Observe(n)

\* The supervisor's loop runs, and a child that heeds SIGTERM goes.
SupervisorFair ==
    /\ WF_bvars(Starting) /\ WF_bvars(Finish)
    /\ \A n \in Supervised : WF_bvars(Observe(n)) /\ WF_bvars(ChildObeys(n))

SupervisorSpec == SupervisorInit /\ [][SupervisorNext]_bvars
FairSupervisorSpec == SupervisorSpec /\ SupervisorFair

-----------------------------------------------------------------------------
(* Properties *)

\* However often the container comes up, and wherever it died, the demo's epic
\* is dispatched at most once.
DispatchedOnce == shipped <= 1

\* A stop nobody asked for follows a supervised child's own death, and no death
\* of one is passed over: it is the first, or it was told to go, or a stop was
\* asked before it was seen.
FaultsStopTheEngine ==
    at = "watch" =>
        /\ (\E n \in Supervised : child[n] = "told") => asked \/ (first \in Supervised /\ child[first] = "gone")
        /\ pending # {} /\ first # Nobody => \A n \in pending : child[n] # "up"

\* A child that is told to stop is gone in the end: "Grace period, then kill
\* stragglers."
StragglersAreKilled == \A n \in Supervised : (child[n] = "told") ~> (child[n] # "told")
=============================================================================
