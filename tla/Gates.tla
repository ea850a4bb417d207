-------------------------------- MODULE Gates --------------------------------
(***************************************************************************)
(* The gates of one verification of one node: the run_gates activity       *)
(* (factory/activities/verify_activities.py) over factory/verify/gates.py, *)
(* worktree_snapshot.py and artifact_capture.py.                           *)
(*                                                                         *)
(* run_gates is an activity that runs its gates in a thread.  It beats     *)
(* when a gate starts, which is after the gate has waited for the          *)
(* process's one slot; Temporal gives an execution up that beats too late  *)
(* and starts the next, while the thread of the first goes on.  All of     *)
(* them run in the one worktree, `log` says who wrote what in it.  A       *)
(* process is <<x, g>>: gate g as execution x runs it.  Gate 1 declares an *)
(* artifact; no gate declares other writes.                                *)
(***************************************************************************)
EXTENDS Integers, Sequences, FiniteSets

CONSTANTS
    MaxRuns,         \* _RETRIES.maximum_attempts
    GateCount,       \* gates of the target's factory.yaml
    MaxWrites,       \* bound: writes to the worktree
    MaxGateDeaths    \* bound: worker deaths

ASSUME GatesAssumption ==
    /\ MaxRuns \in Nat \ {0} /\ GateCount \in Nat \ {0}
    /\ MaxWrites \in Nat /\ MaxGateDeaths \in Nat

VARIABLES
    boundary,  \* who runs a gate: "bwrap" or "subprocess"
    grun,      \* the executions of run_gates
    slot,      \* the execution that holds the gate slot, or 0
    alive,     \* the gate processes that may still write
    log,       \* the writes to the worktree
    shelf,     \* the capture of the artifact: its manifest's digest, its blobs
    returned,  \* the execution whose results the workflow has, 0, or -1: it raised
    gdeaths    \* worker deaths so far

gvars == <<boundary, grun, slot, alive, log, shelf, returned, gdeaths>>

Runs == 1..MaxRuns
Gates == 1..GateCount
GateProcs == Runs \X Gates
Versions == 0..MaxWrites
NoSnapshot == -1

GateRun == [at : {"idle", "queue", "gate", "after", "publish", "done", "raised", "lost"},
            gate : Gates, before : Versions \cup {NoSnapshot}, baseline : Versions,
            lapsed : BOOLEAN,
            passing : BOOLEAN,      \* every result so far is PASS
            stored : Versions]      \* the digest the artifact's result carries

IdleRun == [at |-> "idle", gate |-> 1, before |-> 0, baseline |-> 0, lapsed |-> FALSE,
            passing |-> TRUE, stored |-> 0]

GatesTypeOK ==
    /\ boundary \in {"bwrap", "subprocess"}
    /\ grun \in [Runs -> GateRun]
    /\ slot \in 0..MaxRuns /\ alive \subseteq GateProcs
    /\ log \in Seq([by : GateProcs, path : {"source", "artifact"}]) /\ Len(log) <= MaxWrites
    /\ shelf \in [manifest : Versions, blobs : SUBSET Versions]
    /\ returned \in -1..MaxRuns /\ gdeaths \in 0..MaxGateDeaths

Free == 0

GatesInit ==
    /\ boundary \in {"bwrap", "subprocess"}
    /\ grun = [x \in Runs |-> IdleRun]
    /\ slot = Free /\ alive = {} /\ log = <<>> /\ shelf = [manifest |-> 0, blobs |-> {}]
    /\ returned = 0 /\ gdeaths = 0

\* The bytes of the artifact: each write of it leaves others.
Artifact == Cardinality({i \in 1..Len(log) : log[i].path = "artifact"})
Gone(x) == grun[x].lapsed \/ grun[x].at \in {"lost", "raised"}
InThread(x) == grun[x].at \in {"queue", "gate", "after", "publish"}

-----------------------------------------------------------------------------
(* run_gates *)

\* The candidate's own parser reads the manifest, or the trusted one where it
\* cannot run; a manifest refused is the only result.
StartGates(x) ==
    /\ returned = 0 /\ grun[x].at = "idle"
    /\ \A y \in Runs : y < x => Gone(y)
    /\ \/ grun' = [grun EXCEPT ![x].at = "done", ![x].passing = FALSE]
       \/ \E before \in {Len(log), NoSnapshot} :
             grun' = [grun EXCEPT ![x].at = "queue", ![x].before = before, ![x].baseline = Artifact]
    /\ UNCHANGED <<boundary, slot, alive, log, shelf, returned, gdeaths>>

\* The slot is acquired, the activity beats, the command starts.
AcquireSlot(x) ==
    /\ grun[x].at = "queue" /\ slot = Free
    /\ slot' = x /\ grun' = [grun EXCEPT ![x].at = "gate"]
    /\ alive' = alive \cup {<<x, grun[x].gate>>}
    /\ UNCHANGED <<boundary, log, shelf, returned, gdeaths>>

\* Variant: the sandbox's children outlive the command.
GateEnds_unreaped(x) ==
    /\ grun[x].at = "gate"
    /\ grun' = [grun EXCEPT ![x].at = "after"]
    /\ \E outlives \in BOOLEAN :
          /\ alive' = IF outlives THEN alive ELSE alive \ {<<x, grun[x].gate>>}
    /\ slot' = Free
    /\ UNCHANGED <<boundary, log, shelf, returned, gdeaths>>

\* It exits, or its time is up and its group is killed.  The sandbox takes
\* every child with it; a bare command that exits leaves its background.
GateEnds(x) ==
    /\ grun[x].at = "gate"
    /\ grun' = [grun EXCEPT ![x].at = "after"]
    /\ \E outlives \in BOOLEAN :
          /\ outlives => boundary = "subprocess"
          /\ alive' = IF outlives THEN alive ELSE alive \ {<<x, grun[x].gate>>}
    /\ slot' = Free
    /\ UNCHANGED <<boundary, log, shelf, returned, gdeaths>>

\* The next gate starts from the tree this one was compared with.
NextGate(x, after) ==
    IF grun[x].gate = GateCount
    THEN [IdleRun EXCEPT !.at = "done", !.lapsed = grun[x].lapsed,
                         !.passing = grun[x].passing, !.stored = grun[x].stored]
    ELSE [grun[x] EXCEPT !.at = "queue", !.gate = @ + 1, !.before = after,
                         !.baseline = Artifact]

\* Variant: the tree is looked at before the command has run.
change_before(x) == {}

\* The writes a gate is blamed for: between the two trees.
change(x) == {log[i] : i \in (grun[x].before + 1)..Len(log)}

\* _to_result of a gate that exits 0: a snapshot that could not be taken on
\* either side, then what was written and not declared.
Passes(x, after) ==
    /\ after # NoSnapshot /\ grun[x].before # NoSnapshot
    /\ \A w \in change(x) : grun[x].gate = 1 /\ w.path = "artifact"

Compared(x, exit0, after, stored) ==
    [grun[x] EXCEPT !.at = "publish", !.before = after, !.stored = stored,
                    !.passing = @ /\ exit0 /\ Passes(x, after)]

\* Variant: a manifest that is there already says that the bytes are.
CompareTree_trusting(x) ==
    /\ grun[x].at = "after"
    /\ LET kept == grun[x].gate = 1 /\ Artifact # 0 /\ grun[x].baseline \in {0, Artifact}
           result(stored) == Compared(x, TRUE, Len(log), stored)
       IN  \/ ~kept /\ grun' = [grun EXCEPT ![x] = result(@.stored)] /\ UNCHANGED shelf
           \/ kept /\ shelf.manifest = 0 /\ shelf' = [shelf EXCEPT !.manifest = Artifact]
              /\ grun' = [grun EXCEPT ![x] = result(Artifact)]
           \/ kept /\ shelf.manifest = Artifact
              /\ grun' = [grun EXCEPT ![x] = [NextGate(x, Len(log)) EXCEPT !.stored = Artifact]]
              /\ UNCHANGED shelf
    /\ UNCHANGED <<boundary, slot, alive, log, returned, gdeaths>>

\* The tree is compared.  The artifact is kept when it is new, or what it was;
\* its capture is the attempt's, so two digests of it are an error, and the
\* manifest is written before the bytes.
CompareTree(x) ==
    /\ grun[x].at = "after"
    /\ LET kept == grun[x].gate = 1 /\ Artifact # 0 /\ grun[x].baseline \in {0, Artifact}
       IN  \/ kept /\ shelf.manifest \notin {0, Artifact}
              /\ grun' = [grun EXCEPT ![x] = [IdleRun EXCEPT !.at = "raised", !.lapsed = grun[x].lapsed]]
              /\ UNCHANGED shelf
           \/ /\ kept => shelf.manifest \in {0, Artifact}
              /\ shelf' = [shelf EXCEPT !.manifest = IF kept THEN Artifact ELSE @]
              /\ \E after \in {Len(log), NoSnapshot}, exit0 \in BOOLEAN :
                    grun' = [grun EXCEPT ![x] = Compared(x, exit0, after, IF kept THEN Artifact ELSE @.stored)]
    /\ UNCHANGED <<boundary, slot, alive, log, returned, gdeaths>>

\* The bytes, where there are any, and the next gate.
Publish(x) ==
    /\ grun[x].at = "publish"
    /\ shelf' = [shelf EXCEPT !.blobs = @ \cup ({grun[x].stored} \ {0})]
    /\ grun' = [grun EXCEPT ![x] = NextGate(x, @.before)]
    /\ UNCHANGED <<boundary, slot, alive, log, returned, gdeaths>>

-----------------------------------------------------------------------------
(* The world *)

\* A command writes its sources, or what gate 1 declares.
Write(p) ==
    /\ p \in alive /\ Len(log) < MaxWrites
    /\ \E path \in {"source", "artifact"} :
          /\ path = "artifact" => p[2] = 1
          /\ log' = Append(log, [by |-> p, path |-> path])
    /\ UNCHANGED <<boundary, grun, slot, alive, shelf, returned, gdeaths>>

\* The time between two beats is longer than one gate's: a wait in the queue
\* is, when the gates of other nodes hold the slot.
Lapse(x) ==
    /\ grun[x].at = "queue" /\ ~grun[x].lapsed /\ returned = 0
    /\ grun' = [grun EXCEPT ![x].lapsed = TRUE]
    /\ UNCHANGED <<boundary, slot, alive, log, shelf, returned, gdeaths>>

\* The threads and the sandboxes die with the worker, a bare command does not.
GateWorkerDies ==
    /\ gdeaths < MaxGateDeaths /\ \E x \in Runs : InThread(x)
    /\ gdeaths' = gdeaths + 1 /\ slot' = Free
    /\ grun' = [x \in Runs |-> IF InThread(x) THEN [IdleRun EXCEPT !.at = "lost", !.lapsed = grun[x].lapsed] ELSE grun[x]]
    /\ alive' = IF boundary = "bwrap" THEN {} ELSE alive
    /\ UNCHANGED <<boundary, log, shelf, returned>>

-----------------------------------------------------------------------------
(* execute_activity(run_gates) in EpicWorkflow._verify *)

GatesReturn ==
    /\ returned = 0
    /\ \E x \in Runs : grun[x].at = "done" /\ ~grun[x].lapsed /\ returned' = x
    /\ UNCHANGED <<boundary, grun, slot, alive, log, shelf, gdeaths>>

GatesRaise ==
    /\ returned = 0 /\ \A x \in Runs : Gone(x)
    /\ returned' = -1
    /\ UNCHANGED <<boundary, grun, slot, alive, log, shelf, gdeaths>>

GateThread(x) == AcquireSlot(x) \/ GateEnds(x) \/ CompareTree(x) \/ Publish(x)

\* What a thread still does once the workflow has its answer is not followed.
GatesNext ==
    /\ returned = 0
    /\ \/ \E x \in Runs : StartGates(x) \/ GateThread(x) \/ Lapse(x)
       \/ \E p \in GateProcs : Write(p)
       \/ GateWorkerDies \/ GatesReturn \/ GatesRaise

\* Temporal starts what is due and carries what is done; a thread goes on; a
\* wait that does not end lapses.
GatesFair(x) == StartGates(x) \/ GateThread(x) \/ Lapse(x) \/ GatesReturn \/ GatesRaise

GatesSpec == GatesInit /\ [][GatesNext]_gvars /\ \A x \in Runs : WF_gvars(GatesFair(x))

-----------------------------------------------------------------------------
(* Properties *)

\* "every path is attributed to exactly one gate": in the sandbox, and while no
\* execution was given up with its thread running, a gate is blamed for nothing
\* but its own writes.
BlameIsOwn ==
    boundary = "bwrap" /\ (\A x \in Runs : ~grun[x].lapsed)
        => \A x \in Runs : grun[x].at = "after" /\ grun[x].before # NoSnapshot
                => \A w \in change(x) : w.by = <<x, grun[x].gate>>

\* A gate that passes has written nothing it did not declare by the time it is
\* looked at, whoever else was writing.
PassIsClean ==
    \A x \in Runs : grun[x].at = "after" /\ Passes(x, Len(log)) =>
        \A i \in 1..Len(log) : log[i].by = <<x, grun[x].gate>> => log[i].path = "artifact"

\* The digest the workflow gets is of bytes that are on disk, with overlapping
\* executions and a death between the manifest and the bytes.
ArtifactOnDisk ==
    returned \in Runs => grun[returned].stored \in {0} \cup shelf.blobs

\* The gates are answered for, however long the neighbours hold the slot.
GatesAnswer == returned = 0 ~> returned # 0
=============================================================================
