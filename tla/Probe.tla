--------------------------------- MODULE Probe -------------------------------
(***************************************************************************)
(* The stack's probe (factory/supervision/probe.py) and what it says       *)
(* (factory/supervision/alert.py).  A timer starts a process that reads    *)
(* the units, the memory, the ports and the process table, sweeps the      *)
(* versions, compares its verdict with the last one on disk, says what     *)
(* changed and writes the verdict down.  One runs at a time; it may die    *)
(* between any two steps, also in the middle of writing.                   *)
(***************************************************************************)
EXTENDS Naturals, FiniteSets

CONSTANTS
    Units,         \* what the probe watches
    MaxTime        \* bound: ticks of the clock

ASSUME ProbeAssumption == MaxTime \in Nat

VARIABLES
    clock,
    down,          \* the units that are not active, or the ports that do not answer
    orphans,       \* test servers nobody owns any more
    stage,         \* where the running probe is, or "idle"
    verdict,       \* what it found: the subject, or "healthy"
    read,          \* what it read of the last verdict
    disk,          \* the state file: a verdict, or "none" where there is none to read
    told,          \* history: what a transport was last handed, and carried
    lost           \* history: a verdict that was said was not written

pvars == <<clock, down, orphans, stage, verdict, read, disk, told, lost>>

HEARTBEAT == 2       \* heartbeat_every_s, in ticks
HEALTHY == "healthy"
DEGRADED == "degraded"
Unknown == "none"
State == [status : {HEALTHY, DEGRADED, Unknown}, heartbeat_at : 0..MaxTime]
NoState == [status |-> Unknown, heartbeat_at |-> 0]
Said == [status : {HEALTHY, DEGRADED, Unknown}, carried : BOOLEAN, at : 0..MaxTime]

ProbeTypeOK ==
    /\ clock \in 0..MaxTime /\ down \subseteq Units /\ orphans \in BOOLEAN
    /\ stage \in {"idle", "decide", "deliver", "write"}
    /\ verdict \in {HEALTHY, DEGRADED} /\ {read, disk} \subseteq State
    /\ told \in Said /\ lost \in BOOLEAN

ProbeInit ==
    /\ clock = 0 /\ down \in SUBSET Units /\ orphans = FALSE
    /\ stage = "idle" /\ verdict = HEALTHY /\ read = NoState /\ disk = NoState
    /\ told = [status |-> Unknown, carried |-> TRUE, at |-> 0] /\ lost = FALSE

stack == <<down, orphans>>

Tick ==
    /\ stage = "idle" /\ clock < MaxTime /\ clock' = clock + 1
    /\ down' \in SUBSET Units /\ orphans' \in BOOLEAN
    /\ UNCHANGED <<stage, verdict, read, disk, told, lost>>

\* Every unit, and enough left over to run on.  Orphans are killed here,
\* whatever is said of them; one may outlive it.
assess ==
    /\ stage = "idle" /\ stage' = "decide"
    /\ verdict' \in (IF down # {} THEN {DEGRADED} ELSE IF orphans THEN {HEALTHY, DEGRADED} ELSE {HEALTHY})
    /\ orphans' \in {FALSE, orphans}
    /\ UNCHANGED <<clock, down, read, disk, told, lost>>

AlertDue(state) ==
    \/ verdict = DEGRADED /\ state.status # DEGRADED
    \/ verdict = HEALTHY /\ state.status = DEGRADED
Heartbeat(state) ==
    verdict = HEALTHY /\ state.status = HEALTHY /\ clock - state.heartbeat_at >= HEARTBEAT

decide_alert ==
    /\ stage = "decide" /\ read' = disk
    /\ stage' = IF AlertDue(disk) \/ Heartbeat(disk) THEN "deliver" ELSE "write"
    /\ UNCHANGED <<clock, stack, verdict, disk, told, lost>>

\* A transport that cannot be had, raises, or says it did not deliver, is an
\* outcome like another.
deliver_alert ==
    /\ stage = "deliver" /\ stage' = "write"
    /\ \E carried \in BOOLEAN : told' = [status |-> verdict, carried |-> carried, at |-> clock]
    /\ UNCHANGED <<clock, stack, verdict, read, disk, lost>>

Written == [status |-> verdict,
            heartbeat_at |-> IF Heartbeat(read) \/ (verdict = HEALTHY /\ read.status # HEALTHY)
                             THEN clock ELSE read.heartbeat_at]

\* The verdict is on record whether it was carried or not.
write_state ==
    /\ stage = "write" /\ stage' = "idle" /\ disk' = Written
    /\ UNCHANGED <<clock, stack, verdict, read, told, lost>>

\* Variant: the verdict is on record before it is said.
ProbeDies_written ==
    /\ stage # "idle" /\ stage' = "idle" /\ UNCHANGED lost
    /\ disk' \in {disk, IF stage = "deliver" THEN Written ELSE disk}
    /\ UNCHANGED <<clock, stack, verdict, read, told>>

\* In the middle of writing, what is there is a file nobody can read.
ProbeDies ==
    /\ stage # "idle" /\ stage' = "idle"
    /\ disk' \in {disk, IF stage = "write" THEN NoState ELSE disk}
    /\ lost' = (lost \/ stage = "write")
    /\ UNCHANGED <<clock, stack, verdict, read, told>>

ProbeNext == Tick \/ assess \/ decide_alert \/ deliver_alert \/ write_state \/ ProbeDies
ProbeSpec == ProbeInit /\ [][ProbeNext]_pvars

-----------------------------------------------------------------------------
(* Properties *)

\* What is on record was said: a verdict of the stack's state is not written
\* down before the operator was told, or told in vain, of the last change.  A
\* verdict that was said and lost takes the word of the recovery with it.
RecordedIsSaid ==
    /\ disk.status = DEGRADED /\ stage # "write" /\ ~lost => told.status = DEGRADED
    /\ disk.status = HEALTHY /\ stage # "write" /\ ~lost => told.status # DEGRADED
=============================================================================
