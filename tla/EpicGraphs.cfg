\* Three nodes, their edges and slots, and what must eventually happen; the
\* epic stops when it ends.
SPECIFICATION FairSpec
CONSTANTS
  N = 3
  Plans <- TrioPlans
INVARIANTS
  BuiltOnItsEdges KeysWithinCap CompletedIsQuiet
PROPERTIES
  LockOutBehindDead KillEnds EpicEnds
CHECK_DEADLOCK FALSE
