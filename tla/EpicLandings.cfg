\* Two nodes and every path of a landing, with stale refs, stale presses,
\* question parks and activities that fail for good; the epic stops when it ends.
SPECIFICATION Spec
CONSTANTS
  N = 2
  Plans <- PairPlans
INVARIANTS
  TypeOK EnqueuedIsWatched RecoveryBounded EndedAccounts
PROPERTIES
  KilledStaysDown AttemptLoopsHold
CHECK_DEADLOCK FALSE
