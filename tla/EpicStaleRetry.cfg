\* A RETRY that no page offered grants a recovery cycle.
SPECIFICATION Spec
CONSTANTS
  N = 2
  Plans <- PairPlans
INVARIANTS
  RecoveryOnBudget
CHECK_DEADLOCK FALSE
