\* An epic that completes over nodes nobody ended.
SPECIFICATION Spec
CONSTANTS
  N = 2
  Plans <- PairPlans
INVARIANTS
  CompletedIsTerminal
CHECK_DEADLOCK FALSE
