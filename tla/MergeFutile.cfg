\* A recovery puts back the very tree the queue turned down, unasked.
SPECIFICATION QueueSpec
CONSTANTS
  Works = {w1, w2}
  MaxTrunk = 1
  MaxProposals = 1
  max_recovery_cycles = 1
  max_free_rebases = 1
INVARIANT FutileTreeIsPaged
CHECK_DEADLOCK FALSE
