\* Two nodes on one credential, two builds on the host, two probed units; every
\* other component with the bounds MCWorkers gives it.
SPECIFICATION WorkersSpec
CONSTANTS
  Users = {n1, n2}
  Declarations = {1, 2}
  MaxLeases = 3
  MaxOwnerTries = 2
  MaxExec = 2
  MaxWait = 1
  MaxDeaths = 1
  Tolerance = 0
  MaxCommits = 3
  B = 2
  MaxRounds = 2
  MaxOpen = 1
  MaxBoots = 2
  Units = {u1, u2}
  MaxTime = 3
  MaxRuns = 2
  GateCount = 2
  MaxWrites = 1
  MaxGateDeaths = 1
  MaxJudgeRetries = 1
  MaxRecordTries = 2
INVARIANTS
  WorkerTypeOK AgentFenced WorkIsKept VerdictIsEarned RecordIsTrue WorkHasItsWorker
PROPERTIES
  NothingIsOverwritten
CHECK_DEADLOCK FALSE
