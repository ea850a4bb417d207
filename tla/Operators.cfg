\* One component at a time, with the bounds MCOperators gives it; each stops
\* when it has ended.
SPECIFICATION OperatorsSpec
CONSTANTS
  None = None
  Torn = Torn
  Replies = {m1, m2}
  Attempts = 2
  S = 3
  DependsOn <- MCDeps
  States <- MCStates
  Caps = {1, 2}
  MaxChains = 1
  MaxTurns = 2
  MaxWord = 2
  Nodes = {"n1", "n2"}
  Commands = {"c1", "c2"}
  MaxVerbs = 2
INVARIANTS
  OperatorTypeOK AnswerOnRecord StartsOnLandedGround
  InstallationIsOwned CommandsLeaveOneTruth CheckedHolds
PROPERTIES
  TriesOnce SparesTheWorking
CHECK_DEADLOCK FALSE
