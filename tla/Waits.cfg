\* One page with two presses, one question with two replies, two executions of
\* an attempt and a worker's death; each stops when it has ended.
SPECIFICATION WaitsSpec
CONSTANTS
  None = None
  Presses = {1, 2}
  EscalationChoice = {"RETRY", "KILL", "PAUSE_EPIC"}
  Offers <- MCOffers
  Defaults <- MCDefaults
  Fallback = "KILL"
  MaxAttempts = 2
  MaxCrashes = 1
  Replies = {m1, m2}
  Attempts = 2
  MaxExec = 2
  MaxWait = 1
  MaxDeaths = 1
INVARIANTS
  ToldIsObeyed
PROPERTIES
  WaitsEnd OneAnswerHolds
CHECK_DEADLOCK FALSE
