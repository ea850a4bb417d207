\* The whole ladder of one node; the node stops when it ends or lands.
SPECIFICATION Spec
CONSTANTS
  Persona = {"builder", "closer", "debugger"}
  Debugger = "debugger"
  NoPersona = "none"
  Configs <- MCConfigs
  Bounds <- MCBounds
  NodePersona = "builder"
  Snapshot = {"builder", "closer", "debugger"}
  Owned = {"debugger"}
INVARIANTS
  TypeOK StaysOnBudget PageOffersWork BracketsClose ParkReleased PassIsLast
PROPERTIES
  EndingAnswerIsFinal AttemptLoopHolds
CHECK_DEADLOCK FALSE
