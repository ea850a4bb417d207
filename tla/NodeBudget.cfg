\* An expired question overruns the ladder's budget.
SPECIFICATION Spec
CONSTANTS
  Persona = {"builder", "closer", "debugger"}
  Debugger = "debugger"
  NoPersona = "none"
  Configs <- MCConfigs
  Bounds <- MCBounds
  NodePersona = "builder"
  Snapshot = {"builder", "closer", "debugger"}
  Owned = {}
INVARIANTS
  RunsOnLadderBudget
CHECK_DEADLOCK FALSE
