\* A PAUSE_EPIC press on the launch-failure page.
SPECIFICATION Spec
CONSTANTS
  Persona = {"builder", "closer", "debugger"}
  Debugger = "debugger"
  NoPersona = "none"
  Configs <- SmallConfigs
  Bounds <- SmallBounds
  NodePersona = "builder"
  Snapshot = {"builder", "closer", "debugger"}
  Owned = {}
INVARIANTS
  PausePressParks
CHECK_DEADLOCK FALSE
