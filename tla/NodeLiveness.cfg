\* A kill against every wait, and the windows of pages and questions; the node
\* stops when it ends or lands.
SPECIFICATION FairSpec
CONSTANTS
  Persona = {"builder", "closer", "debugger"}
  Debugger = "debugger"
  NoPersona = "none"
  Configs <- SmallConfigs
  Bounds <- SmallBounds
  NodePersona = "builder"
  Snapshot = {"builder", "closer", "debugger"}
  Owned = {"debugger"}
PROPERTIES
  KillStops NodeEnds
CHECK_DEADLOCK FALSE
