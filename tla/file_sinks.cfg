CONSTANTS
  Modules = {m1, m2}
  Configs <- MCFileSinks
  NoLabel = NoLabel
  DefaultScope = "wcphlex"
  None = None
  Feeds = {}
SPECIFICATION Spec
INVARIANTS NoCollision
CHECK_DEADLOCK FALSE
