CONSTANTS
  Modules = {m1, m2}
  Configs <- MCConfigs
  NoLabel = NoLabel
  DefaultScope = "wcphlex"
  None = None
  Feeds = {}
SPECIFICATION Spec
INVARIANTS TypeOK PortsAreOwn SettingsHold RunsWhole RightJobRuns
PROPERTIES MainsFinalized
CHECK_DEADLOCK FALSE
