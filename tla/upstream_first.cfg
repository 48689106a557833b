CONSTANTS
  Modules = {m1, m2}
  Configs <- MCPipeline
  NoLabel = NoLabel
  DefaultScope = "wcphlex"
  None = None
  Feeds <- MCFeeds
SPECIFICATION Spec
INVARIANTS UpstreamFirst
CHECK_DEADLOCK FALSE
