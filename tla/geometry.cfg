CONSTANTS
  Executors = {e1, e2}
  Scopes = {"a", "b"}
  Geometries = {uboone, pdhd}
  NoWires = NoWires
  NullStore = NullStore
  Nobody = Nobody
SPECIFICATION Spec
INVARIANTS TypeOK RunsOnOwnGeometry
PROPERTIES InitializationsEnd
CHECK_DEADLOCK FALSE
