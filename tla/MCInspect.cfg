SPECIFICATION FairSpec
CONSTANTS
  Savers = {}
  Inspectors = {i1}
  Dirs = {d1}
  Sources = {f1, f2}
  None = None
  Foreign = Foreign
  Sizes = {1, 2}
  OutBlocks = 2
  CallbackResults = {"false", "true", "bad"}
  CodecFailures = {"INVALID_JSON"}
  MaxInterference = 2
INVARIANTS
  SnapshotConsistent
  StaleNeverUsed
PROPERTIES
  KeepsPromise
