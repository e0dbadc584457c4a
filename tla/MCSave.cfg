SPECIFICATION Spec
CONSTANTS
  Savers = {s1}
  Inspectors = {}
  Dirs = {d1, d2}
  Sources = {f1}
  None = None
  Foreign = Foreign
  Sizes = {2}
  OutBlocks = 2
  CallbackResults = {"false", "true"}
  CodecFailures = {}
  MaxInterference = 2
SYMMETRY InodeSymmetry
INVARIANTS
  TypeOK
  SnapshotConsistent
  PublishedComplete
  SuccessMeansSaved
  StaleNeverUsed
  CancellationSettled
  SyncFailureWins
PROPERTIES
  DurableOnceSynced
