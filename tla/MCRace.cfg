SPECIFICATION Spec
CONSTANTS
  Savers = {s1, s2}
  Inspectors = {}
  Dirs = {d1}
  Sources = {f1}
  None = None
  Foreign = Foreign
  Sizes = {1}
  OutBlocks = 1
  CallbackResults = {"false"}
  CodecFailures = {}
  MaxInterference = 0
SYMMETRY SaverSymmetry
INVARIANTS
  OneWinner
  TruthfulReport
  TakenByAnother
