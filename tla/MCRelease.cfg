SPECIFICATION Spec
CONSTANTS
  Savers = {s1}
  Inspectors = {}
  Dirs = {d1}
  Sources = {f1}
  None = None
  Foreign = Foreign
  Sizes = {1}
  OutBlocks = 1
  CallbackResults = {"false", "true", "bad"}
  CodecFailures = {"INVALID_JSON"}
  MaxInterference = 0
INVARIANTS
  AllReleased
