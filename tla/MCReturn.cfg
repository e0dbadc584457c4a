SPECIFICATION FairSpec
CONSTANTS
  Savers = {s1}
  Inspectors = {}
  Dirs = {d1}
  Sources = {f1}
  None = None
  Foreign = Foreign
  Sizes = {1, 2}
  OutBlocks = 2
  CallbackResults = {"false", "true", "bad"}
  CodecFailures = {}
  MaxInterference = 2
PROPERTIES
  KeepsPromise
  Terminates
