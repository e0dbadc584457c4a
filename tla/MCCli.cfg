SPECIFICATION Spec
CONSTANTS
  MaxSignals = 3
INVARIANTS
  TypeOK
  ZeroExitTrue
  CancellationExit
  EffectsTruthful
  HandlersGivenBack
PROPERTIES
  Ends
