SPECIFICATION Spec
CONSTANTS
    None = None
    Faults = {"f1", "f2"}
    Universe <- MCUniverse
    Patterns <- MCPatterns
    Invariants <- MCInvariants
    EvidenceRecords = {"d1", "d2"}
    MaxMembers = 2
    MaxTips = 3
    MaxPatternCase = 3
INVARIANTS OneFault OneValuePerName EvidenceStaysAttached PatternSpeaksOnce
CHECK_DEADLOCK FALSE
