SPECIFICATION Spec
CONSTANTS
    None = none
    Refused = refused
    Providers = {"github", "gitlab"}
    RepositoryIds = {"1", "2"}
    Lexemes = {"7", "8", "n"}
    Decimals = {"7", "8"}
    Aliases = {"Org/Repo", "org/repo", "org repo"}
    LegacyAliases = {"Org/Repo", "org/repo"}
    Lower <- MCLower
    Digests = {"d1", "d2"}
    Algorithms = {"sha1", "sha256"}
    Paths = {"p1", "p2"}
    RefNames = {"r"}
    EvidenceRecords = {"e"}
    CarriedIdentities <- MCCarriedIdentities
    MaxCandidates = 2
    MaxPaths = 2
    MaxPosition = 2
INVARIANTS MappingReversible StoredIdentityKeepsType PathsResolve
CHECK_DEADLOCK FALSE
