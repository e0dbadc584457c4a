SPECIFICATION Spec
CONSTANTS
    None = none
    ConditionKeys = {"c"}
    MaterialKeys = {"m"}
    OpinionKeys = {"o", "p"}
    Statements = {"a", "b"}
    Snapshots = {"s", "t"}
    GitHubSnapshots = {"s"}
    Sizes <- MCSizes
    ReviewTexts <- MCReviewTexts
    AssertionTexts <- MCAssertionTexts
    MaxEntries = 2
    MaxOpen = 37
INVARIANTS AdmittedIsSavable ReviewDocumentFits OneTextPerKey ScanAgrees
CHECK_DEADLOCK FALSE
