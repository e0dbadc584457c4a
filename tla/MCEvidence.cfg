SPECIFICATION Spec
CONSTANTS
    None = none
    none = none
    d1 = d1
    d2 = d2
    s1 = s1
    s2 = s2
    RequestIds <- MCRequestIds
    Times = {0, 1}
    Keys = {"k1"}
    Requirements = {"q1", "q2"}
    Records = {d1, d2}
    Snapshots = {s1, s2}
    Publications <- MCPublications
    MaxEntries = 3
    MaxDesk = 2
INVARIANTS OneHomePerRequest RunChronology CompletenessEarned ProjectionExact
CHECK_DEADLOCK FALSE
