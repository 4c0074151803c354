\* A process that fetches again and again; the caches serve and expire.
SPECIFICATION Spec
CONSTANTS
    Sequence <- TwoGroups
    Sessions = {s1, s2}
    Resident = TRUE
    FreshFor = 2
    MaxTime = 3
    MaxFetches = 2
    MaxFaults = 2
INVARIANTS
    CachesAreSound
    ShownIsLatest
    NoForgottenSession
    LeaksAreKnown
CHECK_DEADLOCK FALSE
