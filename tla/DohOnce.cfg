\* The program as main runs it: one fetch of all six groups.
SPECIFICATION FairSpec
CONSTANTS
    Sequence <- AllGroups
    Sessions = {s1, s2}
    Resident = FALSE
    FreshFor = 1
    MaxTime = 0
    MaxFetches = 1
    MaxFaults = 1
INVARIANTS
    SuccessAskedAll
PROPERTIES
    FetchEnds
CHECK_DEADLOCK FALSE
