\* Do the lists of the fields keep to the ranges of the trigger?
SPECIFICATION Spec
CONSTANTS
    MinutesPerHour = 2
    HoursPerDay = 3
    DaysPerWeek = 3
    MonthsPerYear = 2
    MonthLength <- Length
    MaxYear = 8
    YearThreshold = 2
    MaxCalls = 2
    Triggers <- AllTriggers
    Times <- Instants
INVARIANT ListsKeepToRanges
CHECK_DEADLOCK FALSE
