\* A small calendar, a threshold of two years, two calls of next on one parser.
SPECIFICATION Spec
CONSTANTS
    MinutesPerHour = 2
    HoursPerDay = 3
    DaysPerWeek = 3
    MonthsPerYear = 2
    MonthLength <- Length
    MaxYear = 8
    YearThreshold = 2
    MaxCalls = 2
    Triggers <- AllTriggers
    Times <- Instants
INVARIANTS
    AnswersAreRight
    SearchAdvances
CHECK_DEADLOCK FALSE
