\* Two messages with up to two alerts, whole or broken off.
SPECIFICATION FairSpec
CONSTANTS
    Tags <- AlertTags
    KeyTag = "logID"
    MaxValue = 3
    MaxCells = 4
    Alerts <- SomeAlerts
    MaxAlerts = 2
    MaxMessages = 2
INVARIANTS
    MemoryIsSound
    AllLogsListed
    CrashesForAReason
PROPERTIES
    FillsLog
CHECK_DEADLOCK FALSE
