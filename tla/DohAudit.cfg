\* Two messages with up to three records of every form, whole or broken off.
SPECIFICATION FairSpec
CONSTANTS
    Tags <- AuditTags
    KeyTag = "auditIndex"
    MaxValue = 2
    MaxCells = 4
    Records <- AllRecords
    MaxRecords = 3
    MaxMessages = 2
INVARIANTS
    MemoryIsSound
    AllRecordsListed
    CrashesForAReason
PROPERTIES
    KeepsLog
    PopulateReturns
CHECK_DEADLOCK FALSE
