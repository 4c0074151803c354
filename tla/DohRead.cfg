\* Every message of up to two header and four body bytes, in every split into reads.
SPECIFICATION FairSpec
CONSTANTS
    MaxHeader = 2
    MaxBody = 4
    MaxRecord = 6
    BufferSize = 9
INVARIANTS
    FileIsInOrder
    LongReadsAreEntire
PROPERTIES
    LoopEnds
CHECK_DEADLOCK FALSE
