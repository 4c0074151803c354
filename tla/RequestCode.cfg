\* Any tool prints a code, any tool is given one, whatever memory holds.
SPECIFICATION Spec
CONSTANTS
    Uuids <- AnyUuids
    Moments <- AnyMoments
    Randoms <- AnyRandoms
    Garbage <- AnyGarbage
    Leftovers <- AnyLeftovers
    Keystream <- Mixed
    Edited <- Typed
INVARIANTS
    CodesOpen
    TellsUuidAndTime
    OtherVersionIsRefused
CHECK_DEADLOCK FALSE
