\* Clients that create, edit and delete crons while the scheduler runs.
CONSTANTS
    c1 = c1
    c2 = c2
    c3 = c3
    w1 = w1
    w2 = w2
    k1 = k1
    k2 = k2
    Ids = {c1, c2}
    MainIds <- OneId
    Workers = {w1}
    NoThread = NoThread
    QueueSize = 2
    Triggers = {0, 1}
    EveryMinute = 1
    BadTriggers = {0}
    NextRunTime <- Periodic
    Clients = {k1, k2}
    ClientOps = {"create", "update", "delete"}
    MaxTime = 2
    MaxEdits = 2
SPECIFICATION FairSpec
INVARIANTS TypeOK PollFindsJob
PROPERTIES NoResurrection OverdueMovesOn
CHECK_DEADLOCK FALSE
