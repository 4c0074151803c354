\* Main.java: the crons of mockup, no caller of the store.
CONSTANTS
    c1 = c1
    c2 = c2
    c3 = c3
    w1 = w1
    w2 = w2
    k1 = k1
    k2 = k2
    Ids = {c1, c2}
    MainIds <- TwoIds
    Workers = {w1, w2}
    NoThread = NoThread
    QueueSize = 2
    Triggers = {2}
    EveryMinute = 2
    BadTriggers = {}
    NextRunTime <- Periodic
    Clients = {}
    ClientOps = {}
    MaxTime = 5
    MaxEdits = 0
SPECIFICATION FairSpec
INVARIANTS OneExecutor QueueDistinct NeverEarly AtMostThrice
PROPERTIES KeepsSchedule MeetsSchedule
