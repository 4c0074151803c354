\* Two writers of one message each, two readers of one or of all of two files.
SPECIFICATION Spec
CONSTANTS
    r1 = r1
    r2 = r2
    w1 = w1
    w2 = w2
    g1 = g1
    g2 = g2
    Readers = {r1, r2}
    Writers = {w1, w2}
    Guids = {g1, g2}
    All = All
    Nobody = Nobody
    Granularity = 2
    MaxWrites = 1
    MaxTime = 3
SYMMETRY Symmetry
INVARIANTS
    FilesAreLogs
    ReadsAStretch
    MissesOnlyTheYoung
    FailsOnlyAtCreation
