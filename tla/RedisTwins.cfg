\* Two backups of one Redis at the same time, into one local directory.
CONSTANTS
    Goroutine = {g1, g2}
    Start = 1
    LastSecond = 2
    KeepLocal = 2
    Earlier <- OlderCopy
    MaxPolls = 2
    MaxWrites = 1
SPECIFICATION FairSpec
INVARIANTS TypeOK SnapshotIsFresh CopySurvives
PROPERTIES Termination
CHECK_DEADLOCK FALSE
