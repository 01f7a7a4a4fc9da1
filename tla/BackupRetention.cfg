\* Three runs, settings that change between them, and every failure.
CONSTANTS
    MaxRuns = 3
    Settings <- Varied
SPECIFICATION Spec
INVARIANTS TypeOK StatusTellsAll
PROPERTIES KeepsLocalCopies KeepsRemoteCopies RemoteFloor
CHECK_DEADLOCK FALSE
