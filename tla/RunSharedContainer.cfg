\* Two volumes of one n8n container, two jobs at a time.
CONSTANTS
    JobList <- OneContainer
    Parallel = 2
    Faults = FALSE
SPECIFICATION Spec
INVARIANT NotTarredLive
CHECK_DEADLOCK FALSE
