\* Docker never fails, but the command is interrupted.
CONSTANTS
    JobList <- TwoJobs
    Parallel = 2
    Faults = FALSE
SPECIFICATION Spec
INVARIANT AlwaysRestarted
CHECK_DEADLOCK FALSE
