\* Seven jobs, two at a time, each with a container of its own.
CONSTANTS
    JobList <- SevenJobs
    Parallel = 2
    Faults = TRUE
SPECIFICATION FairSpec
INVARIANTS TypeOK BoundedParallelism NotTarredLive DownIsReported WholeDefinitions
    NoDuplicateFolders ReportIsTrue
PROPERTIES Termination ServiceReturns
CHECK_DEADLOCK FALSE
