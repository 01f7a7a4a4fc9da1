\* One restore of a PostgreSQL database.
CONSTANTS
    Runs <- TwoRuns
    Remotes <- Backups
    Types = {"postgres"}
    Files = {"a", "b"}
    Live = Live  Bad = Bad  None = None
    MaxRestores = 1
SPECIFICATION Spec
INVARIANT SuccessReplaces
CHECK_DEADLOCK FALSE
