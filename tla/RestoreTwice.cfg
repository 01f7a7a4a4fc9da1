\* Two restores of every kind of job, with every failure and interrupt.
CONSTANTS
    Runs <- TwoRuns
    Remotes <- Backups
    Types = {"standard", "hostdir", "n8n", "redis", "postgres", "mysql", "mongodb",
             "rabbitmq"}
    Files = {"a", "b"}
    Live = Live  Bad = Bad  None = None
    MaxRestores = 2
SPECIFICATION Spec
INVARIANTS TypeOK RefusalIsHarmless NotWrittenLive VerifiedIsExact RunStateIsTold
CHECK_DEADLOCK FALSE
