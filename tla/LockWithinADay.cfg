\* No lock file reaches staleLockAge: four invocations, crashes, PID reuse.
CONSTANTS
    p1 = p1  p2 = p2  p3 = p3  p4 = p4
    Proc <- FourInvocations
    NoFile = NoFile
    MayAge = FALSE
    PidProbe = TRUE
SPECIFICATION Spec
INVARIANTS TypeOK MutualExclusion
PROPERTY ImplementsExclusiveLock
CHECK_DEADLOCK FALSE
