\* Lock files age and are reclaimed: three invocations on a Unix host.
CONSTANTS
    p1 = p1  p2 = p2  p3 = p3  p4 = p4
    Proc <- ThreeInvocations
    NoFile = NoFile
    MayAge = TRUE
    PidProbe = TRUE
SPECIFICATION FairSpec
INVARIANTS ExclusionUnlessRobbed NoTheftInPlainSight
PROPERTY AbandonedLockReclaimed
CHECK_DEADLOCK FALSE
