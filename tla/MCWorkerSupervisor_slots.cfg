\* Two preflights and a trial compete for the two slots, under fairness.
CONSTANTS
    j1 = j1
    j2 = j2
    j3 = j3
    w1 = w1
    w2 = w2
    w3 = w3
    None = None
    Job = {j1, j2, j3}
    Owner = {w1, w2}
    TargetType <- MixedType
    MaxAttempts <- Once
    LeaseDuration = 1
    RetryDelays = {0}
    Delay = 0
    MaxTime = 1
    KillOnClose = TRUE
    MaxDowns = 1
SPECIFICATION FairSupervisorSpec
INVARIANTS ParallelOnlyPreflights
PROPERTIES SlotsReleased
CHECK_DEADLOCK FALSE
