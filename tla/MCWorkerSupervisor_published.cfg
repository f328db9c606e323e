\* A check published half way and a cancellation.
CONSTANTS
    j1 = j1
    j2 = j2
    j3 = j3
    w1 = w1
    w2 = w2
    w3 = w3
    None = None
    Job = {j1}
    Owner = {w1}
    TargetType <- RunType
    MaxAttempts <- Once
    LeaseDuration = 2
    RetryDelays = {0}
    Delay = 0
    MaxTime = 3
    KillOnClose = TRUE
    MaxDowns = 1
SPECIFICATION SupervisorSpec
INVARIANT PublishedNotFailed
CHECK_DEADLOCK FALSE
