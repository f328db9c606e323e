\* A recording on Windows, under fairness.
CONSTANTS
    j1 = j1
    j2 = j2
    j3 = j3
    w1 = w1
    w2 = w2
    w3 = w3
    None = None
    Job = {j1}
    Owner = {w1, w2}
    TargetType <- RecordingType
    MaxAttempts <- Twice
    LeaseDuration = 2
    RetryDelays = {0}
    Delay = 0
    MaxTime = 4
    KillOnClose = TRUE
    MaxDowns = 1
SPECIFICATION FairSupervisorSpec
INVARIANTS OneTreePerJob
PROPERTIES NoHangingRun TrailNamesSource ImplementsControl
CHECK_DEADLOCK FALSE
