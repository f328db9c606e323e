\* One login with every fault on POSIX.
CONSTANTS
    p1 = p1
    p2 = p2
    c0 = c0
    b = b
    None = None
    Job = {p1}
    Owner = {p1}
    TargetType <- LoginType
    MaxAttempts <- Once
    LeaseDuration = 2
    RetryDelays = {1}
    Delay = 0
    MaxTime = 3
    KillOnClose = FALSE
    MaxDowns = 1
    Ref = {c0, b}
    Captures <- Both
    MaxFailures = 1
    MaxChanges = 1
SPECIFICATION LoginSpec
SYMMETRY RefSymmetry
INVARIANTS NothingUnrecorded OnlyDeadSettled
PROPERTIES CancelledAdoptsNothing ImplementsSupervisor
CHECK_DEADLOCK FALSE
