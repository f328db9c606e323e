\* Two logins of one account on Windows.
CONSTANTS
    p1 = p1
    p2 = p2
    c0 = c0
    b = b
    None = None
    Job = {p1, p2}
    Owner = {p1, p2}
    TargetType <- LoginType
    MaxAttempts <- Once
    LeaseDuration = 1
    RetryDelays = {1}
    Delay = 0
    MaxTime = 1
    KillOnClose = TRUE
    MaxDowns = 1
    Ref = {c0, b}
    Captures <- Either
    MaxFailures = 1
    MaxChanges = 2
SPECIFICATION LoginSpec
SYMMETRY LoginSymmetry
INVARIANTS AdoptedIsSaved 
PROPERTY AdoptedIsKept
CHECK_DEADLOCK FALSE
