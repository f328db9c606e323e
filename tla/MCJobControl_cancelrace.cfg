\* A cancellation between the read and the UPDATE of a retryable failure.
CONSTANTS
    r1 = r1
    r2 = r2
    r3 = r3
    r4 = r4
    w1 = w1
    w2 = w2
    None = None
    Job = {r1}
    Owner = {w1, w2}
    TargetType <- RecordingType
    MaxAttempts <- RecordingAttempts
    LeaseDuration = 2
    RetryDelays = {0, 1}
    Delay = 1
    MaxTime = 5
SPECIFICATION Spec
SYMMETRY OwnerSymmetry
INVARIANT NoCancelledRetry
CHECK_DEADLOCK FALSE
