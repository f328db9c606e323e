\* Two loads of one project, three launches, two sessions.
CONSTANTS
    l1 = l1
    l2 = l2
    w1 = w1
    w2 = w2
    w3 = w3
    p1 = p1
    None = None
    Job = {l1, l2}
    Owner = {w1, w2, w3}
    TargetType <- LoadType
    MaxAttempts <- Once
    LeaseDuration = 1
    RetryDelays = {1}
    Delay = 0
    MaxTime = 2
    Project = {p1}
    ProjectOf <- OneProject
    MaxSessions = 2
    MaxLost = 1
SPECIFICATION RuntimeSpec
INVARIANTS OneRuntimePerProject StoppedStaysStopped StopNeedsNoWrite ArchivedStaysEmpty
PROPERTIES RuntimeImplementsControl LoadsEnd
CHECK_DEADLOCK FALSE
