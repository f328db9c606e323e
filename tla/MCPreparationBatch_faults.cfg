\* One batch over two sources with one of every fault; a second request under
\* the same or another key.
CONSTANTS
    b1 = b1
    b2 = b2
    s1 = s1
    s2 = s2
    c1 = c1
    c2 = c2
    None = None
    Batch = {b1, b2}
    Source = {s1, s2}
    Caller = {c1, c2}
    Parallel = 1
    MaxCalls = 2
    MaxTrouble = 1
SPECIFICATION BatchSpec
CONSTRAINT BatchBound
INVARIANTS Accounted CancelledIsQuiet OneActive
PROPERTIES OnlyApproved BatchesEnd
CHECK_DEADLOCK FALSE
