\* One job of each kind that ends in its own way, two attempts of the recording,
\* two Workers of which either may be stale.
CONSTANTS
    r1 = r1
    r2 = r2
    r3 = r3
    r4 = r4
    w1 = w1
    w2 = w2
    None = None
    Job = {r1, r2, r3, r4}
    Owner = {w1, w2}
    TargetType <- TableType
    MaxAttempts <- TableAttempts
    LeaseDuration = 2
    RetryDelays = {0, 1}
    Delay = 1
    MaxTime = 5
SPECIFICATION Spec
SYMMETRY OwnerSymmetry
CONSTRAINT OneTouched
INVARIANTS RowConstraints FencesAreUnique
PROPERTIES CancelledNeverSucceeds OnlyHolderFinishes ImplementsLifecycle
CHECK_DEADLOCK FALSE
