\* Two demonstrations of one action, the second a candidate, and a supplement of the first.
CONSTANTS
    demo = demo
    other = other
    supplement = supplement
    c1 = c1
    c2 = c2
    o1 = o1
    first = first
    None = None
    Recording = {demo, other, supplement}
    Target = {demo, other}
    Parent <- OfDemo
    Slot <- AsEvidence
    Candidate = {other}
    Choice = {first}
    Caller = {c1, c2}
    Operation = {o1}
    MaxRevision = 2
    MaxSource = 1
    MaxOther = 1
    MaxCalls = 3
SPECIFICATION Spec
INVARIANTS PublishedFirst KeptReviews
PROPERTY BoundWhenCurrent
CHECK_DEADLOCK FALSE
