\* Checks repeated under one key beside recordings, and a full queue.
CONSTANTS
    c1 = c1
    c2 = c2
    c3 = c3
    r1 = r1
    r2 = r2
    None = None
    Submission = {c1, c2, c3, r1, r2}
    Kind <- KindOf
    Project <- OneProject
    Key <- KeyOf
    Wish <- WishOf
    Home <- HomeOf
    OperationLimit <- OneEach
    ProjectLimit = 2
    GlobalLimit = 2
    MaxUnclear <- CheckUnclear
SPECIFICATION Spec
SYMMETRY RecordingSymmetry
INVARIANTS RequestsKept NothingLeftBehind AnswersAgree
PROPERTIES AcceptedIsTold NotOversold
CHECK_DEADLOCK FALSE
