\* The service and the command line, two plans over one file and their receipts.
CONSTANTS
    serve = serve
    cli = cli
    a = a
    p1 = p1
    p2 = p2
    None = None
    Process = {serve, cli}
    Service = {serve}
    Item = {a}
    Plan = {p1, p2}
    Remembered = 1
    MaxVersion = 1
    MaxFaults = 1
    MaxStarts = 2
SPECIFICATION Spec
SYMMETRY PlanSymmetry
INVARIANTS ReceiptTellsAll
PROPERTIES NeverCarriedOn RunningUndisturbed
CHECK_DEADLOCK FALSE
