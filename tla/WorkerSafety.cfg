CONSTANTS
    Clients = {c1, c2}
    NoClient = NoClient
    MaxRuns = 3
    MaxQueue = 2
    c1 = c1
    c2 = c2
    Calls <- AnyCalls
SPECIFICATION Spec
SYMMETRY ClientSymmetry
INVARIANTS
    OneQueuedRun
    RunsAreOrderly
    Accounted
    TokensOfActive
    DropLeavesNothing
PROPERTIES
    CancelTellsTheTruth
