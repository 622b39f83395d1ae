CONSTANTS
    Clients = {c1, c2}
    NoClient = NoClient
    MaxRuns = 2
    MaxQueue = 2
    Calls <- ViewCalls
    HistoryBound = 256
SPECIFICATION Spec
INVARIANT
    ViewIsOfItsGeneration
CHECK_DEADLOCK FALSE
