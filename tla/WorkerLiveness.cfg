CONSTANTS
    Clients = {c1, c2}
    NoClient = NoClient
    MaxRuns = 2
    MaxQueue = 2
    c1 = c1
    c2 = c2
    Calls <- OwnCalls
SPECIFICATION FairSpec
PROPERTIES
    NobodyWaitsForEver
    ImplementsLifecycle
