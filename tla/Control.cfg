SPECIFICATION MCSpec
CONSTANTS
    c1 = c1
    c2 = c2
    Clients = {c1, c2}
    Commands <- MCCommands
    Conns = {k1, k2}
    MaxClients = 1
    Retries = 1
    MaxServers = 2
    MaxGen = 2
    Vanishing = TRUE
INVARIANTS
    CommandsAreTrue
    SlotsMatchThreads
PROPERTIES
    EveryCommandEnds
CHECK_DEADLOCK FALSE
