CONSTANTS
    MaxGen = 2
    Waiters = {w1}
    Subscribers = {s1}
    HistoryBound = 1
    Buffer = 1
    MaxConfig = 1
    Batches = TRUE
SPECIFICATION MCSpec
INVARIANTS
    AwaitTellsTheTruth
    SubscriberSeesTheTruth
PROPERTIES
    AwaitIsAnswered
CHECK_DEADLOCK FALSE
