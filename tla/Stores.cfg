SPECIFICATION Spec
CONSTANTS
    Ids <- MCIds
    Asked <- MCAsked
    Generations = {1, 2}
    Captures <- MCCaptures
    RetentionBytes = 7
    MaxRetained = 2
    Budgets = {3, 4, 6, 12}
    MaxRecords = 3
    MaxPages = 8
    Writers = {w1}
    Signatures = {"a", "b"}
    Retention = 2
    MaxProfiles = 1
    MaxAssociations = 2
    MaxRuns = 3
    MaxStarts = 2
    Descendants = {"d"}
    CaptureBound = 2
    MaxLines = 3
    Matched <- MCMatched
    Window = 2
    MinRepeats = 2
    MaxKeys = 2
    MaxTriggers = 5
    Sinks = {"p", "q"}
    MaxEmitted = 3
    Commands <- MCCommands
    Concurrencies = {1, 2}
    Batches = {{"p", "q"}}
    MaxCommits = 2
    MaxRequests = 2
INVARIANTS
    OutputIsWhole
    RetrievalCompletes
    HistoryIsFaithful
    EndedMeansComplete
    LoopIsReportedOnce
    EventsAreOnFile
    EstimatesAreOfTheTarget
CHECK_DEADLOCK FALSE
