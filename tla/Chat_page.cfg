SPECIFICATION FairSpec
CONSTANTS
    MaxConns = 2
    MaxRuns = 2
    MaxDeltas = 1
    MaxFaults = 2
    MaxAttempts = 1
    HistoryLimit = 1
    Skipped <- Braces
INVARIANTS TypeOK InputMeansConnected StreamEnds NothingLost
PROPERTIES SwallowedAcrossSockets ImplementsFeed Recovers
CHECK_DEADLOCK FALSE
