\* One message, one failure: the comment at main.ts:290.
SPECIFICATION Spec
CONSTANTS
    MaxConns = 2
    MaxRuns = 1
    MaxDeltas = 0
    MaxFaults = 1
    MaxAttempts = 1
    HistoryLimit = 1
    Skipped <- Braces
PROPERTY StatusErrorsComeFirst
CHECK_DEADLOCK FALSE
