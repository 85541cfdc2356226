SPECIFICATION LiveSpec
CONSTANTS
    Workers = {w1}
    Reconcilers = {r1}
    MaxMessages = 3
    MaxAttempts = 2
    MaxFaults = 0
    MaxTakeovers = 0
    Refusals = FALSE
    Overlap = FALSE
    NoWorker = NoWorker
PROPERTIES EveryMessageAnswered
CHECK_DEADLOCK FALSE
