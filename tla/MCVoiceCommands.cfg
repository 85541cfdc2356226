SPECIFICATION FairSpec
CONSTANTS
    Commands = {1}
    Controller = {1}
    Hangup = {}
    Workers = {w1, w2}
    MaxAttempts = 2
    BatchLimit = 2
    MaxFaults = 2
    MaxDeliveries = 2
INVARIANTS TypeOK ExecutionsPaidFor
PROPERTIES RevivedOnlyInFlight SettlesOrStranded
