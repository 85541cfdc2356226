SPECIFICATION FairSpec
CONSTANTS
    Jobs = {1, 2, 3}
    Workers = {w1, w2}
    Tokens = {1, 2, 3, 4}
    KeyOf <- HeldKey
    Executable = {2, 3}
    MaxAttempts = 2
    BatchLimit = 2
    MaxFaults = 1
    MaxRequeues = 0
PROPERTIES EveryJobResolves
CHECK_DEADLOCK FALSE
