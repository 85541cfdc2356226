SPECIFICATION Spec
CONSTANTS
    Jobs = {1, 2}
    Workers = {w1, w2}
    Tokens = {1, 2, 3, 4}
    KeyOf <- SharedKey
    Executable = {1, 2}
    MaxAttempts = 2
    BatchLimit = 2
    MaxFaults = 2
    MaxRequeues = 1
SYMMETRY WorkerSymmetry
INVARIANTS TypeOK DeadIsJustified ActiveKeyUnique RunsArePaidFor
PROPERTIES StaleOnlyIfOvertaken DoneIsFinal AttemptsCountFailures
CHECK_DEADLOCK FALSE
