SPECIFICATION Spec
CONSTANTS
    Messages = {1, 2}
    WhatsApp = {1}
    Workers = {a, b}
    Tokens = {1, 2, 3, 4}
    MaxRetries = 2
    BatchLimit = 2
    MaxFaults = 2
    MaxRequeues = 0
SYMMETRY WorkerSymmetry
INVARIANTS TypeOK DispatchExclusive
