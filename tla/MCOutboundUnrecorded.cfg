CONSTANTS
    Messages = {1}
    WhatsApp = {1}
    Workers = {a, b}
    Tokens = {1, 2, 3}
    MaxRetries = 2
    BatchLimit = 2
    MaxFaults = 0
    MaxRequeues = 0
SYMMETRY WorkerSymmetry
SPECIFICATION Spec
PROPERTY SentIsRecorded
