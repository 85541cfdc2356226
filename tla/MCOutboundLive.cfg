SPECIFICATION FairSpec
CONSTANTS
    Messages = {1}
    WhatsApp = {}
    Workers = {a, b}
    Tokens = {1, 2, 3}
    MaxRetries = 2
    BatchLimit = 2
    MaxFaults = 3
    MaxRequeues = 1
INVARIANTS SendsBounded
PROPERTIES EveryMessageSettles
