SPECIFICATION Spec
CONSTANTS
    Workers = {w1, w2}
    Reconcilers = {r1}
    MaxMessages = 2
    MaxAttempts = 2
    MaxFaults = 1
    MaxTakeovers = 1
    Refusals = TRUE
    Overlap = TRUE
    NoWorker = NoWorker
SYMMETRY WorkerSymmetry
INVARIANTS TypeOK JobAnswersOnce
PROPERTIES KilledJobSilent LateReplyIsOrphan
CHECK_DEADLOCK FALSE
