SPECIFICATION Spec
CONSTANTS
    Dispatches = {d1, d2}
    Tenanted = {d1}
    Workers = {w1, w2}
    MaxAttempts = 2
INVARIANTS TypeOK
PROPERTIES NewerAttemptKept DeliversBounded
