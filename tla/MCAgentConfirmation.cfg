SPECIFICATION Spec
CONSTANTS
    Workers = {w1, w2}
    Calls = {ticket, write}
    External = {write}
    NoCall = NoCall
    MaxMessages = 2
    MaxRows = 2
    MaxRounds = 1
    MaxFaults = 1
    MaxOverlaps = 1
INVARIANTS TypeOK ExecutedOnce GrantHeld ConsentSpent
 
CHECK_DEADLOCK FALSE
