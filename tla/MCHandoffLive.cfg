SPECIFICATION FairSpec
CONSTANTS
    Agents = {a1}
    Supervisors = {a1}
    Conversations = {c1, c2}
    Ticketed = {c2}
    MaxCapacity = 2
    MaxGenerations = 2
    MaxRequests = 2
    MaxCalls = 1
INVARIANTS TypeOK
PROPERTIES CapacityRespected AcceptedByPlan CustomerIsServed
