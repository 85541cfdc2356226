SPECIFICATION Spec
CONSTANTS
    Agents = {a1, a2}
    Supervisors = {a1}
    Conversations = {c1, c2}
    Ticketed = {}
    MaxCapacity = 1
    MaxGenerations = 1
    MaxRequests = 2
    MaxCalls = 2
SYMMETRY ConversationSymmetry
PROPERTIES OwnershipKept CapacityRespected
