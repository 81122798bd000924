SPECIFICATION Spec
CONSTANTS
    t1 = t1
    Topics <- MCTopics
    Threshold = 2
    Promotion = 1
    DormantTTL = 1
    MaxCandidates = 2
    MaxSeeds = 2
    MaxTurns = 3
    MaxEvents = 3
    MaxRetries = 1
INVARIANTS ContextStaysAuthorized  
 
CHECK_DEADLOCK FALSE
