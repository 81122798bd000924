\* First binds, rebinds, imports and crashes of two processes.
CONSTANTS
    p1 = p1
    p2 = p2
    NoProcess = NoProcess
    Processes = {p1, p2}
    Authority = {1, 2}
    Instances <- AllInstances
SPECIFICATION FairSpec
INVARIANTS
    WorkspaceHangsTogether
    FoundedOnce
PROPERTIES
    CommitmentKept
    
CHECK_DEADLOCK FALSE
