SPECIFICATION FairSpec
CONSTANTS
    a = a
    b = b
    Operations <- Two
    MaxRows = 4
    Budgets <- OneOrTwo
INVARIANTS AuthorityAccounted AnchorIsSound RestsRecoverable AcknowledgedChainsNest
PROPERTIES AnchorCatchesUp
CHECK_DEADLOCK FALSE
