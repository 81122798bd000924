SPECIFICATION Spec
CONSTANTS
    a = a
    b = b
    Operations <- Two
    MaxRows = 4
    Budgets <- Restoring
PROPERTIES FailedRestoreKeepsLive
CHECK_DEADLOCK FALSE
