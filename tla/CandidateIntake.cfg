\* Turns, a document in two chunks, and calls that fail half-way.
CONSTANTS
    Questions = {"cost", "risk"}
    Outputs <- SomeOutputs
    Chunks <- TwoChunks
    Runtimes <- SomeRuntimes
    Threshold = 2
    MaxPerTurn = 2
SPECIFICATION Spec
INVARIANTS
    RecurrenceIsOnRecord
    RecordsAgree
    
    ReportSpeaksOfItsTurn
CHECK_DEADLOCK FALSE
