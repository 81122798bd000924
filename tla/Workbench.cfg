CONSTANTS
    Calls = {c1, c2}
    Questions = {"first", "second", "chat"}
    Script <- TwoQuestions
    ScriptHost = "here"
    Starts <- SomeStarts
    Edits <- SomeEdits
    Levels = {1, 2}
    MaxTurns = 3
    MaxStarted = 4
SPECIFICATION Spec
INVARIANTS SettingsAgree  
SYMMETRY Threads
