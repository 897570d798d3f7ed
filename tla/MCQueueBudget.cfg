SPECIFICATION Spec
CONSTANTS
    Lines <- FourLines
    MaxBytes = 2
    MaxQueued = 2
    MaxWatch = 1
    Chunk = 2
    MaxLines = 3
INVARIANTS BudgetExact LinesInOrder
PROPERTIES PromptWhileWatched HandledByTimers ComesToRest
CHECK_DEADLOCK FALSE
