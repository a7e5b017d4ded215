SPECIFICATION PageSpec
CONSTANTS
    MaxEvaluations = 2
    MaxPreparations = 3
    MaxWrites = 2
    MaxOthers = 1
INVARIANTS ShowsNothingOutdated RetriesAreSafe
CHECK_DEADLOCK FALSE
