SPECIFICATION Spec
CONSTANTS
    Roots = {r1}
    NoRoot = NoRoot
    NoCoverage = NoCoverage
    Faults = {}
    Budget <- ReuploadBudget
    MaxTime = 3
    BatchSize = 1
    RetentionWindow = 2
    QuarantineWindow = 1
INVARIANT ObjectIndexed
CHECK_DEADLOCK FALSE
