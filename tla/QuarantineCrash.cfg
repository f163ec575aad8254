SPECIFICATION Spec
CONSTANTS
    Roots = {r1}
    NoRoot = NoRoot
    NoCoverage = NoCoverage
    Faults = {}
    Budget <- CrashBudget
    MaxTime = 3
    BatchSize = 1
    RetentionWindow = 2
    QuarantineWindow = 1
PROPERTY WindowFromMove
CHECK_DEADLOCK FALSE
