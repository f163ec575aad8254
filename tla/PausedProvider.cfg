SPECIFICATION ProviderSpec
CONSTANTS
    Roots = {r1}
    NoRoot = NoRoot
    NoCoverage = NoCoverage
    Faults = {}
    Budget <- QuietBudget
    MaxTime = 2
    BatchSize = 1
    RetentionWindow = 1
    QuarantineWindow = 1
    Keys = {k1}
    NoKey = NoKey
    NoSignal = NoSignal
    MaxSeq = 1
PROPERTY NoPruneWhilePaused
CHECK_DEADLOCK FALSE
