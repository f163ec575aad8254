SPECIFICATION FairSpec
CONSTANTS
    Roots = {r1}
    NoRoot = NoRoot
    NoCoverage = NoCoverage
    Faults = {"coord", "io"}
    Budget <- FaultBudget
    MaxTime = 2
    BatchSize = 1
    RetentionWindow = 1
    QuarantineWindow = 1
INVARIANTS TypeOK HeldUnlessCondemned
PROPERTIES QuarantineWindowKept RetentionWindowKept KeptIsRestored ImplementsObjectLife
