SPECIFICATION Spec
CONSTANTS
    Roots = {r1}
    NoRoot = NoRoot
    NoCoverage = NoCoverage
    Faults = {"full"}
    Budget <- RequestBudget
    MaxTime = 2
    BatchSize = 1
    RetentionWindow = 1
    QuarantineWindow = 1
INVARIANT HeldUnlessCondemned
PROPERTIES QuarantineWindowKept RetentionWindowKept ImplementsObjectLife
