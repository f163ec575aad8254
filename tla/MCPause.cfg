SPECIFICATION Spec
CONSTANTS
    Keys = {k1, k2}
    NoKey = NoKey
    NoSignal = NoSignal
    MaxSeq = 3
    MaxTime = 2
SYMMETRY Symmetry
INVARIANTS TypeOK AckedIncreasing AckedPauseInForce SequenceNotAhead
