SPECIFICATION Spec
CONSTANTS
    o1 = o1
    o2 = o2
    n1 = n1
    n2 = n2
    Requests = {p1, p2}
    Owners <- MCOwners
    NoOwner = NoOwner
    Nonces <- MCNonces
    Commands <- MCCommands
    NoCommand = NoCommand
    Drift = 1
    TTL = 3
    Threshold = 1
    Lag = 1
    MaxUploads = 3
    MaxRestarts = 1
    MaxTime = 5
INVARIANTS TypeOK NoReplay
CHECK_DEADLOCK FALSE
