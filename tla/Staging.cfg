SPECIFICATION FairSpec
CONSTANTS
    Requests = {p1, p2}
    Sweeper = sweeper
    Totals = {2}
    StagingMaxAge = 1
    AcceptUncontracted = FALSE
    Faults = {"io"}
    MaxRequests = 3
    MaxCrashes = 1
INVARIANTS TypeOK TornOnlyWhileWriting CompleteIsFinalizable
PROPERTY StagingReclaimed
