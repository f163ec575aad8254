SPECIFICATION FairSpec
CONSTANTS
    ChunkSize = 2
    BlockSize = 1
    Requests = {p1, p2}
    Roots <- MCRoots
    Original <- MCOriginal
    Bodies <- MCBodies
    Owners = {o1}
    NoOwner = NoOwner
    NoTemp = NoTemp
    NoRoot = NoRoot
    NoRequest = NoRequest
    TempMaxAge = 1
    AcceptUncontracted = FALSE
    Faults = {"io"}
    MaxIngests = 2
    MaxDeletes = 1
INVARIANTS TypeOK ContentAddressed BuilderAgrees IndexedFirst AckedIsStored ProofsVerify RangesExact
PROPERTY TempsReclaimed
