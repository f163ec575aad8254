SPECIFICATION FairSpec
CONSTANTS
    Missing = Missing
    Torn = Torn
    NoKey = NoKey
    DataPaths = {srv, default}
    DefaultPath = default
    MaxRuns = 2
    DCs = {d1}
    NoVerify = NoVerify
    MaxCoordKeys = 2
    Accounts = {a1, a2}
    Limit = 1
    Window = 2
    Lag = 1
    MaxChallenges = 5
INVARIANTS TypeOK OneIdentity IdRegistered TrustRooted AcceptedStaysTrusted RateBound
PROPERTIES IdentityKept PublishedIsTrusted
