CONSTANTS
    p1 = p1  r1 = r1  c1 = c1  c2 = c2
    Provider = {p1}
    Route = {r1}
    Call = {c1}
    Native = {}
    Credential = {"v1", "v2"}
    ProviderKey <- SingleOwner
    RouteKey <- SingleRoutes
    ProviderOf <- SingleOwnerOf
    PoolsOf <- SinglePools
    Base = 1
    Cap = 2
    MaxTimer = 1
    MaxTombstones = 0
    MaxFaults = 3
    MaxSwitches = 0
    MaxTime = 4
SPECIFICATION FairSpec
CHECK_DEADLOCK FALSE
PROPERTIES HoldsEnd
