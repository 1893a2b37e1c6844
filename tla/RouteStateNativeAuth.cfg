CONSTANTS
    p1 = p1  r1 = r1  c1 = c1  c2 = c2
    Provider = {p1}
    Route = {r1}
    Call = {c1}
    Native = {c1}
    Credential = {"v1"}
    ProviderKey <- SingleOwner
    RouteKey <- SingleRoutes
    ProviderOf <- SingleOwnerOf
    PoolsOf <- SinglePools
    Base = 1
    Cap = 1
    MaxTimer = 1
    MaxTombstones = 1
    MaxFaults = 1
    MaxSwitches = 0
    MaxTime = 2
SPECIFICATION Spec
CHECK_DEADLOCK FALSE
PROPERTIES AuthNeedsChange
