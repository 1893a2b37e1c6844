CONSTANTS
    p1 = p1  r1 = r1  c1 = c1  c2 = c2
    Provider = {p1}
    Route = {r1}
    Call = {c1, c2}
    Native = {c2}
    Credential = {"v1"}
    ProviderKey <- SingleOwner
    RouteKey <- SingleRoutes
    ProviderOf <- SingleOwnerOf
    PoolsOf <- PooledPools
    Base = 1
    Cap = 2
    MaxTimer = 2
    MaxTombstones = 1
    MaxFaults = 2
    MaxSwitches = 2
    MaxTime = 2
SPECIFICATION Spec
CHECK_DEADLOCK FALSE
INVARIANTS TypeOK PromiseKept EvictionSafe FenceSound FencePrecise
PROPERTIES NoStaleClear NoStaleRebuild
