SPECIFICATION RelaySpec
CONSTANTS
    a = a
    b = b
    tA = tA
    s1 = s1
    None = None
    Reaper = Reaper
    Conns <- Pair
    Tenants <- MCTenants
    TenantOf <- MCTenantOf
    SessionIds <- OneSession
    MaxPerTenant = 2
    PendingTTL = 12
    QueueCap = 4
    EngineOn = TRUE
    SteerMode = "off"
    WireVersions = {2}
    MessageTypes <- SessionMessages
    Polite = FALSE
INVARIANTS
    EngineFollowsSession
