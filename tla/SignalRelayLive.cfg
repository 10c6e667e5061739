SPECIFICATION FairRelaySpec
CONSTANTS
    a = a
    b = b
    tA = tA
    s1 = s1
    None = None
    Reaper = Reaper
    Conns <- Pair
    Tenants <- MCTenants
    TenantOf <- MCTenantOf
    SessionIds <- OneSession
    MaxPerTenant = 2
    PendingTTL = 1
    QueueCap = 1
    EngineOn = TRUE
    SteerMode = "v1.2"
    WireVersions = {2}
    MessageTypes <- LiveMessages
    Polite = TRUE
INVARIANTS
    NoMixing
    RefusalEndsSession
PROPERTIES
    SurvivorHears
    ClosedLeaves
    LoneSessionResolved
