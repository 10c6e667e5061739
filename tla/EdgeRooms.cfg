SPECIFICATION FairEdgeSpec
CONSTANTS
    a = a
    b = b
    c = c
    tA = tA
    tB = tB
    u1 = u1
    u2 = u2
    r1 = r1
    r2 = r2
    p1 = p1
    None = None
    Conns <- Two
    Tenants <- TwoTenants
    Users <- OneUser
    TenantOf <- ApartTenantOf
    UserOf <- ApartUserOf
    Rooms <- OneRoom
    Publishers <- OnePublisher
    MaxConnections = 2
    MaxPerTenant = 1
    MaxSubs = 1
    QueueCap = 1
INVARIANTS
    DeliveriesStayHome
CHECK_DEADLOCK FALSE
PROPERTIES
    ClosedIsTornDown
    ImplementsRooms
