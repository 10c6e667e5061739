SPECIFICATION EdgeSpec
CONSTANTS
    a = a
    b = b
    c = c
    tA = tA
    tB = tB
    u1 = u1
    u2 = u2
    r1 = r1
    r2 = r2
    p1 = p1
    None = None
    Conns <- Three
    Tenants <- TwoTenants
    Users <- OneUser
    TenantOf <- ThreeTenantOf
    UserOf <- ThreeUserOf
    Rooms <- TwoRooms
    Publishers <- NoPublishers
    MaxConnections = 2
    MaxPerTenant = 1
    MaxSubs = 1
    QueueCap = 1
SYMMETRY TabRoomSymmetry
INVARIANTS
    EdgeTypeOK
    CountsExact
    PresenceFollowsSockets
    RoomsAgree
CHECK_DEADLOCK FALSE
