SPECIFICATION Spec
CONSTANTS
    a = a
    b = b
    c = c
    x = x
    tA = tA
    tB = tB
    s1 = s1
    s2 = s2
    s3 = s3
    None = None
    Conns <- MCConns
    Tenants <- MCTenants
    SessionIds <- MCSessionIds
    TenantOf <- MCTenantOf
    MaxPerTenant = 2
    PendingTTL = 1
SYMMETRY MCSymmetry
INVARIANTS
    TypeOK
    IndexesAgree
    SessionsSound
    TenantCap
    ReapsOnlyLone
PROPERTIES
    ImplementsNegotiation
