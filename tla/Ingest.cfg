SPECIFICATION IngestSpec
CONSTANTS
    q1 = q1
    q2 = q2
    q3 = q3
    q4 = q4
    q5 = q5
    tA = tA
    tB = tB
    e1 = e1
    e2 = e2
    NoEvent = NoEvent
    Requests <- MCRequests
    Tenants <- MCTenants
    Events <- MCEvents
    Tenant <- MCTenant
    EventId <- MCEventId
    TTL = 4
    Capacity = 1
    Slack = 1
    MaxTime = 5
SYMMETRY SameEvent
INVARIANTS
    IngestTypeOK
    VerdictsSpaced
    DuplicateHasOriginal
CHECK_DEADLOCK FALSE
