SPECIFICATION FairSpec
CONSTANTS
    m1 = m1
    m2 = m2
    None = None
    Msgs <- TwoMsgs
    MaxFaults = 2
INVARIANTS
    BusTypeOK
    SocketsOwned
PROPERTIES
    PublishReturns
    SupervisorSettles
    ImplementsBus
CHECK_DEADLOCK FALSE
