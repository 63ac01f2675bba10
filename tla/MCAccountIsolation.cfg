SPECIFICATION IsolationFairSpec
CONSTANTS
    m1 = m1
    m2 = m2
    u1 = u1
    mule = mule
    Main = Main
    None = None
    Conn = {m1, m2, u1}
    Account = {Main, mule}
    Owner <- Owners
    Prior = {u1}
    Lossy = TRUE
    Timeouts = TRUE
    Cap = 2
    MaxEvents = 3
CHECK_DEADLOCK FALSE
INVARIANTS
    IsolationTypeOK
    OnlyMainGetsOut
    NothingLost
PROPERTIES
    CandidateDecided
