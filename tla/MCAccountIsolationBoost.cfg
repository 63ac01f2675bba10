SPECIFICATION IsolationSpec
CONSTANTS
    m1 = m1
    m2 = m2
    u1 = u1
    mule = mule
    Main = Main
    None = None
    Conn = {m1, u1}
    Account = {Main, mule}
    Owner <- Owners
    Prior = {}
    Lossy = FALSE
    Timeouts = FALSE
    Cap = 9
    MaxEvents = 2
CHECK_DEADLOCK FALSE
INVARIANTS
    BoostIsMains
