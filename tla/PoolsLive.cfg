SPECIFICATION FairSpec
CONSTANTS
    s1 = s1  s2 = s2
    t1 = t1  t2 = t2
    Sessions = {s1}
    Threads = {t1, t2}
    Owner <- OwnerOne
    Databases = {login, maint}
    Login = login
    Droppable = {login, maint}
    Maintenance = {maint}
    CanDropConnected = FALSE
    PoolCap = 2
    Conns = {c1, c2, c3}
    NoConn = NoConn  NoDb = NoDb  NoThread = NoThread
INVARIANTS OneDial ConnectionsOwned
PROPERTIES ClosedReleasesAll WaitsEnd
