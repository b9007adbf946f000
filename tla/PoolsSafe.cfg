SPECIFICATION Spec
CONSTANTS
    s1 = s1  s2 = s2
    t1 = t1  t2 = t2
    Sessions = {s1, s2}
    Threads = {t1, t2}
    Owner <- OwnerTwo
    Databases = {login, maint, other}
    Login = login
    Droppable = {login, maint, other}
    Maintenance = {maint}
    CanDropConnected = FALSE
    PoolCap = 1
    Conns = {c1, c2, c3, c4}
    NoConn = NoConn  NoDb = NoDb  NoThread = NoThread
SYMMETRY SymmetricConns
INVARIANTS TypeOK BudgetExact PoolsWithinCap
