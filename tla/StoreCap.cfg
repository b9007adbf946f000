SPECIFICATION Spec
CONSTANTS
    r1 = r1  r2 = r2
    t1 = t1  t2 = t2
    Replicas = {r1}
    Threads = {t1}
    Home <- HomeOne
    Ids = {i1, i2, i3}
    NoId = NoId
    MaxRows = 1
    MaxMarkers = 1
    LocalCap = 1
    MaxFaults = 2
    LostReplies = TRUE
    Timeouts = TRUE
    MaxRestarts = 1
    Sweepers = {r1}
SYMMETRY SymmetricIds
INVARIANTS TypeOK CapHolds CounterCoversTable
