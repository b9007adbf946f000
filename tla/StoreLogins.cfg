SPECIFICATION Spec
CONSTANTS
    r1 = r1  r2 = r2
    t1 = t1  t2 = t2
    Replicas = {r1, r2}
    Threads = {t1, t2}
    Home <- HomeOneEach
    Ids = {i1, i2, i3, i4}
    NoId = NoId
    MaxRows = 1
    MaxMarkers = 1
    LocalCap = 2
    MaxFaults = 0
    LostReplies = FALSE
    Timeouts = FALSE
    MaxRestarts = 0
    Sweepers = {}
SYMMETRY SymmetricIds
PROPERTIES SingleWinner
CHECK_DEADLOCK FALSE
