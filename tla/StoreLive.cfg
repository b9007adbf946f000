SPECIFICATION FairSpec
CONSTANTS
    r1 = r1  r2 = r2
    t1 = t1  t2 = t2
    Replicas = {r1, r2}
    Threads = {t1, t2}
    Home <- HomeOneEach
    Ids = {i1}
    NoId = NoId
    MaxRows = 0
    MaxMarkers = 1
    LocalCap = 2
    MaxFaults = 1
    LostReplies = TRUE
    Timeouts = FALSE
    MaxRestarts = 0
    Sweepers = {r1}
INVARIANTS UnpersistedIsOurs
PROPERTIES EndsReachEveryReplica UnpersistedSettles MarkersDrain
