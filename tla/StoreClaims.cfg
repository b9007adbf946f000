SPECIFICATION ClaimsSpec
CONSTANTS
    r1 = r1  r2 = r2
    t1 = t1  t2 = t2  t3 = t3
    Replicas = {r1, r2}
    Threads = {t1, t2, t3}
    Home <- HomeTwoAndOne
    Ids = {i1, i2}
    NoId = NoId
    MaxRows = 0
    MaxMarkers = 2
    LocalCap = 1
    MaxFaults = 1
    LostReplies = TRUE
    Timeouts = FALSE
    MaxRestarts = 0
    Sweepers = {r1}
SYMMETRY SymmetricIds
INVARIANTS SomeClaimStands
CHECK_DEADLOCK FALSE
