SPECIFICATION FairSpec
CONSTANTS
    q1 = q1  q2 = q2
    Requests = {q1, q2}
    MaxSessions = 1
    MaxStarts = 2
    MaxLogins = 2
    MaxHandshakes = 1
INVARIANTS TypeOK StoredAreUsable HandshakeOnce NothingOutlivesShutdown
PROPERTIES ImplementsCustody ExpiredLeave
