SPECIFICATION Spec
CONSTANTS
    q1 = q1  q2 = q2
    Requests = {q1, q2}
    MaxSessions = 1
    MaxStarts = 1
    MaxLogins = 0
    MaxHandshakes = 3
INVARIANT DenialStands
