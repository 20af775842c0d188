SPECIFICATION PoolSpec
CONSTANTS
    r1 = r1  r2 = r2  r3 = r3
    Requests = {r1, r2, r3}
    WebSocket = {r3}
    Sessions = {s1, s2}
    Limits = {1, 2}
    None = None
INVARIANTS ExclusiveWhileKept
PROPERTIES Answered
CHECK_DEADLOCK FALSE
