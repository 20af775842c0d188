SPECIFICATION Spec
CONSTANTS
    p1 = p1
    p2 = p2
    Agents = {p1, p2}
    NoActor = "none"
    NoLock = NoLock
    Deployments <- MCDeployments
    TimeGate = 2
    CountGate = 2
    StaleAge = 1
    Newest = 1
INVARIANTS LockAccounted TimeGateKept OwnMemories
PROPERTIES ConsolidatesAgain
CHECK_DEADLOCK FALSE
