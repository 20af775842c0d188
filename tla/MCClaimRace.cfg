SPECIFICATION Spec
CONSTANTS
    t1 = t1  t2 = t2  a = a  b = b  x = x  y = y  code = code
    None = None
    Tenants = {t1, t2}
    Keys <- MCKeys
    AgentIds = {a, b}
    Capabilities = {code}
    Profiles <- MCProfiles
    BeatTimeout = 0
    Tasks = {x}
    TaskTenant <- MCTaskTenant
    TaskNeeds <- MCTaskNeeds
    MaxRetries = 1
    LeaseTicks = 0
    RetryCap = 2
    Threaded = TRUE
INVARIANT ClaimExclusive
