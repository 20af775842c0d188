SPECIFICATION Spec
CONSTANTS
    t1 = t1  t2 = t2  a1 = a1  a2 = a2  x = x  code = code  test = test
    None = None
    Tenants = {t1, t2}
    AgentIds = {a1, a2}
    Keys <- MCKeys
    Capabilities = {code, test}
    Tasks = {x}
    TaskTenant <- MCTaskTenant
    TaskNeeds <- MCTaskNeeds
    Clients = {c1, c2}
    Asked = {"initializing", "ready", "degraded", "terminated"}
    Said = {"in_progress", "completed"}
    PrefixOf <- MCPrefixOf
INVARIANTS ClaimExclusive Findable
PROPERTIES InvalidOnlyIfStale TakenOnlyByDispatch
SYMMETRY MCSymmetry
