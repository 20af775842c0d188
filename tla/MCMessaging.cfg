SPECIFICATION MessagingSpec
CONSTANTS
    t1 = t1  a = a  b = b  x = x  z = z  rule = rule
    Tenants = {t1}
    AgentIds = {a, b}
    Keys <- MCKeys
    Messages = {x, z}
    Source <- MCSource
    Target <- MCTarget
    Tenant <- MCTenant
    PolicyIds <- MCPolicyIds
    Policies <- MCPolicies
    Roles = {"admin"}
    RemovedIds <- MCRemovedIds
    Questions <- MCQuestions
    Star = Star
    Threshold = 1
    PairWindow = 2
    RateKeys = {a}
    Rates = {0, 1}
    RateWindow = 1
    Horizon = 2
    MaxSends = 2
    Absent = Absent
INVARIANTS LimitsKept RolesApart
PROPERTIES BrokenOnlyIfFull
