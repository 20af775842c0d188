SPECIFICATION MemorySpec
CONSTANTS
    r1 = r1
    r2 = r2
    None = None
    Requests = {r1, r2}
    Callers <- MCCallers
    Templates <- MCTemplates
    ToolNamespaces <- MCToolNamespaces
    Stores <- MCStores
    Texts = {"short"}
    SizeOf <- MCSizeOf
    Scores = {1}
    Overhead = 1
    Budget = 6
    TopK = 2
    MaxRecords = 5
    MaxCalls = 1
    MaxRestarts = 1
    MaxFailures = 1
SYMMETRY Symmetry
INVARIANTS
    RecallScoped
    RecallComplete
    ContextBest
    BedrockReady
CHECK_DEADLOCK FALSE
