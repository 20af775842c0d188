SPECIFICATION Spec

CONSTANTS
    s1 = s1  s2 = s2
    p1 = p1  p2 = p2
    c1 = c1  c2 = c2
    LastStage    = 6
    Conditional  = {3, 5, 6}
    Requirements = 2
    Sessions     = {s1, s2}
    Projects     = {p1, p2}
    ProjectOf   <- MCProjectOf
    Calls        = {c1, c2}
    None         = None

SYMMETRY Threads
CONSTRAINT WithinBounds

INVARIANTS
    StageOrder
    SavedState

PROPERTIES
    ApprovalFinal
