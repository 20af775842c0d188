SPECIFICATION GateSpec
CONSTANTS
    Requests = {r1}
    r1 = r1
    MaxEscalations = 2
    NoRequest = NoRequest
    NoResponse = NoResponse
    NoScore = NoScore
    NoItem = NoItem
    BadNumber = BadNumber
    Outputs <- MCOutputs
    Replies <- MCReplies
    Near <- MCNear
    Overrides <- MCOverrides
INVARIANTS DeterministicStands ApprovedByRubric RevisionGuided HumanDecides
PROPERTIES SessionEnds
CHECK_DEADLOCK FALSE
