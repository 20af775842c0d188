SPECIFICATION Spec
CONSTANTS
    t1 = t1
    t2 = t2
    Turns = {t1, t2}
    CallIds <- MCCallIds
    ToolUses <- MCToolUses
    Guarded = {"read"}
    Agents <- MCAgents
    AllowedTools <- MCAllowedTools
    Ruleset <- MCRuleset
    SkillTool = "skills"
    Watched = {"read"}
    NoHarness = NoHarness
    NoPath = NoPath
    NoList = NoList
    NoSkill = NoSkill
    NotNumeric = NotNumeric
    NoTurn = NoTurn
INVARIANTS RefusedNeverRuns BooksAgree TurnsCounted
CHECK_DEADLOCK FALSE
