CONSTANTS
    Homes = {"claude", "codex", "opencode", "kimi", "legacy"}
    c1 = c1
    c2 = c2
    c3 = c3
    CallIds = {c1, c2, c3}
    MaxRuns = 3
    MaxCalls = 3
    MaxQuotes = 1
    MaxHops = 2
SPECIFICATION Spec
SYMMETRY SameIds
CHECK_DEADLOCK FALSE
INVARIANTS AttachedWhereSpawned RecordedIsMovable TreeSurvives
