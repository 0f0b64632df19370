CONSTANTS
    t1 = t1  t2 = t2
    Transfers = {t1, t2}
    Targets = {"claude", "codex", "opencode", "kimi", "legacy"}
    Branches = {"run1", "run2"}
    Known = {t1}
SPECIFICATION Spec
INVARIANTS DiscoveredIsWhole AllOrNothing ArchiveBeforeTarget
CHECK_DEADLOCK FALSE
