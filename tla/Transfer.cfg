\* Sessions of up to four records, moved twice.
CONSTANTS
    Recorded <- MCRecorded
    MaxRecords = 4
    MaxHops = 2
SPECIFICATION Spec
CHECK_DEADLOCK FALSE
INVARIANTS StoryKept EveryCallKeepsItsAnswer MovesOn PromptsKept
