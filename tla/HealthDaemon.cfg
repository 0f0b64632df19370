\* The daemon alone, stopped, killed and started again.
CONSTANTS
    MaxMarks = 4
    MaxCli = 0
    Commands = {}
    Events = {"kill"}
SPECIFICATION FairSpec
INVARIANTS TypeOK SavedWhenClean
PROPERTIES StopSaves EventuallySaved
CHECK_DEADLOCK TRUE
