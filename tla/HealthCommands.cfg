\* Commands while the daemon runs and while it is down; it does not stop in the middle of one.
CONSTANTS
    MaxMarks = 3
    MaxCli = 2
    Commands = {"login", "remove", "other"}
    Events = {}
SPECIFICATION FairSpec
INVARIANTS CondemnedForCause
PROPERTIES StopSaves EventuallySaved
CHECK_DEADLOCK TRUE
