\* One supervised session, run again and again, and nobody else.
CONSTANTS
    s1 = s1  s2 = s2  b1 = b1
    Runs = {s1}
    Bare = {}
    LaneOf <- TwoLanes
    MaxResumes = 2
    Grace = 1
    Resets = {1, 3}
    MaxAge = 4
    Events = {"again"}
SPECIFICATION FairSpec
PROPERTIES ResumeMeansRefused NeverResumedEarly GivesUpOnOwnExit RefusedIsResumed
CHECK_DEADLOCK TRUE
