\* Two sessions and a client nobody supervises on one lane, whose resets never move earlier; a failing disk.
CONSTANTS
    s1 = s1  s2 = s2  b1 = b1
    Runs = {s1, s2}
    Bare = {b1}
    LaneOf <- OneLane
    MaxResumes = 1
    Grace = 1
    Resets = {2}
    MaxAge = 4
    Events = {"again", "disk"}
SPECIFICATION Spec
INVARIANTS TypeOK
PROPERTIES NeverResumedEarly
CHECK_DEADLOCK TRUE
