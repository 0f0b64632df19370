\* A client that nobody supervises is refused on the same lane.
CONSTANTS
    s1 = s1  s2 = s2  b1 = b1
    Runs = {s1}
    Bare = {b1}
    LaneOf <- OneLane
    MaxResumes = 2
    Grace = 1
    Resets = {1, 3}
    MaxAge = 4
    Events = {}
SPECIFICATION Spec
PROPERTIES ResumeMeansRefused
CHECK_DEADLOCK TRUE
