\* A picture in a message of the user leaves its call without an answer.
CONSTANTS
    Recorded <- MCRecorded
    MaxRecords = 3
    MaxHops = 2
SPECIFICATION Spec
CHECK_DEADLOCK FALSE
INVARIANT NoCallLeftOpen
