\* Everything that may go wrong, beside every command.
CONSTANTS
    MaxMarks = 2
    MaxCli = 2
    Commands = {"login", "add", "remove", "other"}
    Events = {"disk", "kill", "overlap"}
SPECIFICATION FairSpec
PROPERTIES ShutdownEnds
CHECK_DEADLOCK TRUE
