\* A CLI command about another account, open across a refresh.
CONSTANTS
    NoCaller = NoCaller
    Reloader = Reloader
    Callers = {c1}
    MaxGen = 3
    MaxCli = 1
    CliOps = {"other"}
    Events = {}
SPECIFICATION Spec
INVARIANTS NeverPresentsRetired
CHECK_DEADLOCK TRUE
