\* Two requests that hold different tokens share one refresh.
CONSTANTS
    NoCaller = NoCaller
    Reloader = Reloader
    Callers = {c1, c2}
    MaxGen = 3
    MaxCli = 0
    CliOps = {}
    Events = {}
SPECIFICATION Spec
INVARIANTS AnswerIsNewer
CHECK_DEADLOCK TRUE
