\* The daemon alone: requests, reloads, restarts and a revoked sign-in.
CONSTANTS
    NoCaller = NoCaller
    Reloader = Reloader
    Callers = {c1, c2, c3}
    MaxGen = 3
    MaxCli = 0
    CliOps = {}
    Events = {"reload", "restart", "revoke"}
SPECIFICATION Spec
SYMMETRY AnyCaller
INVARIANTS OneExchange NeverPresentsRetired LineageKept
PROPERTIES ImplementsLineage
CHECK_DEADLOCK TRUE
