\* A refresh that fails in any way, beside a CLI command; no symmetry, for the liveness
\* property.  A condemned or disabled account gets no more requests: no deadlock check.
CONSTANTS
    NoCaller = NoCaller
    Reloader = Reloader
    Callers = {c1, c2}
    MaxGen = 2
    MaxCli = 1
    CliOps = {"disable", "login", "other"}
    Events = {"transport", "cancel", "disk", "shutdown"}
SPECIFICATION FairSpec
INVARIANTS OnlyLossesLose CondemnedOnlyForCause
PROPERTIES FollowersReturn
CHECK_DEADLOCK FALSE
