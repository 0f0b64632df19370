\* One request at a time against two subscriptions; parking on.
\* Only the request's own steps are fair.  MaxHold is below the longest hold, so a request may park or be told to come back.
CONSTANTS
    a1 = a1  a2 = a2  r1 = r1  r2 = r2  c1 = c1
    Requests = {r1}
    Accounts = {a1, a2}
    Convs = {c1}
    NoAccount = NoAccount
    NoConv = NoConv
    OAuth = {a1, a2}
    Rank <- Ranking
    ConvOf <- AllSameConv
    Sticky = TRUE
    StickyTTL = 1
    RotateAfter = 2
    AuthRefreshAttempts = 1
    OverloadInitial = 1
    OverloadMax = 2
    ParkEnabled = TRUE
    Buffer = 1
    MaxHold = 3
    MinCooldown = 1
    Answers = {"relay", "fatal", "auth", "throttle", "overload", "transport", "exhausted"}
    RetryAfters = {1}
    Resets = {0, 1, 3}
    Drains = {1, 2}
    TokensExpire = TRUE
    MaxLag = 3
    MaxStreak = 2
    MaxReloads = 0
SPECIFICATION RunSpec
INVARIANTS TypeOK
PROPERTIES CondemnedAfterRenewals RejectedMeansAllRefused OverloadNeverSurfaces NoHotLoop
CHECK_DEADLOCK TRUE
