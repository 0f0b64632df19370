\* Two requests share a subscription and an API key.
CONSTANTS
    a1 = a1  a2 = a2  r1 = r1  r2 = r2  c1 = c1
    Requests = {r1, r2}
    Accounts = {a1, a2}
    Convs = {c1}
    NoAccount = NoAccount
    NoConv = NoConv
    OAuth = {a1}
    Rank <- Ranking
    ConvOf <- AllSameConv
    Sticky = FALSE
    StickyTTL = 0
    RotateAfter = 1
    AuthRefreshAttempts = 1
    OverloadInitial = 1
    OverloadMax = 1
    ParkEnabled = TRUE
    Buffer = 1
    MaxHold = 2
    MinCooldown = 1
    Answers = {"relay", "auth", "overload", "exhausted"}
    RetryAfters = {}
    Resets = {1}
    Drains = {}
    TokensExpire = FALSE
    MaxLag = 1
    MaxStreak = 1
    MaxReloads = 0
SPECIFICATION Spec
PROPERTIES CondemnedAfterRenewals VerdictsStand RejectedMeansAllRefused OverloadNeverSurfaces
SYMMETRY TwoRequests
CHECK_DEADLOCK TRUE
