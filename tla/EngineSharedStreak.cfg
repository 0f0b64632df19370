\* One request whose overloads come from two accounts in turn.
CONSTANTS
    a1 = a1  a2 = a2  r1 = r1  r2 = r2  c1 = c1
    Requests = {r1}
    Accounts = {a1, a2}
    Convs = {c1}
    NoAccount = NoAccount
    NoConv = NoConv
    OAuth = {a1}
    Rank <- Ranking
    ConvOf <- AllSameConv
    Sticky = TRUE
    StickyTTL = 1
    RotateAfter = 2
    AuthRefreshAttempts = 1
    OverloadInitial = 1
    OverloadMax = 2
    ParkEnabled = TRUE
    Buffer = 1
    MaxHold = 3
    MinCooldown = 1
    Answers = {"relay", "overload"}
    RetryAfters = {1}
    Resets = {0, 1, 3}
    Drains = {}
    TokensExpire = FALSE
    MaxLag = 3
    MaxStreak = 2
    MaxReloads = 0
SPECIFICATION Spec
PROPERTIES OverloadsAbsorbedFirst
CHECK_DEADLOCK TRUE
