\* A key is replaced while a request holding the old one is in flight.
CONSTANTS
    a1 = a1  a2 = a2  r1 = r1  r2 = r2  c1 = c1
    Requests = {r1}
    Accounts = {a1}
    Convs = {c1}
    NoAccount = NoAccount
    NoConv = NoConv
    OAuth = {}
    Rank <- Alone
    ConvOf <- AllSameConv
    Sticky = FALSE
    StickyTTL = 0
    RotateAfter = 2
    AuthRefreshAttempts = 1
    OverloadInitial = 1
    OverloadMax = 1
    ParkEnabled = TRUE
    Buffer = 1
    MaxHold = 2
    MinCooldown = 1
    Answers = {"relay", "auth"}
    RetryAfters = {}
    Resets = {1}
    Drains = {}
    TokensExpire = FALSE
    MaxLag = 1
    MaxStreak = 2
    MaxReloads = 1
SPECIFICATION Spec
PROPERTIES VerdictsAreCurrent
CHECK_DEADLOCK TRUE
