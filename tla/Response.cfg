CONSTANTS
    Absent = Absent
    Names <- MCNames
    BurstCutoff = 3
    FiveHours = 10
    Wires <- MCWires
    Lane = "anthropic"
    Sent <- MCSent
    MaxAttempts = 2
    HeadLimit = 2
    ErrorLimit = 2
    PingMode = TRUE
    MaxPings = 1
    HostKinds <- MCHosts
    Bodies <- MCBodies
    ErrorBodies <- MCErrorBodies
    Uploads = {"whole", "broken"}
SPECIFICATION MCSpec
CHECK_DEADLOCK FALSE
INVARIANTS StreamIntact FiguresWin LongerIsNotSooner InBandWithoutFigures
PROPERTIES OneExchange ReadersEnd
