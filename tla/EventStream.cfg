\* Four changes, a window of two events, a channel of two, lost connections and a restart.
SPECIFICATION FairStreamSpec
CONSTANTS
    Window = 2
    Capacity = 2
    MaxSeen = 2
    MaxAttempts = 1
    MaxVersion = 4
    MaxBreaks = 2
    MaxFailures = 2
    MaxRestarts = 1
CHECK_DEADLOCK FALSE
INVARIANTS
    GapFree
PROPERTY ScreenCatchesUp
