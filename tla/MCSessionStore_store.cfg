CONSTANTS
    tui = tui
    other = other
    serve = serve
    Recorders = {tui, other, serve}
    Interactive = {tui, other}
    KeepLast = 1
    MaxSessions = 3
    Bounds <- MCBounds
SPECIFICATION StoreSpec
CHECK_DEADLOCK FALSE
INVARIANT StoreTypeOK
INVARIANT StoreKeeps
PROPERTY KeepsRecent
