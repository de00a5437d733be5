\* The Geyser client: outages, staleness, reconnects, Close.
SPECIFICATION FairSpec
CONSTANTS
    BlockCap = 1
    MaxReconnects <- MCMaxReconnects
    MaxConns = 3
    MaxOutages = 1
INVARIANTS
    TypeOK AtMostOneConnection ConnectedIsWatched
PROPERTIES
    Recovers ClientCloseReturns
CHECK_DEADLOCK FALSE
