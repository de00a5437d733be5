\* A chain with a skipped slot: does replay get past it?
SPECIFICATION FairSpec
CONSTANTS
    Produced <- MCSkipChain
    Parent <- MCParent
    StartSlot = 1
    SnapshotSlot = 0
    QueueCap = 3
    PendingWindow = 1
    MaxSlotLag = 1
    Retain = 4
    NumTxs = 1
    Reorder = 0
    Lossy = FALSE
    Wrap = 1000
    MaxCrashes = 0
    MaxIOErrors = 0
PROPERTIES
    EveryBlockReplayed
