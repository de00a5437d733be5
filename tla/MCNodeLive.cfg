\* Liveness: Stop returns, every block is replayed, the sync flag clears.
SPECIFICATION FairSpec
CONSTANTS
    Produced <- MCHighChain
    Parent <- MCParent
    StartSlot = 3
    SnapshotSlot = 0
    QueueCap = 1
    PendingWindow = 3
    MaxSlotLag = 4
    Retain = 1
    NumTxs = 1
    Reorder = 1
    Lossy = FALSE
    Wrap = 1000
    MaxCrashes = 0
    MaxIOErrors = 0
PROPERTIES
    StopCompletes EveryBlockReplayed SyncFlagClears
