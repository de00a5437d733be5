\* A node started from a Solana snapshot: what does it wait for?
SPECIFICATION Spec
CONSTANTS
    Produced <- MCLongChain
    Parent <- MCParent
    StartSlot = 0
    SnapshotSlot = 2
    QueueCap = 3
    PendingWindow = 1
    MaxSlotLag = 1
    Retain = 4
    NumTxs = 1
    Reorder = 0
    Lossy = FALSE
    Wrap = 1000
    MaxCrashes = 0
    MaxIOErrors = 0
INVARIANTS
    StartsAfterSnapshot
