\* A crash in the middle of a slot: where does the node resume?
SPECIFICATION Spec
CONSTANTS
    Produced <- MCChain
    Parent <- MCParent
    StartSlot = 0
    SnapshotSlot = 0
    QueueCap = 3
    PendingWindow = 1
    MaxSlotLag = 1
    Retain = 4
    NumTxs = 1
    Reorder = 0
    Lossy = FALSE
    Wrap = 1000
    MaxCrashes = 1
    MaxIOErrors = 0
INVARIANTS
    ResumesAfterProcessed
