\* Safety of the pipeline from a configured start slot: crashes, I/O errors,
\* reordered, repeated and lost blocks, queue overflow, pruning; and the
\* pipeline implements the ledger.
SPECIFICATION Spec
CONSTANTS
    Produced <- MCChain
    Parent <- MCParent
    StartSlot = 1
    SnapshotSlot = 0
    QueueCap = 1
    PendingWindow = 1
    MaxSlotLag = 1
    Retain = 1
    NumTxs = 1
    Reorder = 1
    Lossy = TRUE
    Wrap = 1000
    MaxCrashes = 1
    MaxIOErrors = 1
INVARIANTS
    TypeOK AtMostOnce NothingSkippedSilently LinkedReplay ProgressOrder
    IngestNeverBlocks
PROPERTIES
    LatestNeverRegresses ImplementsLedger
