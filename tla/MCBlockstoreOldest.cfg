\* What is the oldest slot after a crash?
SPECIFICATION Spec
CONSTANTS
    t1 = t1 t2 = t2 t3 = t3 t4 = t4 a1 = a1 a2 = a2
    Slots <- MCSlots
    Txs <- MCTxs
    TxsOf <- MCTxsOf
    Addrs <- MCAddrs
    AddrsOf <- MCAddrsOf
    Marks <- MCMarks
    Retain = 1
    Wrap = 1000
    MaxCrashes = 1
INVARIANTS
    OldestIsOldest
