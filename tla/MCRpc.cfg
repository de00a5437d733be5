\* Pruning, Close, SetCommitment and the RPC server against PutBlock, with a
\* crash.
SPECIFICATION RpcSpec
CONSTANTS
    t1 = t1 t2 = t2 t3 = t3 t4 = t4 a1 = a1 a2 = a2
    Slots <- MCSlots
    Txs <- MCTxs
    TxsOf <- MCTxsOf
    Addrs <- MCAddrs
    AddrsOf <- MCAddrsOf
    Marks <- MCMarks
    Retain = 1
    Wrap = 1000
    MaxCrashes = 1
    Posts <- MCPosts
    Position <- MCPosition
    Height <- MCHeight
    MaxRange = 2
    MaxSignatures = 2
    MaxStatuses = 1
    ValidRange = 1
    SlotsPerEpoch = 2
INVARIANTS
    RpcTypeOK IndexMatchesBlocks RecentBlocksKept CountCoversBlocks OldestCoversBlocks
    AnswersComplete
PROPERTIES
    CloseReturns
