-------------------------------- MODULE MCRpc --------------------------------
(***************************************************************************)
(* The RPC server over the instance of MCBlockstore: every method, and the *)
(* requests the server refuses.                                            *)
(***************************************************************************)
EXTENDS MCBlockstore, RpcServer

Call(method, slot, bound, txs) ==
    [method |-> method, slot |-> slot, bound |-> bound, level |-> "processed",
     addr |-> a1, txs |-> txs]

One(call) == [form |-> "single", calls |-> <<call>>]

MCPosts ==
    {One(Call(m, 1, 0, <<>>)) : m \in
        {"getBlockTime", "getBlocks", "getFirstAvailableBlock", "getBlockCommitment",
         "getMinimumBalanceForRentExemption", "unknown"}}
    \cup {One(Call(m, 0, 0, <<>>)) : m \in
        {"getLatestBlockhash", "getBlockHeight", "getEpochInfo"}}
    \cup {One(Call("getBlock", 2, 0, <<>>)),
          One(Call("getBlocksWithLimit", 1, 1, <<>>)),
          One(Call("isBlockhashValid", 3, 0, <<>>)),
          One(Call("getTransaction", 0, 0, <<t1>>)),
          One(Call("getSignaturesForAddress", 0, 1, <<>>)),
          One(Call("getSignatureStatuses", 0, 0, <<t1>>)),
          One(Call("getSignatureStatuses", 0, 0, <<t1, t2>>)),
          [form |-> "garbage", calls |-> <<>>],
          [form |-> "batch", calls |->
              <<Call("getBlock", 1, 0, <<>>), Call("getSlot", 1, 0, <<>>)>>]}

MCPosition == [t \in MCTxs |-> IF t = t4 THEN 2 ELSE 1]
MCHeight == [s \in MCSlots |-> IF s = 1 THEN 1 ELSE s - 1]
=============================================================================
