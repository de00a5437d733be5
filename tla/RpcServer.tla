------------------------------ MODULE RpcServer ------------------------------
(***************************************************************************)
(* pkg/rpc: the JSON-RPC server over the blockstore.  A handler reads the  *)
(* store several times, each read in a transaction or under a lock of its  *)
(* own, while the store moves on (module Blockstore): a step here is one   *)
(* read.  The calls of a batch are handled one after the other.  Handlers  *)
(* change nothing, so that one HTTP request at a time is enough here.      *)
(*                                                                         *)
(* A block is its slot, which stands for its blockhash and time too.  The  *)
(* handlers of accounts are not part of this module.                       *)
(***************************************************************************)
EXTENDS Blockstore, Sequences, SequencesExt

CONSTANTS
    Posts,         \* HTTP requests, see PostType
    Position,      \* Position[t]: place of transaction t in its block
    Height,        \* Height[s]: height of block s
    MaxRange,      \* the 500000 of getBlocks and getBlocksWithLimit
    MaxSignatures, \* the 1000 of getSignaturesForAddress
    MaxStatuses,   \* the 256 of getSignatureStatuses
    ValidRange,    \* the 150 of isBlockhashValid
    SlotsPerEpoch  \* the 432000 of getEpochInfo

Methods == {"getBlock", "getBlockTime", "getBlockHeight", "getBlocks",
            "getBlocksWithLimit", "getTransaction", "getSignaturesForAddress",
            "getSignatureStatuses", "getSlot", "getEpochInfo", "getLatestBlockhash",
            "getRecentBlockhash", "getFirstAvailableBlock", "getBlockCommitment",
            "isBlockhashValid", "getMinimumBalanceForRentExemption"}

(* A call: its method and the parameters methods take, those this one does *)
(* not take at a default.  "slot" is also a data length, and stands for    *)
(* the blockhash of its block; "bound" an end slot or a limit, 0 if none.  *)
CallType == [method : Methods \cup {"unknown", "badVersion"}, slot : Uint64, bound : Uint64,
             level : Levels, addr : Addrs, txs : Seq(Txs)]

(* A POST: not JSON (a body is cut at the size limit) or not of its        *)
(* content type, one call, or a batch of calls.                            *)
PostType == [form : {"garbage", "badType", "single", "batch"}, calls : Seq(CallType)]

ASSUME RpcAssumption ==
    /\ \A p \in Posts : p \in PostType /\ (p.form = "single" => Len(p.calls) = 1)
    /\ Position \in [Txs -> Nat] /\ Height \in [Slots -> Nat]
    /\ \A s \in Slots : \A t, u \in TxsOf[s] : Position[t] = Position[u] => t = u
    /\ {MaxRange, MaxSignatures, MaxStatuses, ValidRange, SlotsPerEpoch} \subseteq Nat \ {0}
    /\ MaxStatuses + 1 < Wrap

VARIABLES
    calls,         \* calls of the request that are still to be answered
    work,          \* the handler of the first of them
    replies        \* the answers so far

serverVars == <<calls, work, replies>>
allVars == <<vars, serverVars>>

Places == {"start", "latest", "block", "scan", "time", "status", "meta"}

(* A handler: where it is, the slot GetLatestSlot returned, the slot or    *)
(* signature its loop has come to, and the slots collected.                *)
Fresh == [at |-> "start", latest |-> 0, next |-> 0, found |-> <<>>]

Kinds == {"value", "null", "skipped", "error", "refused"}

(* An answer; that to a request that is no call at all comes last.         *)
ReplyType ==
    [call : CallType, latest : Uint64, kind : Kinds, value : Seq(Nat), txs : Seq(Txs)]
    \cup [kind : {"refused"}, txs : {<<>>}]

RpcTypeOK ==
    /\ TypeOK
    /\ calls \in Seq(CallType)
    /\ work \in [at : Places, latest : Uint64, next : Uint64, found : Seq(Slots \cup {0})]
    /\ replies \in Seq(ReplyType)

RpcInit ==
    /\ Init
    /\ calls = <<>> /\ work = Fresh /\ replies = <<>>

-----------------------------------------------------------------------------
(* The server                                                              *)

(* The node starts the server on its open store and stops it just before   *)
(* it closes the store.  Shutdown lets no request in and waits for those   *)
(* already in, but five seconds at most.                                   *)
Listening == phase = "open"

Reply(kind, value, txs) ==
    [call |-> Head(calls), latest |-> work.latest, kind |-> kind, value |-> value,
     txs |-> txs]

(* handleRPC and handleBatchRequest.                                       *)
Accept(post) ==
    /\ Listening
    /\ calls = <<>> /\ replies = <<>>
    /\ post.form \in {"single", "batch"} /\ post.calls # <<>>
    /\ calls' = post.calls
    /\ UNCHANGED <<vars, work, replies>>

Reject(post) ==
    /\ Listening
    /\ calls = <<>> /\ replies = <<>>
    /\ post.form \in {"garbage", "badType"} \/ post.calls = <<>>
    /\ replies' = <<[kind |-> "refused", txs |-> <<>>]>>
    /\ UNCHANGED <<vars, calls, work>>

Respond ==
    /\ calls = <<>> /\ replies # <<>>
    /\ replies' = <<>>
    /\ UNCHANGED <<vars, calls, work>>

At(place, methods) ==
    calls # <<>> /\ work.at = place /\ Head(calls).method \in methods

AnswerWith(kind, value, txs) ==
    /\ replies' = Append(replies, Reply(kind, value, txs))
    /\ calls' = Tail(calls)
    /\ work' = Fresh
    /\ UNCHANGED vars

Answer(kind, value) == AnswerWith(kind, value, <<>>)

GoOn(next) == work' = next /\ UNCHANGED <<vars, calls, replies>>

(* dispatch: a version or a method that is not known (parameters that do   *)
(* not decode are refused alike); getSignatureStatuses of too many.        *)
Refuse ==
    /\ \/ At("start", {"unknown", "badVersion"})
       \/ At("start", {"getSignatureStatuses"}) /\ Len(Head(calls).txs) > MaxStatuses
    /\ Answer("refused", <<>>)

-----------------------------------------------------------------------------
(* Reads of the store: on a closed one they fail, HasBlock says no.        *)

Closed == phase # "open"
HasBlock(s) == ~Closed /\ s \in blocks

SlotOf(t) == CHOOSE s \in Slots : t \in TxsOf[s]

(* GetTransaction.                                                         *)
HasTransaction(t) == ~Closed /\ t \in txBySig

(* GetSignaturesForAddress, newest slot first.  What is stored under an    *)
(* address and a slot is a stream of signatures; the first is decoded.     *)
AddressHistory(a) ==
    LET slots == {s \in Slots : <<a, s>> \in addrSigs}
        newest(i) == CHOOSE s \in slots : Cardinality({r \in slots : r > s}) = i - 1
        first(s) == CHOOSE t \in TxsOf[s] :
                       /\ a \in AddrsOf[t]
                       /\ \A u \in TxsOf[s] : a \in AddrsOf[u] => Position[t] <= Position[u]
    IN  [i \in 1..Cardinality(slots) |-> first(newest(i))]

-----------------------------------------------------------------------------
(* Handlers of one read                                                    *)

GetBlockTime ==
    /\ At("start", {"getBlockTime"})
    /\ LET s == Head(calls).slot
       IN  \/ Closed /\ Answer("error", <<>>)
           \/ ~Closed /\ s \notin blocks /\ Answer("null", <<>>)
           \/ HasBlock(s) /\ Answer("value", <<s>>)

GetSlot ==
    /\ At("start", {"getSlot"})
    /\ LET level == Head(calls).level
       IN  Answer("value", <<IF level = "finalized" THEN cache.finalized
                             ELSE IF level = "confirmed" THEN cache.confirmed
                             ELSE cache.latest>>)

GetFirstAvailableBlock ==
    At("start", {"getFirstAvailableBlock"}) /\ Answer("value", <<cache.oldest>>)

GetBlockCommitment ==
    /\ At("start", {"getBlockCommitment"})
    /\ Answer("value", IF HasBlock(Head(calls).slot) THEN <<0>> ELSE <<>>)

GetMinimumBalanceForRentExemption ==
    /\ At("start", {"getMinimumBalanceForRentExemption"})
    /\ Answer("value", <<((128 + Head(calls).slot) * 6960) % Wrap>>)

GetSignaturesForAddress ==
    /\ At("start", {"getSignaturesForAddress"})
    /\ \/ Closed /\ Answer("error", <<>>)
       \/ /\ ~Closed
          /\ LET asked == Head(calls).bound
                 limit == IF asked \in 1..MaxSignatures THEN asked ELSE MaxSignatures
                 all == AddressHistory(Head(calls).addr)
             IN  AnswerWith("value", <<>>, SubSeq(all, 1, Min({limit, Len(all)})))

-----------------------------------------------------------------------------
(* getBlock and getTransaction                                             *)

GetBlock ==
    /\ At("start", {"getBlock"})
    /\ LET s == Head(calls).slot
       IN  \/ Closed /\ Answer("error", <<>>)
           \/ HasBlock(s) /\ Answer("value", <<s>>)
           \/ ~Closed /\ s \notin blocks /\ GoOn([work EXCEPT !.at = "latest"])

(* A block that was not found is in the future or was skipped.             *)
ClassifyMissing ==
    /\ At("latest", {"getBlock"})
    /\ Answer(IF Head(calls).slot > cache.latest THEN "null" ELSE "skipped", <<>>)

GetTransaction ==
    /\ At("start", {"getTransaction"})
    /\ LET t == Head(Head(calls).txs)
       IN  \/ Closed /\ Answer("error", <<>>)
           \/ ~Closed /\ t \notin txBySig /\ Answer("null", <<>>)
           \/ HasTransaction(t) /\ GoOn([work EXCEPT !.at = "time", !.next = SlotOf(t)])

(* Its block is read for the time only; without it the time is left out.   *)
ReadTime ==
    /\ At("time", {"getTransaction"})
    /\ Answer("value", IF HasBlock(work.next) THEN <<work.next, work.next>>
                       ELSE <<work.next>>)

-----------------------------------------------------------------------------
(* Handlers that take the latest slot first                                *)

OfLatest == {"getBlockHeight", "getEpochInfo", "getLatestBlockhash", "getRecentBlockhash"}
OfRange == {"getBlocks", "getBlocksWithLimit", "isBlockhashValid"}

Start(c, latest) ==
    IF c.method = "isBlockhashValid"
    THEN IF latest > ValidRange THEN latest - ValidRange ELSE 0
    ELSE c.slot

GetLatestSlot ==
    /\ At("start", OfLatest \cup OfRange \cup {"getSignatureStatuses"})
    /\ Len(Head(calls).txs) <= MaxStatuses
    /\ LET m == Head(calls).method
       IN  GoOn([work EXCEPT
                   !.latest = cache.latest,
                   !.next = IF m \in OfRange THEN Start(Head(calls), cache.latest) ELSE 1,
                   !.at = IF m \in OfRange THEN "scan"
                          ELSE IF m \in OfLatest THEN "block" ELSE "status"])

(* The block of the latest slot: the blockhash methods fail without it,    *)
(* the height falls back on the slot (0 in an empty store), getEpochInfo   *)
(* on height 0.                                                            *)
ReadLatestBlock ==
    /\ At("block", OfLatest)
    /\ LET m == Head(calls).method
           found == HasBlock(work.latest)
           epoch == <<work.latest \div SlotsPerEpoch, work.latest % SlotsPerEpoch>>
       IN  \/ /\ m = "getBlockHeight"
              /\ Answer("value", <<IF found THEN Height[work.latest] ELSE work.latest>>)
           \/ /\ m = "getEpochInfo"
              /\ Answer("value", epoch \o <<IF found THEN Height[work.latest] ELSE 0>>)
           \/ /\ m \in {"getLatestBlockhash", "getRecentBlockhash"}
              /\ IF found THEN Answer("value", <<work.latest>>) ELSE Answer("error", <<>>)

(* The last slot a range reaches, and how many slots it collects.          *)
End(c, latest) ==
    LET end == IF c.method = "getBlocks" /\ c.bound # 0 THEN c.bound ELSE latest
    IN  IF c.method = "getBlocks" /\ Sub64(end, c.slot) > MaxRange
        THEN (c.slot + MaxRange) % Wrap ELSE end

Quota(c) ==
    IF c.method = "getBlocks" THEN Wrap
    ELSE IF c.method = "getBlocksWithLimit" THEN Min({c.bound, MaxRange})
    ELSE 1

InRange_BeforeEnd ==
    work.next < End(Head(calls), work.latest) /\ Len(work.found) < Quota(Head(calls))
InRange == work.next <= End(Head(calls), work.latest) /\ Len(work.found) < Quota(Head(calls))

(* One slot of the range; isBlockhashValid looks for one block.            *)
ScanSlot ==
    /\ At("scan", OfRange) /\ InRange
    /\ LET s == work.next
           wanted == Head(calls).method = "isBlockhashValid" => s = Head(calls).slot
       IN  GoOn([work EXCEPT
                   !.next = (s + 1) % Wrap,
                   !.found = IF HasBlock(s) /\ wanted THEN Append(@, s) ELSE @])

ScanEnd ==
    /\ At("scan", OfRange) /\ ~InRange
    /\ Answer("value", work.found)

-----------------------------------------------------------------------------
(* getSignatureStatuses: for each signature its transaction, then the      *)
(* metadata of its slot; a failure of either leaves the status null (0).   *)

ReadStatus ==
    /\ At("status", {"getSignatureStatuses"})
    /\ work.next <= Len(Head(calls).txs)
    /\ GoOn(IF HasTransaction(Head(calls).txs[work.next])
            THEN [work EXCEPT !.at = "meta"]
            ELSE [work EXCEPT !.next = @ + 1, !.found = Append(@, 0)])

ReadMeta ==
    /\ At("meta", {"getSignatureStatuses"})
    /\ LET s == SlotOf(Head(calls).txs[work.next])
           known == ~Closed /\ s \in DOMAIN slotMeta
       IN  GoOn([work EXCEPT !.at = "status", !.next = @ + 1,
                             !.found = Append(@, IF known THEN s ELSE 0)])

StatusesEnd ==
    /\ At("status", {"getSignatureStatuses"})
    /\ work.next > Len(Head(calls).txs)
    /\ Answer("value", work.found)

-----------------------------------------------------------------------------
Server ==
    \/ (\E p \in Posts : Accept(p) \/ Reject(p)) \/ Respond \/ Refuse
    \/ GetBlockTime \/ GetSlot \/ GetFirstAvailableBlock \/ GetBlockCommitment
    \/ GetMinimumBalanceForRentExemption \/ GetSignaturesForAddress
    \/ GetBlock \/ ClassifyMissing \/ GetTransaction \/ ReadTime
    \/ GetLatestSlot \/ ReadLatestBlock \/ ScanSlot \/ ScanEnd
    \/ ReadStatus \/ ReadMeta \/ StatusesEnd

(* The process ends with the store.                                        *)
ServerFollows ==
    IF phase' = "down"
    THEN calls' = <<>> /\ work' = Fresh /\ replies' = <<>>
    ELSE UNCHANGED serverVars

RpcNext == (Next /\ ServerFollows) \/ Server

(* The pruning goroutine runs: it finishes a pass, and takes a closed       *)
(* pruneStop; then Close, which waits for it, goes on.                     *)
RpcSpec ==
    /\ RpcInit /\ [][RpcNext]_allVars
    /\ WF_allVars(phase = "closing" /\ Pruner /\ ServerFollows)
    /\ WF_allVars(FinishClose /\ ServerFollows)

-----------------------------------------------------------------------------
(* The stored blocks a range should have: up to its end, the last block it *)
(* lists if it lists as many as asked for, and the latest slot it knew.    *)
Due(r) ==
    {s \in blocks : /\ Start(r.call, r.latest) <= s /\ s <= r.latest
                    /\ s <= End(r.call, r.latest)
                    /\ Len(r.value) = Quota(r.call) => s <= Last(r.value)}

Complete(r) ==
    LET c == r.call
    IN  /\ c.method \in {"getLatestBlockhash", "getRecentBlockhash"} /\ r.kind = "error"
             => r.latest = 0 \/ cache.latest > r.latest + Retain
        /\ c.method \in {"getBlocks", "getBlocksWithLimit"} /\ Quota(c) > 0
             => Due(r) \subseteq ToSet(r.value)
        /\ c.method = "isBlockhashValid" /\ r.value = <<>> => c.slot \notin Due(r)
        /\ c.method = "getTransaction" /\ r.kind = "value" /\ Len(r.value) = 1
             => Head(c.txs) \notin txBySig
        /\ c.method = "getSignatureStatuses"
             => \A j \in 1..Len(c.txs) :
                   r.value[j] = 0 /\ SlotOf(c.txs[j]) <= r.latest => c.txs[j] \notin txBySig

(* While the store is open, what was put and not pruned is found whatever  *)
(* happens between the reads of a handler:                                 *)
(*  - the blockhash methods fail only on an empty store, or when more than *)
(*    Retain slots were put and pruned since they took the latest slot;    *)
(*  - getBlocks and getBlocksWithLimit leave out no stored block up to the *)
(*    end of the range they were asked for, or the last block they list;   *)
(*  - isBlockhashValid denies no block of the valid range;                 *)
(*  - a transaction comes without its time, a signature known when the     *)
(*    latest slot was taken without a status, only if it was pruned.       *)
AnswersComplete ==
    Closed \/ \A i \in 1..Len(replies) :
                 replies[i].kind # "refused" => Complete(replies[i])
=============================================================================
