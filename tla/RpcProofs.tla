------------------------------ MODULE RpcProofs ------------------------------
(***************************************************************************)
(* Proofs about RpcServer, for every set of requests and on every store of *)
(* module Blockstore, whose invariant the server does not disturb.         *)
(***************************************************************************)
EXTENDS RpcServer, BlockstoreProofs, SequenceTheorems

WorkType == [at : Places, latest : Uint64, next : Uint64, found : Seq(Slots \cup {0})]

ServerTypes ==
    /\ calls \in Seq(CallType)
    /\ work \in WorkType
    /\ replies \in Seq(ReplyType)

(* Between calls the handler is reset; a server that is down has no calls. *)
ControlsOK ==
    /\ calls = <<>> \/ work.at = "start" => work = Fresh
    /\ phase = "down" => calls = <<>> /\ replies = <<>>

(* What a server knows of the latest slot was put, and a block that is no  *)
(* longer stored lies more than Retain slots behind the cached one.        *)
KnownOK ==
    phase # "down" =>
        /\ {cache.latest, work.latest} \subseteq everPut \cup {0}
        /\ work.latest <= cache.latest
        /\ \A s \in everPut \ blocks : s + Retain < cache.latest

(* The loop of getSignatureStatuses has come to a signature of the call,   *)
(* and those without a status were not indexed, nor will they be: a block  *)
(* put later is beyond the latest slot taken.                              *)
LoopOK ==
    LET n == Len(Head(calls).txs) IN
    /\ At("status", {"getSignatureStatuses"}) \/ At("meta", {"getSignatureStatuses"}) =>
          /\ n <= MaxStatuses /\ work.next \in 1..n + 1
          /\ Len(work.found) = work.next - 1
    /\ At("meta", {"getSignatureStatuses"}) => work.next <= n

NoneMissed(txs, latest, found, next) ==
    \A j \in 1..next - 1 : found[j] = 0 /\ SlotOf(txs[j]) <= latest => txs[j] \notin txBySig

StatusOK ==
    At("status", {"getSignatureStatuses"}) \/ At("meta", {"getSignatureStatuses"}) =>
        Closed \/ NoneMissed(Head(calls).txs, work.latest, work.found, work.next)

(* The blocks a range is about.                                            *)
Within(c, latest) ==
    {s \in blocks : /\ Start(c, latest) <= s /\ s <= latest
                    /\ c.method = "isBlockhashValid" => s = c.slot}

(* The scan has listed all blocks behind the slot it has come to, and only *)
(* such; or that slot has wrapped around, and it has listed every block.   *)
ScanOK ==
    At("scan", OfRange) =>
        LET due == Within(Head(calls), work.latest)
        IN  /\ Len(work.found) <= Quota(Head(calls))
            /\ \/ Closed
               \/ due \subseteq ToSet(work.found)
               \/ /\ \A s \in due : s < work.next => s \in ToSet(work.found)
                  /\ \A i \in 1..Len(work.found) : work.found[i] < work.next

(* Where a transaction was found, it was put.                              *)
TimeOK ==
    At("time", {"getTransaction"}) /\ ~Closed =>
        work.next \in everPut /\ Head(Head(calls).txs) \in TxsOf[work.next]

(* An answer is complete, and stays so: blocks put later lie beyond the    *)
(* latest slot it is about, and a pruned block does not come back.         *)
ReplyOK(r) ==
    /\ r.latest \in everPut \cup {0}
    /\ r.call.method # "getTransaction" => Complete(r)
    /\ r.call.method = "getTransaction" /\ r.kind = "value" /\ Len(r.value) = 1 =>
          r.value[1] \in everPut \ blocks /\ Head(r.call.txs) \in TxsOf[r.value[1]]

RepliesOK ==
    \A i \in 1..Len(replies) :
        Closed \/ replies[i].kind = "refused" \/ ReplyOK(replies[i])

ServerInv ==
    /\ IInv /\ ServerTypes /\ ControlsOK /\ KnownOK
    /\ LoopOK /\ StatusOK /\ ScanOK /\ TimeOK /\ RepliesOK

-----------------------------------------------------------------------------
(* The handlers change nothing of the store, whose invariant holds.        *)
LEMMA ServerReads == Server => UNCHANGED vars
<1>1. (\E p \in Posts : Accept(p) \/ Reject(p)) \/ Respond => UNCHANGED vars
  BY DEF Accept, Reject, Respond
<1>2. Refuse \/ GetBlockTime \/ GetSlot \/ GetFirstAvailableBlock \/ GetBlockCommitment
         \/ GetMinimumBalanceForRentExemption \/ GetSignaturesForAddress => UNCHANGED vars
  BY DEF Refuse, GetBlockTime, GetSlot, GetFirstAvailableBlock, GetBlockCommitment,
         GetMinimumBalanceForRentExemption, GetSignaturesForAddress, Answer, AnswerWith
<1>3. GetBlock \/ ClassifyMissing \/ GetTransaction \/ ReadTime => UNCHANGED vars
  BY DEF GetBlock, ClassifyMissing, GetTransaction, ReadTime, GoOn, Answer, AnswerWith
<1>4. GetLatestSlot \/ ReadLatestBlock \/ ScanSlot \/ ScanEnd => UNCHANGED vars
  BY DEF GetLatestSlot, ReadLatestBlock, ScanSlot, ScanEnd, GoOn, Answer, AnswerWith
<1>5. ReadStatus \/ ReadMeta \/ StatusesEnd => UNCHANGED vars
  BY DEF ReadStatus, ReadMeta, StatusesEnd, GoOn, Answer, AnswerWith
<1>. QED
  BY <1>1, <1>2, <1>3, <1>4, <1>5 DEF Server

(* A step of the server with its store is a step of the store, or none.    *)
LEMMA StoreStep == [RpcNext]_allVars => [Next]_vars
  BY ServerReads DEF RpcNext, allVars

(* The store served is a store: all that is proved of it holds here.       *)
LEMMA StoreHolds == RpcSpec => []IInv
<1>1. RpcInit => IInv
  BY InvInit DEF RpcInit
<1>2. IInv /\ [RpcNext]_allVars => IInv'
  BY StoreStep, InvStep
<1>. QED
  BY <1>1, <1>2, PTL DEF RpcSpec

-----------------------------------------------------------------------------
(* Answers and steps of handlers                                           *)

(* The fields of the call a handler is at work on.                         *)
LEMMA CallAtHand ==
    ASSUME ServerTypes, calls # <<>>
    PROVE  /\ Head(calls) \in CallType /\ Tail(calls) \in Seq(CallType)
           /\ Head(calls).slot \in Uint64 /\ Head(calls).bound \in Uint64
           /\ Head(calls).addr \in Addrs
           /\ Head(calls).txs \in Seq(Txs) /\ Len(Head(calls).txs) \in Nat
<1>1. Head(calls) \in CallType /\ Tail(calls) \in Seq(CallType)
  BY HeadTailProperties DEF ServerTypes
<1>2. Head(calls).txs \in Seq(Txs)
  BY <1>1 DEF CallType
<1>. QED
  BY <1>1, <1>2, LenProperties DEF CallType

(* An answer of the right kind keeps the types.                            *)
LEMMA AnswerTypes ==
    ASSUME ServerTypes, calls # <<>>,
           NEW kind \in Kinds, NEW value \in Seq(Nat), NEW txs \in Seq(Txs),
           AnswerWith(kind, value, txs)
    PROVE  ServerTypes'
<1>1. Reply(kind, value, txs) \in ReplyType
  <2>1. work.latest \in Uint64
    BY DEF ServerTypes, WorkType
  <2>. QED
    BY <2>1, CallAtHand DEF Reply, ReplyType
<1>2. replies' \in Seq(ReplyType)
  <2>. DEFINE reply == Reply(kind, value, txs)
  <2>1. replies' = Append(replies, reply)
    BY DEF AnswerWith
  <2>. HIDE DEF reply
  <2>. QED
    BY <1>1, <2>1, AppendProperties DEF ServerTypes, reply
<1>3. calls' \in Seq(CallType)
  BY CallAtHand DEF AnswerWith
<1>4. work' \in WorkType
  <2>1. Fresh \in WorkType
    BY StoreAssumption DEF Fresh, WorkType, Places, Uint64
  <2>. QED
    BY <2>1 DEF AnswerWith
<1>. QED
  BY <1>2, <1>3, <1>4 DEF ServerTypes

(* A handler that goes on to its next read keeps the types.                *)
LEMMA GoOnTypes ==
    ASSUME ServerTypes, NEW next \in WorkType, GoOn(next)
    PROVE  ServerTypes'
  BY DEF GoOn, ServerTypes

-----------------------------------------------------------------------------
(* The history of an address                                               *)

(* A set of slots that is not empty has a largest one.                     *)
LEMMA LargestSlot ==
    ASSUME NEW S, S \subseteq Slots, S # {}
    PROVE  \E s \in S : \A r \in S : r <= s
<1>. DEFINE T == {Wrap - s : s \in S}
<1>1. \A s \in S : s \in Nat /\ s < Wrap /\ Wrap \in Nat
  BY StoreAssumption
<1>2. T \subseteq Nat /\ T # {}
  BY <1>1
<1>3. Min(T) \in T /\ \A x \in T : Min(T) <= x
  <2>. HIDE DEF T
  <2>. QED
    BY <1>2, MinIsLeast
<1>4. PICK s \in S : Min(T) = Wrap - s
  BY <1>3
<1>5. ASSUME NEW r \in S PROVE r <= s
  <2>1. Min(T) <= Wrap - r
    BY <1>3
  <2>. QED
    BY <1>1, <1>4, <2>1
<1>. QED
  BY <1>5

(* Each place of the history has a slot, as many slots being newer as      *)
(* there are places before it.                                             *)
LEMMA NewestSlot ==
    ASSUME NEW S, S \subseteq Slots, NEW i \in 1..Cardinality(S)
    PROVE  \E s \in S : Cardinality({r \in S : r > s}) = i - 1
<1>. DEFINE Above(s) == {r \in S : r > s}
            Places0 == {n \in 1..Cardinality(S) : ~ \E s \in S : Cardinality(Above(s)) = n - 1}
<1>. SUFFICES ASSUME Places0 # {} PROVE FALSE
  OBVIOUS
<1>1. /\ IsFiniteSet(S) /\ Cardinality(S) \in Nat /\ S # {}
      /\ \A s \in S : s \in Nat
  <2>1. IsFiniteSet(S) /\ Cardinality(S) \in Nat
    BY SlotSets
  <2>2. S # {}
    BY <2>1, FS_EmptySet
  <2>. QED
    BY <2>1, <2>2, StoreAssumption
<1>2. PICK n \in Places0 : \A m \in Places0 : n <= m
  <2>1. Places0 \subseteq Nat
    BY <1>1
  <2>. HIDE DEF Places0
  <2>. QED
    BY <2>1, MinIsLeast
<1>3. CASE n = 1
  <2>1. PICK s \in S : \A r \in S : r <= s
    BY <1>1, LargestSlot
  <2>2. Above(s) = {}
    BY <1>1, <2>1
  <2>3. Cardinality(Above(s)) = 0
    BY <2>2, FS_EmptySet
  <2>4. Cardinality(Above(s)) = n - 1
    BY <1>3, <2>3
  <2>. HIDE DEF Above
  <2>. QED
    BY <1>2, <2>4
<1>4. CASE n # 1
  <2>1. n - 1 \in 1..Cardinality(S) /\ n - 1 < n /\ (n - 1) - 1 = n - 2
    BY <1>1, <1>2, <1>4
  <2>2. PICK s \in S : Cardinality(Above(s)) = n - 2
    BY <1>1, <1>2, <2>1
  <2>. DEFINE most == Above(s) \cup {s}
              rest == S \ most
  <2>3. most \subseteq S /\ s \notin Above(s) /\ Above(s) \subseteq Slots /\ most \subseteq Slots
    BY <1>1
  <2>4. Cardinality(most) = n - 1
    <3>1. Cardinality(Above(s) \cup {s}) = Cardinality(Above(s)) + 1
      <4>. HIDE DEF Above
      <4>. QED
        BY <2>3, SlotSetSteps
    <3>. QED
      BY <1>1, <1>2, <2>2, <3>1
  <2>5. rest # {}
    <3>1. rest = {} => most = S
      BY <2>3
    <3>. HIDE DEF most, rest
    <3>. QED
      BY <1>1, <1>2, <2>4, <3>1
  <2>6. PICK q \in rest : \A r \in rest : r <= q
    <3>1. rest \subseteq Slots
      OBVIOUS
    <3>. HIDE DEF rest
    <3>. QED
      BY <2>5, <3>1, LargestSlot
  <2>7. q \in S /\ q < s
    BY <1>1, <2>6
  <2>8. Above(q) = most
    <3>1. \A r \in S : r > q <=> r \in most
      <4>1. \A r \in S : r \in Nat /\ q \in Nat /\ s \in Nat
        BY <1>1, <2>7
      <4>2. \A r \in S : r \in rest => ~ (r > q)
        BY <2>6, <4>1
      <4>3. \A r \in S : r \in most => r >= s
        BY <4>1
      <4>. QED
        BY <2>7, <4>1, <4>2, <4>3
    <3>. QED
      BY <2>3, <3>1
  <2>. HIDE DEF Above, most
  <2>. QED
    BY <1>2, <2>4, <2>7, <2>8
<1>. QED
  BY <1>3, <1>4

(* It is made of transactions of the store: the first, in each slot, that  *)
(* has the address.                                                        *)
LEMMA HistoryTypes ==
    ASSUME TypeOK, IndexMatchesBlocks, NEW a
    PROVE  AddressHistory(a) \in Seq(Txs)
<1>. DEFINE slots == {s \in Slots : <<a, s>> \in addrSigs}
            newest(i) == CHOOSE s \in slots : Cardinality({r \in slots : r > s}) = i - 1
            first(s) == CHOOSE t \in TxsOf[s] :
                           /\ a \in AddrsOf[t]
                           /\ \A u \in TxsOf[s] : a \in AddrsOf[u] => Position[t] <= Position[u]
<1>1. ASSUME NEW i \in 1..Cardinality(slots)
      PROVE  newest(i) \in slots
  <2>1. slots \subseteq Slots
    OBVIOUS
  <2>. HIDE DEF slots
  <2>2. \E s \in slots : Cardinality({r \in slots : r > s}) = i - 1
    BY <2>1, NewestSlot
  <2>. QED
    BY <2>2
<1>2. ASSUME NEW s \in slots
      PROVE  first(s) \in Txs
  <2>. DEFINE T == {t \in TxsOf[s] : a \in AddrsOf[t]}
              P == {Position[t] : t \in T}
  <2>1. T \subseteq Txs /\ TxsOf[s] \subseteq Txs
    BY StoreAssumption
  <2>2. T # {}
    <3>1. PICK b \in blocks : <<a, s>> \in AddrKeys(b)
      BY DEF IndexMatchesBlocks
    <3>2. b = s /\ a \in UNION {AddrsOf[t] : t \in TxsOf[s]}
      BY <3>1 DEF AddrKeys
    <3>. QED
      BY <3>2
  <2>3. P \subseteq Nat /\ P # {}
    BY <2>1, <2>2, RpcAssumption
  <2>4. Min(P) \in P /\ \A x \in P : Min(P) <= x
    <3>. HIDE DEF P
    <3>. QED
      BY <2>3, MinIsLeast
  <2>5. PICK t \in T : Position[t] = Min(P)
    BY <2>4
  <2>6. \A u \in TxsOf[s] : a \in AddrsOf[u] => Position[t] <= Position[u]
    BY <2>4, <2>5
  <2>7. first(s) \in TxsOf[s]
    BY <2>5, <2>6
  <2>. QED
    BY <2>1, <2>7
<1>3. Cardinality(slots) \in Nat
  <2>1. slots \subseteq Slots
    OBVIOUS
  <2>. HIDE DEF slots
  <2>. QED
    BY <2>1, SlotSets
<1>4. AddressHistory(a) = [i \in 1..Cardinality(slots) |-> first(newest(i))]
  BY DEF AddressHistory
<1>. HIDE DEF slots, newest, first
<1>5. \A i \in 1..Cardinality(slots) : first(newest(i)) \in Txs
  BY <1>1, <1>2
<1>. QED
  BY <1>3, <1>4, <1>5

-----------------------------------------------------------------------------
(* Every step of a handler leaves the types alone.                         *)

(* Short sequences, with their types.                                      *)
LEMMA Tuples ==
    /\ <<>> \in Seq(Nat) /\ <<>> \in Seq(Txs) /\ <<>> \in Seq(CallType) /\ <<>> \in Seq(ReplyType)
    /\ \A m, n \in Nat : <<m>> \in Seq(Nat) /\ <<m, n>> \in Seq(Nat)
    /\ \A r \in ReplyType : <<r>> \in Seq(ReplyType)
  OBVIOUS

(* The cached fields are 64-bit numbers.                                   *)
LEMMA CacheTypes ==
    ASSUME TypeOK
    PROVE  /\ cache.latest \in Uint64 /\ cache.finalized \in Uint64
           /\ cache.confirmed \in Uint64 /\ cache.oldest \in Uint64
  BY FieldsOfMetadata DEF TypeOK, Fields

(* The 64-bit numbers, and that a remainder is one.                        *)
LEMMA Uint64IsNat == Uint64 \subseteq Nat /\ Wrap \in Nat \ {0} /\ \A n \in Nat : n % Wrap \in Uint64
  BY StoreAssumption DEF Uint64

(* A transaction lies in one slot, an indexed one in a stored block.       *)
LEMMA SlotOfTx ==
    ASSUME NEW s \in Slots, NEW t \in TxsOf[s]
    PROVE  SlotOf(t) = s
  BY StoreAssumption DEF SlotOf

(* A transaction in the index lies in a stored block, which is the one of  *)
(* its slot.                                                               *)
LEMMA IndexedTx ==
    ASSUME IInv, NEW t \in txBySig
    PROVE  SlotOf(t) \in blocks /\ SlotOf(t) \in Slots /\ t \in TxsOf[SlotOf(t)]
<1>1. PICK s \in blocks : t \in TxsOf[s]
  BY DEF IInv, IndexMatchesBlocks
<1>2. s \in Slots
  BY DEF IInv, TypeOK
<1>. QED
  BY <1>1, <1>2, SlotOfTx

(* Slots are 64-bit numbers, and none is 0.                                *)
LEMMA SlotsFit == Slots \subseteq Uint64 /\ Slots \subseteq Nat \ {0} /\ 0 \in Uint64
  BY StoreAssumption DEF Uint64

(* A sequence over a set is one over every larger set.                     *)
LEMMA SeqWidens ==
    ASSUME NEW S, NEW T, S \subseteq T, NEW q \in Seq(S)
    PROVE  q \in Seq(T)
  OBVIOUS

(* Quotient and remainder are natural numbers.                             *)
LEMMA Division ==
    ASSUME NEW n \in Nat, NEW k \in Nat \ {0}
    PROVE  n \div k \in Nat /\ n % k \in Nat
  OBVIOUS

(* The number after a 64-bit number, before and after it wraps.            *)
LEMMA Following ==
    ASSUME NEW n \in Uint64
    PROVE  n \in Nat /\ n + 1 \in Nat /\ (n + 1) % Wrap \in Uint64
<1>1. n \in Nat
  BY StoreAssumption DEF Uint64
<1>2. n + 1 \in Nat
  BY <1>1
<1>. QED
  BY <1>1, <1>2, Uint64IsNat

(* The loop over the signatures of one call does not count up to Wrap.     *)
LEMMA StatusFits ==
    ASSUME NEW n \in Nat, NEW m \in Nat, n <= m, m <= MaxStatuses
    PROVE  n + 1 \in Uint64
<1>1. MaxStatuses \in Nat /\ Wrap \in Nat /\ MaxStatuses + 1 < Wrap
  BY RpcAssumption, StoreAssumption
<1>. QED
  BY <1>1 DEF Uint64

(* The bounds of a range are slots, and so are all it collects.            *)
LEMMA RangeTypes ==
    ASSUME NEW c \in CallType, NEW latest \in Uint64
    PROVE  /\ Start(c, latest) \in Uint64 /\ End(c, latest) \in Uint64
           /\ Quota(c) \in Nat
<1>1. /\ c.slot \in Uint64 /\ c.bound \in Uint64
      /\ MaxRange \in Nat /\ ValidRange \in Nat
  BY RpcAssumption DEF CallType
<1>2. Start(c, latest) \in Uint64
  BY <1>1, StoreAssumption DEF Start, Uint64
<1>3. End(c, latest) \in Uint64
  <2>1. c.slot + MaxRange \in Nat
    <3>1. c.slot \in Nat
      BY <1>1, StoreAssumption DEF Uint64
    <3>. QED
      BY <1>1, <3>1
  <2>2. (c.slot + MaxRange) % Wrap \in Uint64
    BY <2>1, Uint64IsNat
  <2>. QED
    BY <1>1, <2>2 DEF End
<1>4. Quota(c) \in Nat
  <2>1. {c.bound, MaxRange} \subseteq Nat
    BY <1>1, Uint64IsNat
  <2>2. Min({c.bound, MaxRange}) \in Nat
    BY <2>1, MinIsLeast
  <2>. QED
    BY <2>2, Uint64IsNat DEF Quota
<1>. QED
  BY <1>2, <1>3, <1>4

(* Accepting, refusing and closing a request keep the types.               *)
LEMMA RequestTypes ==
    ASSUME ServerTypes, (\E p \in Posts : Accept(p) \/ Reject(p)) \/ Respond
    PROVE  ServerTypes'
<1>. USE DEF ServerTypes
<1>1. ASSUME NEW p \in Posts, Accept(p) PROVE ServerTypes'
  <2>1. p \in PostType
    BY RpcAssumption
  <2>. QED
    BY <1>1, <2>1 DEF Accept, PostType
<1>2. ASSUME NEW p \in Posts, Reject(p) PROVE ServerTypes'
  <2>. DEFINE r == [kind |-> "refused", txs |-> <<>>]
  <2>1. r \in ReplyType
    BY DEF ReplyType
  <2>2. replies' = <<r>> /\ UNCHANGED <<calls, work>>
    BY <1>2 DEF Reject
  <2>. HIDE DEF r
  <2>. QED
    BY <2>1, <2>2
<1>3. CASE Respond
  BY <1>3 DEF Respond
<1>. QED
  BY <1>1, <1>2, <1>3

-----------------------------------------------------------------------------
(* The store under a running handler                                       *)

(* While a process runs, a block is put beyond all that were ever put, and *)
(* only blocks more than Retain slots behind the latest are pruned.        *)
LEMMA StoreMoves ==
    ASSUME IInv, [Next]_vars, phase # "down", phase' # "down"
    PROVE  /\ phase' = "open" => phase = "open"
           /\ \/ \E s \in Slots : /\ blocks' = blocks \cup {s} /\ everPut' = everPut \cup {s}
                                  /\ \A e \in everPut : e < s
                                  /\ cache'.latest = cache.latest
              \/ /\ everPut' = everPut /\ blocks' \subseteq blocks
                 /\ \A s \in blocks \ blocks' : s + Retain < cache.latest
                 /\ cache'.latest \in everPut \cup {cache.latest}
                 /\ cache.latest <= cache'.latest
<1>. USE DEF bucketVars, pruneVars, setVars, histVars
<1>1. /\ TypeOK /\ LatestOK /\ PruneOK /\ ControlOK
      /\ cache.latest \in Nat /\ cache \in [DOMAIN NoSlots -> Uint64]
      /\ "latest" \in DOMAIN NoSlots
  BY CacheTypes, Uint64IsNat DEF IInv, TypeOK, NoSlots
<1>2. CASE \E s \in Slots : PutBlock(s)
  <2>1. PICK s \in Slots : PutBlock(s)
    BY <1>2
  <2>2. \A e \in everPut : e < s
    <3>1. \A e \in everPut : e \in Nat /\ e <= disk.latest /\ disk.latest \in Nat /\ s \in Nat
      BY <1>1, FieldsOfMetadata, SlotsFit, Uint64IsNat DEF LatestOK, TypeOK, Fields
    <3>. QED
      BY <2>1, <3>1 DEF PutBlock
  <2>. QED
    BY <2>1, <2>2 DEF PutBlock
<1>3. CASE UpdateCache
  <2>1. putting \in everPut /\ putting \in Nat
    BY <1>1, <1>3, SlotsFit DEF UpdateCache, LatestOK, TypeOK
  <2>2. cache'.latest = Larger(putting, cache.latest)
    BY <1>1, <1>3 DEF UpdateCache
  <2>. QED
    BY <1>1, <1>3, <2>1, <2>2 DEF UpdateCache, Larger
<1>4. CASE EraseBlock
  <2>1. victim < cutoff /\ cutoff + Retain <= cache.latest /\ victim \in Nat /\ cutoff \in Nat
    BY <1>1, <1>4, SlotsFit, Uint64IsNat DEF EraseBlock, PruneOK, ControlOK, Erasing, Prunable, TypeOK
  <2>2. victim + Retain < cache.latest
    BY <1>1, <2>1, StoreAssumption
  <2>. QED
    BY <1>1, <1>4, <2>2 DEF EraseBlock
<1>5. CASE Open \/ Crash \/ FinishClose
  BY <1>5 DEF Open, Crash, FinishClose, Forget
<1>6. CASE UNCHANGED <<blocks, everPut>> /\ cache'.latest = cache.latest
           /\ (phase' = "open" => phase = "open")
  BY <1>1, <1>6
<1>7. CASE BeginClose \/ PruneBegin \/ PruneList \/ PruneTally \/ PruneSave
  BY <1>1, <1>6, <1>7 DEF BeginClose, PruneBegin, PruneList, PruneTally, PruneSave
<1>8. CASE MarkSlot
  <2>1. cache'.latest = cache.latest
    BY <1>1, <1>8 DEF MarkSlot
  <2>. QED
    BY <1>6, <1>8, <2>1 DEF MarkSlot
<1>9. CASE Aside
  BY <1>6, <1>9, AsideFrame
<1>. QED
  BY <1>2, <1>3, <1>4, <1>5, <1>7, <1>8, <1>9 DEF Next, Pruner, Aside

(* It stays so that what is not stored lies far behind.                    *)
LEMMA KnownStoreStep ==
    ASSUME IInv, IInv', ServerTypes, ControlsOK, KnownOK, [Next]_vars, ServerFollows
    PROVE  KnownOK'
<1>. SUFFICES ASSUME phase' # "down" PROVE KnownOK'
  BY DEF KnownOK
<1>1. UNCHANGED serverVars
  BY DEF ServerFollows
<1>2. /\ work'.latest = work.latest /\ work.latest \in Nat
      /\ cache.latest \in Nat /\ cache'.latest \in Nat
      /\ everPut \subseteq Nat /\ everPut' \subseteq Nat /\ Retain \in Nat
  <2>1. TypeOK /\ TypeOK'
    BY DEF IInv
  <2>2. cache.latest \in Nat /\ cache'.latest \in Nat
    BY <2>1, FieldsOfMetadata, Uint64IsNat DEF TypeOK, Fields
  <2>. QED
    BY <1>1, <2>1, <2>2, SlotsFit, Uint64IsNat, StoreAssumption
       DEF serverVars, ServerTypes, WorkType, TypeOK
<1>3. CASE phase = "down"
  <2>1. work.latest = 0
    BY <1>3 DEF ControlsOK, Fresh
  <2>2. UNCHANGED <<blocks, everPut>> /\ cache' = disk
    <3>1. Open
      <4>1. prune = "exited" /\ putting = 0 /\ setting = "idle"
        BY <1>3 DEF IInv, ControlOK
      <4>2. ~ (UNCHANGED vars)
        BY <1>3 DEF vars
      <4>. QED
        BY <1>3, <4>1, <4>2 DEF Next, Pruner, Crash, BeginClose, FinishClose, PutBlock,
           UpdateCache, PruneBegin, PruneList, DeleteRead, DeleteRefused, EraseBlock,
           PruneTally, PruneSave, PrunerExit, SetCommitment, WriteMeta, MarkSlot, SetRoot
    <3>. QED
      BY <3>1 DEF Open, bucketVars, histVars
  <2>3. \A s \in everPut \ blocks : s + Retain < disk.latest
    <3>1. disk.latest \in Nat
      BY <1>2, <2>2
    <3>2. \A e \in everPut : e <= disk.latest
      BY DEF IInv, LatestOK
    <3>3. ASSUME NEW s \in everPut \ blocks PROVE s + Retain < disk.latest
      <4>1. PICK t \in everPut : ~ (s + Retain >= t)
        BY <3>3 DEF IInv, RecentBlocksKept
      <4>. QED
        BY <1>2, <3>1, <3>2, <4>1
    <3>. QED
      BY <3>3
  <2>4. disk.latest \in everPut \cup {0}
    BY DEF IInv, LatestOK
  <2>. QED
    BY <1>2, <2>1, <2>2, <2>3, <2>4 DEF KnownOK
<1>4. CASE phase # "down"
  <2>1. /\ {cache.latest, work.latest} \subseteq everPut \cup {0} /\ work.latest <= cache.latest
        /\ \A s \in everPut \ blocks : s + Retain < cache.latest
    BY <1>4 DEF KnownOK
  <2>2. CASE \E s \in Slots : /\ blocks' = blocks \cup {s} /\ everPut' = everPut \cup {s}
                              /\ cache'.latest = cache.latest
    BY <1>2, <2>1, <2>2 DEF KnownOK
  <2>3. CASE /\ everPut' = everPut /\ blocks' \subseteq blocks
             /\ \A s \in blocks \ blocks' : s + Retain < cache.latest
             /\ cache'.latest \in everPut \cup {cache.latest}
             /\ cache.latest <= cache'.latest
    <3>1. \A s \in everPut' \ blocks' : s + Retain < cache.latest
      BY <2>1, <2>3
    <3>2. \A s \in everPut' \ blocks' : s + Retain < cache'.latest
      BY <1>2, <2>3, <3>1
    <3>. QED
      BY <1>2, <2>1, <2>3, <3>2 DEF KnownOK
  <2>. QED
    BY <1>4, <2>2, <2>3, StoreMoves
<1>. QED
  BY <1>3, <1>4
(* Up to a slot that was put, blocks and transactions only go.             *)
LEMMA OnlyGoes ==
    ASSUME IInv, IInv', [Next]_vars, phase # "down", phase' # "down",
           NEW e \in everPut \cup {0}
    PROVE  /\ \A s \in blocks' : s <= e => s \in blocks
           /\ \A t \in txBySig' : SlotOf(t) <= e => t \in txBySig
           /\ e \in everPut' \cup {0}
           /\ e \in everPut \ blocks => e \in everPut' \ blocks'
           /\ cache.latest <= cache'.latest
<1>1. /\ TypeOK /\ TypeOK' /\ everPut \subseteq Slots /\ blocks' \subseteq Slots
      /\ blocks \subseteq everPut
  BY DEF IInv, TypeOK, LatestOK
<1>2. cache.latest \in Nat /\ e \in Nat /\ \A s \in Slots : s \in Nat \ {0}
  BY <1>1, FieldsOfMetadata, SlotsFit, Uint64IsNat DEF TypeOK, Fields
<1>3. \/ \E s \in Slots : /\ blocks' = blocks \cup {s} /\ everPut' = everPut \cup {s}
                          /\ \A p \in everPut : p < s
                          /\ cache'.latest = cache.latest
      \/ /\ everPut' = everPut /\ blocks' \subseteq blocks
         /\ cache.latest <= cache'.latest
  BY StoreMoves
<1>4. \A s \in blocks' : s <= e => s \in blocks
  BY <1>1, <1>2, <1>3
<1>5. ASSUME NEW t \in txBySig', SlotOf(t) <= e PROVE t \in txBySig
  <2>1. PICK s \in blocks' : t \in TxsOf[s]
    BY DEF IInv, IndexMatchesBlocks
  <2>2. SlotOf(t) = s
    BY <1>1, <2>1, SlotOfTx
  <2>3. s \in blocks
    BY <1>4, <1>5, <2>1, <2>2
  <2>. QED
    BY <2>1, <2>3 DEF IInv, IndexMatchesBlocks
<1>6. e \in everPut \ blocks => e \in everPut' \ blocks'
  BY <1>1, <1>2, <1>3
<1>7. e \in everPut' \cup {0} /\ cache.latest <= cache'.latest
  BY <1>2, <1>3
<1>. QED
  BY <1>4, <1>5, <1>6, <1>7

(* An answer that is complete stays so.                                    *)
LEMMA ReplyStays ==
    ASSUME IInv, IInv', [Next]_vars, phase # "down", phase' # "down",
           NEW r \in ReplyType, r.kind # "refused", ReplyOK(r)
    PROVE  ReplyOK(r)'
<1>1. /\ r.call \in CallType /\ r.latest \in Nat /\ r.value \in Seq(Nat)
      /\ r.latest \in everPut \cup {0}
  BY Uint64IsNat DEF ReplyType, ReplyOK
<1>2. cache.latest \in Nat /\ cache'.latest \in Nat /\ blocks' \subseteq Nat /\ Retain \in Nat
  BY FieldsOfMetadata, SlotsFit, Uint64IsNat, StoreAssumption DEF IInv, TypeOK, Fields
<1>3. /\ \A s \in blocks' : s <= r.latest => s \in blocks
      /\ \A t \in txBySig' : SlotOf(t) <= r.latest => t \in txBySig
      /\ r.latest \in everPut' \cup {0}
      /\ cache.latest <= cache'.latest
  BY <1>1, OnlyGoes
<1>4. Due(r)' \subseteq Due(r)
  BY <1>3 DEF Due
<1>5. ASSUME r.call.method # "getTransaction" PROVE Complete(r)'
  <2>1. Complete(r)
    BY <1>5 DEF ReplyOK
  <2>2. r.call.method \in {"getLatestBlockhash", "getRecentBlockhash"} /\ r.kind = "error"
           => r.latest = 0 \/ cache'.latest > r.latest + Retain
    BY <1>1, <1>2, <1>3, <2>1 DEF Complete
  <2>3. r.call.method \in {"getBlocks", "getBlocksWithLimit"} /\ Quota(r.call) > 0
           => Due(r)' \subseteq ToSet(r.value)
    BY <1>4, <2>1, Zenon DEF Complete
  <2>4. r.call.method = "isBlockhashValid" /\ r.value = <<>> => r.call.slot \notin Due(r)'
    BY <1>4, <2>1, Zenon DEF Complete
  <2>5. r.call.method = "getSignatureStatuses"
           => \A j \in 1..Len(r.call.txs) :
                 r.value[j] = 0 /\ SlotOf(r.call.txs[j]) <= r.latest
                    => r.call.txs[j] \notin txBySig'
    BY <1>3, <2>1, Zenon DEF Complete
  <2>. QED
    BY <1>5, <2>2, <2>3, <2>4, <2>5 DEF Complete
<1>6. ASSUME r.call.method = "getTransaction", r.kind = "value", Len(r.value) = 1
      PROVE  r.value[1] \in everPut' \ blocks' /\ Head(r.call.txs) \in TxsOf[r.value[1]]
  <2>1. r.value[1] \in everPut \ blocks /\ Head(r.call.txs) \in TxsOf[r.value[1]]
    BY <1>6 DEF ReplyOK
  <2>. QED
    BY <2>1, OnlyGoes
<1>. QED
  BY <1>3, <1>5, <1>6 DEF ReplyOK

(* So does the work of a handler.                                          *)
LEMMA WorkStays ==
    ASSUME IInv, IInv', ServerTypes, [Next]_vars, phase = "open", phase' = "open",
           UNCHANGED serverVars, KnownOK
    PROVE  /\ ScanOK => ScanOK'
           /\ TimeOK => TimeOK'
           /\ StatusOK => StatusOK'
<1>1. work.latest \in everPut \cup {0}
  BY DEF KnownOK
<1>2. /\ \A s \in blocks' : s <= work.latest => s \in blocks
      /\ \A t \in txBySig' : SlotOf(t) <= work.latest => t \in txBySig
      /\ \A e \in everPut : e \in everPut' \cup {0}
      /\ 0 \notin everPut
  <2>1. 0 \notin everPut
    BY SlotsFit DEF IInv, TypeOK
  <2>. QED
    BY <1>1, <2>1, OnlyGoes
<1>3. /\ work' = work /\ calls' = calls
      /\ \A place, methods : At(place, methods)' <=> At(place, methods)
  BY DEF serverVars, At
<1>4. ScanOK => ScanOK'
  <2>1. Within(Head(calls), work.latest)' \subseteq Within(Head(calls), work.latest)
    BY <1>2, <1>3 DEF Within
  <2>. QED
    BY <1>3, <2>1 DEF ScanOK, Closed, At
<1>5. TimeOK => TimeOK'
  BY <1>2, <1>3 DEF TimeOK, Closed, At
<1>6. StatusOK => StatusOK'
  <2>1. NoneMissed(Head(calls).txs, work.latest, work.found, work.next)
           => NoneMissed(Head(calls).txs, work.latest, work.found, work.next)'
    BY <1>2, <1>3 DEF NoneMissed
  <2>. QED
    BY <1>3, <2>1 DEF StatusOK, Closed, At
<1>. QED
  BY <1>4, <1>5, <1>6
(* Only the loops and the read of a block's time have something to keep.   *)
LEMMA NoLoop ==
    calls = <<>> \/ work.at \in {"start", "latest", "block"}
        => LoopOK /\ StatusOK /\ ScanOK /\ TimeOK
  BY DEF LoopOK, StatusOK, ScanOK, TimeOK, At

(* The handler before its first read.                                      *)
LEMMA FreshTypes == Fresh \in WorkType /\ Fresh.at = "start" /\ Fresh.latest = 0
  BY SlotsFit DEF Fresh, WorkType, Places

(* A step of the store keeps all that is known of the request in progress: *)
(* it only grows everPut and, but for a crash, leaves the server alone.    *)
LEMMA StoreKeepsServer == ServerInv /\ [Next]_vars /\ ServerFollows => ServerInv'
<1>. SUFFICES ASSUME ServerInv, [Next]_vars, ServerFollows PROVE ServerInv'
  OBVIOUS
<1>. USE DEF ServerInv
<1>1. IInv'
  BY InvStep
<1>2. KnownOK'
  BY <1>1, KnownStoreStep
<1>3. CASE phase' = "down"
  <2>1. calls' = <<>> /\ work' = Fresh /\ replies' = <<>>
    BY <1>3 DEF ServerFollows
  <2>2. ServerTypes'
    BY <2>1, FreshTypes, Tuples DEF ServerTypes
  <2>3. ControlsOK' /\ RepliesOK'
    BY <2>1 DEF ControlsOK, RepliesOK
  <2>4. (calls = <<>>)' => (LoopOK /\ StatusOK /\ ScanOK /\ TimeOK)'
    BY NoLoop, PTL
  <2>. QED
    BY <1>1, <1>2, <2>1, <2>2, <2>3, <2>4
<1>4. CASE phase' # "down"
  <2>1. UNCHANGED serverVars
    BY <1>4 DEF ServerFollows
  <2>2. ServerTypes' /\ ControlsOK' /\ LoopOK'
    BY <1>4, <2>1 DEF serverVars, ServerTypes, ControlsOK, LoopOK, At
  <2>3. CASE phase = "down"
    <3>1. calls' = <<>> /\ replies' = <<>>
      BY <2>1, <2>3 DEF ControlsOK, serverVars
    <3>2. (calls = <<>>)' => (LoopOK /\ StatusOK /\ ScanOK /\ TimeOK)'
      BY NoLoop, PTL
    <3>3. RepliesOK'
      BY <3>1 DEF RepliesOK
    <3>. QED
      BY <1>1, <1>2, <2>2, <3>1, <3>2, <3>3
  <2>4. CASE phase # "down" /\ phase' # "open"
    <3>1. StatusOK' /\ TimeOK' /\ RepliesOK'
      BY <2>4 DEF StatusOK, TimeOK, RepliesOK, Closed
    <3>2. ScanOK'
      BY <2>1, <2>4 DEF ScanOK, Closed, At, serverVars
    <3>. QED
      BY <1>1, <1>2, <2>2, <3>1, <3>2
  <2>5. CASE phase # "down" /\ phase' = "open"
    <3>1. phase = "open"
      BY <2>5, StoreMoves
    <3>2. ScanOK' /\ TimeOK' /\ StatusOK'
      BY <1>1, <2>1, <2>5, <3>1, WorkStays
    <3>3. RepliesOK'
      <4>1. replies' = replies /\ replies \in Seq(ReplyType)
        BY <2>1 DEF serverVars, ServerTypes
      <4>2. ASSUME NEW i \in 1..Len(replies), replies[i].kind # "refused"
            PROVE  ReplyOK(replies[i])'
        <5>. DEFINE r == replies[i]
        <5>1. r \in ReplyType
          BY <4>1, ElementOfSeq
        <5>2. r.kind # "refused" /\ ReplyOK(r)
          BY <3>1, <4>2 DEF RepliesOK, Closed
        <5>. HIDE DEF r
        <5>3. \A q \in ReplyType : q.kind # "refused" /\ ReplyOK(q) => ReplyOK(q)'
          BY <1>1, <2>5, ReplyStays
        <5>4. r' = r
          BY <4>1 DEF r
        <5>5. ReplyOK(r)'
          BY <5>1, <5>2, <5>3, <5>4
        <5>. QED
          BY <5>5 DEF r
      <4>. QED
        BY <4>1, <4>2 DEF RepliesOK
    <3>. QED
      BY <1>1, <1>2, <2>2, <3>2, <3>3
  <2>. QED
    BY <2>3, <2>4, <2>5
<1>. QED
  BY <1>3, <1>4

-----------------------------------------------------------------------------
(* The server over a store that stands still                               *)

(* Whether an answer is complete depends on the store alone.               *)
LEMMA ReplyFrame ==
    ASSUME UNCHANGED vars, NEW r
    PROVE  ReplyOK(r)' <=> ReplyOK(r)
  BY DEF ReplyOK, Complete, Due, vars, bucketVars, histVars

(* An answer keeps the invariant if it is itself complete.                 *)
LEMMA AnswerInv ==
    ASSUME ServerInv, calls # <<>>,
           NEW kind \in Kinds, NEW value \in Seq(Nat), NEW txs \in Seq(Txs),
           AnswerWith(kind, value, txs),
           Closed \/ kind = "refused" \/ ReplyOK(Reply(kind, value, txs))
    PROVE  ServerInv'
<1>. USE DEF ServerInv
<1>. DEFINE reply == Reply(kind, value, txs)
<1>1. UNCHANGED vars /\ work' = Fresh /\ replies' = Append(replies, reply)
  BY DEF AnswerWith
<1>2. IInv'
  BY <1>1, InvStep
<1>3. ServerTypes'
  BY AnswerTypes
<1>4. ControlsOK' /\ KnownOK'
  <2>1. phase' = phase /\ phase # "down"
    BY <1>1 DEF ControlsOK, vars
  <2>2. cache.latest \in Nat
    BY CacheTypes, Uint64IsNat DEF IInv
  <2>. QED
    BY <1>1, <2>1, <2>2, FreshTypes DEF ControlsOK, KnownOK, vars, bucketVars, histVars
<1>5. LoopOK' /\ StatusOK' /\ ScanOK' /\ TimeOK'
  <2>1. (work.at = "start")'
    BY <1>1, FreshTypes
  <2>2. (work.at \in {"start", "latest", "block"})' => (LoopOK /\ StatusOK /\ ScanOK /\ TimeOK)'
    BY NoLoop, PTL
  <2>. QED
    BY <2>1, <2>2
<1>6. RepliesOK'
  <2>1. replies \in Seq(ReplyType) /\ replies' \in Seq(ReplyType) /\ Len(replies) \in Nat
    BY <1>3, LenProperties DEF ServerTypes
  <2>2. Closed' <=> Closed
    BY <1>1 DEF Closed, vars
  <2>3. reply.kind = kind
    BY DEF Reply
  <2>. HIDE DEF reply
  <2>4. /\ Len(replies') = Len(replies) + 1 /\ replies'[Len(replies) + 1] = reply
        /\ \A i \in 1..Len(replies) : replies'[i] = replies[i]
    BY <1>1, <2>1, AppendProperties
  <2>5. Closed \/ reply.kind = "refused" \/ ReplyOK(reply)
    BY <2>3 DEF reply
  <2>6. ASSUME NEW i \in 1..Len(replies')
        PROVE  Closed \/ replies'[i].kind = "refused" \/ ReplyOK(replies'[i])
    <3>1. CASE i = Len(replies) + 1
      <4>1. replies'[i] = reply
        BY <2>4, <3>1
      <4>. QED
        BY <2>5, <4>1
    <3>2. CASE i \in 1..Len(replies)
      <4>1. replies'[i] = replies[i]
        BY <2>4, <3>2
      <4>2. Closed \/ replies[i].kind = "refused" \/ ReplyOK(replies[i])
        BY <3>2 DEF RepliesOK
      <4>. QED
        BY <4>1, <4>2
    <3>. QED
      BY <2>1, <2>4, <3>1, <3>2
  <2>7. \A r : ReplyOK(r)' <=> ReplyOK(r)
    BY <1>1, ReplyFrame
  <2>. QED
    BY <2>2, <2>6, <2>7 DEF RepliesOK
<1>. QED
  BY <1>2, <1>3, <1>4, <1>5, <1>6
(* Of most methods an answer promises nothing about the store.             *)
Plain == Methods \ {"getLatestBlockhash", "getRecentBlockhash", "getBlocks", "getBlocksWithLimit",
                    "isBlockhashValid", "getTransaction", "getSignatureStatuses"}

(* An answer from which nothing may be missing keeps the invariant.        *)
LEMMA PlainAnswer ==
    ASSUME ServerInv, calls # <<>>,
           NEW kind \in Kinds, NEW value \in Seq(Nat), NEW txs \in Seq(Txs),
           \/ Head(calls).method \in Plain
           \/ Head(calls).method = "getTransaction" /\ kind # "value",
           AnswerWith(kind, value, txs)
    PROVE  ServerInv'
<1>1. ReplyOK(Reply(kind, value, txs))
  <2>1. work.latest \in everPut \cup {0}
    BY DEF ServerInv, ControlsOK, KnownOK
  <2>. QED
    BY <2>1 DEF Reply, ReplyOK, Complete, Plain
<1>. QED
  BY <1>1, AnswerInv

(* Accepting, refusing and closing a request keep the invariant.           *)
LEMMA RequestStep ==
    ASSUME ServerInv, (\E p \in Posts : Accept(p) \/ Reject(p)) \/ Respond
    PROVE  ServerInv'
<1>. USE DEF ServerInv
<1>1. UNCHANGED vars /\ work' = Fresh /\ phase' = phase /\ calls = <<>>
  <2>1. UNCHANGED <<vars, work>> /\ calls = <<>>
    BY DEF Accept, Reject, Respond
  <2>. QED
    BY <2>1 DEF ControlsOK, vars
<1>2. IInv' /\ ServerTypes'
  BY <1>1, InvStep, RequestTypes
<1>3. ControlsOK'
  <2>1. CASE \E p \in Posts : Accept(p) \/ Reject(p)
    <3>1. phase' # "down"
      BY <1>1, <2>1 DEF Accept, Reject, Listening
    <3>. QED
      BY <1>1, <3>1 DEF ControlsOK
  <2>2. CASE Respond
    BY <1>1, <2>2 DEF Respond, ControlsOK
  <2>. QED
    BY <2>1, <2>2
<1>4. KnownOK'
  <2>1. work = Fresh
    BY <1>1 DEF ControlsOK
  <2>. QED
    BY <1>1, <2>1 DEF KnownOK, vars, bucketVars, histVars
<1>5. LoopOK' /\ StatusOK' /\ ScanOK' /\ TimeOK'
  <2>1. (work.at \in {"start", "latest", "block"})'
    BY <1>1, FreshTypes
  <2>2. (work.at \in {"start", "latest", "block"})' => (LoopOK /\ StatusOK /\ ScanOK /\ TimeOK)'
    BY NoLoop, PTL
  <2>. QED
    BY <2>1, <2>2
<1>6. RepliesOK'
  <2>1. CASE UNCHANGED replies
    <3>1. \A r : ReplyOK(r)' <=> ReplyOK(r)
      BY <1>1, ReplyFrame
    <3>2. Closed' <=> Closed
      BY <1>1 DEF Closed
    <3>. QED
      BY <2>1, <3>1, <3>2 DEF RepliesOK
  <2>2. CASE \E p \in Posts : Reject(p)
    BY <2>2 DEF Reject, RepliesOK
  <2>3. CASE Respond
    BY <2>3 DEF Respond, RepliesOK
  <2>. QED
    BY <2>1, <2>2, <2>3 DEF Accept
<1>. QED
  BY <1>2, <1>3, <1>4, <1>5, <1>6

(* The handlers of one read, and the refusal of a call.                    *)
LEMMA ReadsStep ==
    ASSUME ServerInv,
           \/ Refuse \/ GetBlockTime \/ GetSlot \/ GetFirstAvailableBlock \/ GetBlockCommitment
           \/ GetMinimumBalanceForRentExemption \/ GetSignaturesForAddress
           \/ ClassifyMissing
    PROVE  ServerInv'
<1>1. CASE Refuse
  BY <1>1, Tuples, AnswerInv DEF Refuse, At, Answer, Kinds
<1>. SUFFICES ASSUME ~Refuse PROVE ServerInv'
  BY <1>1
<1>a. calls # <<>> /\ Head(calls).method \in Plain
  BY DEF GetBlockTime, GetSlot, GetFirstAvailableBlock, GetBlockCommitment,
         GetMinimumBalanceForRentExemption, GetSignaturesForAddress, ClassifyMissing,
         At, Plain, Methods
<1>b. \A kind \in Kinds, value \in Seq(Nat), txs \in Seq(Txs) :
         AnswerWith(kind, value, txs) => ServerInv'
  BY <1>a, PlainAnswer, Zenon
<1>c. TypeOK /\ IndexMatchesBlocks /\ ServerTypes
  BY DEF ServerInv, IInv
<1>. USE Tuples DEF At, Answer, Kinds
<1>2. CASE GetBlockTime
  <2>1. calls # <<>> /\ Head(calls).slot \in Nat
    BY <1>2, <1>c, CallAtHand, Uint64IsNat DEF GetBlockTime
  <2>2. \E kind \in Kinds, value \in {<<>>, <<Head(calls).slot>>} : AnswerWith(kind, value, <<>>)
    BY <1>2 DEF GetBlockTime
  <2>. QED
    BY <1>b, <2>1, <2>2
<1>3. CASE GetSlot
  <2>1. \E v \in Nat : AnswerWith("value", <<v>>, <<>>)
    BY <1>3, <1>c, CacheTypes, Uint64IsNat DEF GetSlot
  <2>. QED
    BY <1>b, <2>1
<1>4. CASE GetFirstAvailableBlock
  <2>1. AnswerWith("value", <<cache.oldest>>, <<>>)
    BY <1>4 DEF GetFirstAvailableBlock
  <2>2. cache.oldest \in Nat
    BY <1>c, CacheTypes, Uint64IsNat
  <2>. QED
    BY <1>b, <2>1, <2>2
<1>5. CASE GetBlockCommitment
  <2>1. AnswerWith("value", <<0>>, <<>>) \/ AnswerWith("value", <<>>, <<>>)
    BY <1>5 DEF GetBlockCommitment
  <2>. QED
    BY <1>b, <2>1
<1>6. CASE GetMinimumBalanceForRentExemption
  <2>1. calls # <<>> /\ Head(calls).slot \in Nat
    <3>1. calls # <<>>
      BY <1>6 DEF GetMinimumBalanceForRentExemption
    <3>. QED
      BY <3>1, <1>c, CallAtHand, Uint64IsNat
  <2>2. AnswerWith("value", <<((128 + Head(calls).slot) * 6960) % Wrap>>, <<>>)
    BY <1>6 DEF GetMinimumBalanceForRentExemption
  <2>3. \E v \in Nat : AnswerWith("value", <<v>>, <<>>)
    <3>. DEFINE v == ((128 + Head(calls).slot) * 6960) % Wrap
    <3>1. (128 + Head(calls).slot) * 6960 \in Nat
      BY <2>1
    <3>2. v \in Nat
      BY <3>1, Uint64IsNat
    <3>. HIDE DEF v
    <3>3. AnswerWith("value", <<v>>, <<>>)
      BY <2>2 DEF v
    <3>. QED
      BY <3>2, <3>3
  <2>. QED
    BY <1>b, <2>1, <2>3
<1>7. CASE GetSignaturesForAddress
  <2>. DEFINE asked == Head(calls).bound
              limit == IF asked \in 1..MaxSignatures THEN asked ELSE MaxSignatures
              all == AddressHistory(Head(calls).addr)
              listed == SubSeq(all, 1, Min({limit, Len(all)}))
  <2>1. AnswerWith("error", <<>>, <<>>) \/ AnswerWith("value", <<>>, listed)
    BY <1>7 DEF GetSignaturesForAddress
  <2>2. all \in Seq(Txs) /\ Len(all) \in Nat
    BY <1>c, HistoryTypes, LenProperties
  <2>3. limit \in Nat
    BY RpcAssumption
  <2>. HIDE DEF limit, all
  <2>4. Min({limit, Len(all)}) \in {limit, Len(all)} /\ Min({limit, Len(all)}) <= Len(all)
    BY <2>2, <2>3, MinIsLeast
  <2>5. Min({limit, Len(all)}) \in 0..Len(all)
    BY <2>2, <2>3, <2>4
  <2>6. listed \in Seq(Txs)
    <3>1. \A j \in 1..Min({limit, Len(all)}) : all[j] \in Txs
      BY <2>2, <2>5, ElementOfSeq
    <3>2. Min({limit, Len(all)}) \in Int /\ 1 \in Int
      BY <2>5
    <3>. QED
      BY <3>1, <3>2, SubSeqProperties
  <2>. QED
    BY <1>b, <2>1, <2>6
<1>8. CASE ClassifyMissing
  <2>1. AnswerWith("null", <<>>, <<>>) \/ AnswerWith("skipped", <<>>, <<>>)
    BY <1>8 DEF ClassifyMissing
  <2>. QED
    BY <1>b, <2>1
<1>. QED
  BY <1>2, <1>3, <1>4, <1>5, <1>6, <1>7, <1>8
-----------------------------------------------------------------------------
(* Handlers of several reads                                               *)

(* What is known while a handler is at work.                               *)
LEMMA AtWork ==
    ASSUME ServerInv, calls # <<>>
    PROVE  /\ TypeOK /\ IndexMatchesBlocks /\ blocks \subseteq everPut /\ everPut \subseteq Slots
           /\ work \in WorkType /\ work.found \in Seq(Slots \cup {0}) /\ work.found \in Seq(Nat)
           /\ work.latest \in Nat /\ work.next \in Nat
           /\ phase # "down"
           /\ Head(calls) \in CallType /\ Head(calls).slot \in Nat
           /\ Head(calls).txs \in Seq(Txs) /\ Len(Head(calls).txs) \in Nat
           /\ cache.latest \in Uint64 /\ cache.latest \in Nat
<1>1. TypeOK /\ IndexMatchesBlocks /\ LatestOK /\ ServerTypes /\ phase # "down"
  BY DEF ServerInv, IInv, ControlsOK
<1>2. blocks \subseteq everPut /\ everPut \subseteq Slots
  BY <1>1 DEF LatestOK, TypeOK
<1>3. work \in WorkType /\ work.found \in Seq(Slots \cup {0})
      /\ work.latest \in Uint64 /\ work.next \in Uint64
  BY <1>1 DEF ServerTypes, WorkType
<1>4. work.found \in Seq(Nat)
  <2>1. Slots \cup {0} \subseteq Nat
    BY SlotsFit
  <2>. QED
    BY <1>3, <2>1, SeqWidens
<1>. QED
  BY <1>1, <1>2, <1>3, <1>4, CallAtHand, CacheTypes, Uint64IsNat

(* A step of a handler that answers nothing yet.                           *)
LEMMA GoOnInv ==
    ASSUME ServerInv, calls # <<>>, NEW next \in WorkType, GoOn(next),
           next.at # "start", next.latest \in {work.latest, cache.latest},
           LoopOK', StatusOK', ScanOK', TimeOK'
    PROVE  ServerInv'
<1>. USE DEF ServerInv
<1>1. UNCHANGED vars /\ UNCHANGED <<calls, replies>> /\ work' = next
      /\ UNCHANGED <<phase, cache, everPut, blocks>>
  BY DEF GoOn, vars, bucketVars, histVars
<1>2. IInv' /\ ServerTypes'
  BY <1>1, InvStep, GoOnTypes
<1>3. ControlsOK'
  BY <1>1 DEF ControlsOK
<1>4. KnownOK'
  <2>1. cache.latest \in Nat /\ phase # "down"
    BY AtWork
  <2>. QED
    BY <1>1, <2>1 DEF KnownOK
<1>5. RepliesOK'
  <2>1. \A r : ReplyOK(r)' <=> ReplyOK(r)
    BY <1>1, ReplyFrame
  <2>2. Closed' <=> Closed
    BY <1>1 DEF Closed
  <2>. QED
    BY <1>1, <2>1, <2>2 DEF RepliesOK
<1>. QED
  BY <1>2, <1>3, <1>4, <1>5

(* Going on to a read outside the loops keeps the invariant.               *)
LEMMA GoOnAside ==
    ASSUME ServerInv, calls # <<>>, NEW next \in WorkType, GoOn(next),
           next.at \in {"latest", "block"}, next.latest \in {work.latest, cache.latest}
    PROVE  ServerInv'
<1>1. (work.at \in {"start", "latest", "block"})'
  BY DEF GoOn
<1>2. (work.at \in {"start", "latest", "block"})' => (LoopOK /\ StatusOK /\ ScanOK /\ TimeOK)'
  BY NoLoop, PTL
<1>. QED
  BY <1>1, <1>2, GoOnInv

(* getBlock, methods.go: the block is found, is missing, or the latest     *)
(* slot is asked for.                                                      *)
LEMMA GetBlockStep == ServerInv /\ GetBlock => ServerInv'
<1>. SUFFICES ASSUME ServerInv, GetBlock PROVE ServerInv'
  OBVIOUS
<1>. DEFINE next == [work EXCEPT !.at = "latest"]
<1>1. calls # <<>> /\ Head(calls).method \in Plain
  BY DEF GetBlock, At, Plain, Methods
<1>2. /\ next \in WorkType /\ next.at = "latest" /\ next.latest = work.latest
      /\ <<Head(calls).slot>> \in Seq(Nat)
  BY <1>1, AtWork DEF WorkType, Places
<1>3. \/ AnswerWith("error", <<>>, <<>>) \/ AnswerWith("value", <<Head(calls).slot>>, <<>>)
      \/ GoOn(next)
  BY DEF GetBlock, Answer
<1>. HIDE DEF next
<1>4. \A kind \in Kinds, value \in Seq(Nat), txs \in Seq(Txs) :
         AnswerWith(kind, value, txs) => ServerInv'
  BY <1>1, PlainAnswer
<1>5. GoOn(next) => ServerInv'
  BY <1>1, <1>2, GoOnAside
<1>. QED
  BY <1>2, <1>3, <1>4, <1>5, Tuples DEF Kinds

(* Where the index finds a transaction, a block was put.                   *)
LEMMA GetTransactionStep == ServerInv /\ GetTransaction => ServerInv'
<1>. SUFFICES ASSUME ServerInv, GetTransaction PROVE ServerInv'
  OBVIOUS
<1>. DEFINE t == Head(Head(calls).txs)
            next == [work EXCEPT !.at = "time", !.next = SlotOf(t)]
<1>1. calls # <<>> /\ Head(calls).method = "getTransaction"
  BY DEF GetTransaction, At
<1>2. \/ AnswerWith("error", <<>>, <<>>) \/ AnswerWith("null", <<>>, <<>>)
      \/ HasTransaction(t) /\ GoOn(next)
  BY DEF GetTransaction, Answer
<1>3. CASE HasTransaction(t) /\ GoOn(next)
  <2>1. SlotOf(t) \in blocks /\ SlotOf(t) \in Slots /\ t \in TxsOf[SlotOf(t)]
    BY <1>3, IndexedTx DEF HasTransaction, ServerInv
  <2>2. /\ next \in WorkType /\ next.at = "time" /\ next.latest = work.latest
        /\ next.next = SlotOf(t)
    BY <1>1, <2>1, AtWork, SlotsFit DEF WorkType, Places
  <2>3. work' = next /\ calls' = calls /\ UNCHANGED vars
    BY <1>3 DEF GoOn
  <2>4. SlotOf(t) \in everPut' /\ everPut' = everPut
    BY <1>1, <2>1, <2>3, AtWork DEF vars, histVars
  <2>. HIDE DEF next
  <2>5. TimeOK'
    BY <2>1, <2>2, <2>3, <2>4 DEF TimeOK
  <2>6. LoopOK' /\ StatusOK' /\ ScanOK'
    BY <2>2, <2>3 DEF LoopOK, StatusOK, ScanOK, At
  <2>7. next.at # "start" /\ next.latest \in {work.latest, cache.latest} /\ GoOn(next)
    BY <1>3, <2>2
  <2>. QED
    BY <1>1, <2>2, <2>5, <2>6, <2>7, GoOnInv
<1>4. CASE AnswerWith("error", <<>>, <<>>) \/ AnswerWith("null", <<>>, <<>>)
  <2>1. \A kind \in Kinds : AnswerWith(kind, <<>>, <<>>) /\ kind # "value" => ServerInv'
    BY <1>1, PlainAnswer, Tuples
  <2>. QED
    BY <1>4, <2>1 DEF Kinds
<1>. QED
  BY <1>2, <1>3, <1>4

(* A transaction comes without its time when its block is gone.            *)
LEMMA ReadTimeStep == ServerInv /\ ReadTime => ServerInv'
<1>. SUFFICES ASSUME ServerInv, ReadTime PROVE ServerInv'
  OBVIOUS
<1>. DEFINE value == IF HasBlock(work.next) THEN <<work.next, work.next>> ELSE <<work.next>>
            r == Reply("value", value, <<>>)
<1>1. /\ calls # <<>> /\ Head(calls).method = "getTransaction"
      /\ At("time", {"getTransaction"}) /\ AnswerWith("value", value, <<>>)
  BY DEF ReadTime, At, Answer
<1>2. value \in Seq(Nat) /\ work.next \in Nat
  BY <1>1, AtWork, Tuples
<1>3. work.latest \in everPut \cup {0}
  BY <1>1, AtWork DEF ServerInv, KnownOK
<1>4. ASSUME ~Closed, Len(value) = 1
      PROVE  value[1] \in everPut \ blocks /\ Head(Head(calls).txs) \in TxsOf[value[1]]
  <2>1. ~HasBlock(work.next)
    BY <1>2, <1>4
  <2>2. value[1] = work.next /\ work.next \notin blocks
    BY <1>4, <2>1 DEF HasBlock
  <2>3. work.next \in everPut /\ Head(Head(calls).txs) \in TxsOf[work.next]
    BY <1>1, <1>4 DEF ServerInv, TimeOK
  <2>. QED
    BY <2>2, <2>3
<1>. HIDE DEF value
<1>5. Closed \/ ReplyOK(r)
  BY <1>1, <1>3, <1>4 DEF Reply, ReplyOK
<1>. HIDE DEF r
<1>. QED
  BY <1>1, <1>2, <1>5, AnswerInv, Tuples DEF r, Kinds
-----------------------------------------------------------------------------
(* Handlers that take the latest slot first                                *)

(* The handlers that begin with the latest slot: a scan starts at or below *)
(* the slots it owes, the statuses at the first signature.                 *)
LEMMA GetLatestSlotStep == ServerInv /\ GetLatestSlot => ServerInv'
<1>. SUFFICES ASSUME ServerInv, GetLatestSlot PROVE ServerInv'
  OBVIOUS
<1>. DEFINE c == Head(calls)
            start == IF c.method \in OfRange THEN Start(c, cache.latest) ELSE 1
            at == IF c.method \in OfRange THEN "scan"
                  ELSE IF c.method \in OfLatest THEN "block" ELSE "status"
            next == [work EXCEPT !.latest = cache.latest, !.next = start, !.at = at]
<1>1. /\ calls # <<>> /\ work.at = "start" /\ Len(c.txs) <= MaxStatuses /\ GoOn(next)
      /\ c.method \in OfLatest \cup OfRange \cup {"getSignatureStatuses"}
  BY DEF GetLatestSlot, At
<1>2. work = Fresh
  BY <1>1 DEF ServerInv, ControlsOK
<1>3. start \in Uint64
  <2>1. Start(c, cache.latest) \in Uint64
    BY <1>1, AtWork, RangeTypes
  <2>2. 1 \in Uint64
    BY RpcAssumption, StoreAssumption DEF Uint64
  <2>. QED
    BY <2>1, <2>2
<1>4. at \in {"scan", "block", "status"}
  OBVIOUS
<1>5. /\ next \in WorkType /\ next.at = at /\ next.latest = cache.latest
      /\ next.next = start /\ next.found = <<>>
  <2>1. work \in WorkType /\ cache.latest \in Uint64
    BY <1>1, AtWork
  <2>. HIDE DEF at, start
  <2>. QED
    BY <1>2, <1>3, <1>4, <2>1 DEF WorkType, Places, Fresh
<1>6. work' = next /\ calls' = calls /\ UNCHANGED vars
  BY <1>1 DEF GoOn
<1>7. c.method \in OfRange => at = "scan" /\ start = Start(c, cache.latest)
  OBVIOUS
<1>8. c.method = "getSignatureStatuses" => at = "status" /\ start = 1
  BY DEF OfRange, OfLatest
<1>. HIDE DEF next, at, start
<1>9. TimeOK'
  BY <1>4, <1>5, <1>6 DEF TimeOK, At
<1>10. LoopOK' /\ StatusOK'
  <2>1. CASE c.method = "getSignatureStatuses"
    <3>1. work'.at = "status" /\ work'.next = 1 /\ Len(work'.found) = 0
      BY <1>5, <1>6, <1>8, <2>1
    <3>2. Len(c.txs) \in Nat
      BY <1>1, AtWork
    <3>. QED
      BY <1>1, <1>6, <3>1, <3>2 DEF LoopOK, StatusOK, NoneMissed, At
  <2>2. CASE c.method # "getSignatureStatuses"
    BY <1>6, <2>2 DEF LoopOK, StatusOK, At
  <2>. QED
    BY <2>1, <2>2
<1>11. ScanOK'
  <2>1. CASE c.method \in OfRange
    <3>1. work'.next = Start(c, cache.latest) /\ work'.latest = cache.latest
          /\ work'.found = <<>>
      BY <1>5, <1>6, <1>7, <2>1
    <3>2. Quota(c) \in Nat /\ Start(c, cache.latest) \in Nat /\ blocks \subseteq Nat
      BY <1>1, AtWork, RangeTypes, Uint64IsNat, SlotsFit
    <3>3. blocks' = blocks /\ Head(calls)' = c
      BY <1>6 DEF vars, bucketVars
    <3>4. \A s \in Within(Head(calls), work.latest)' :
             Start(c, cache.latest) <= s /\ s \in Nat
      BY <1>6, <3>1, <3>2, <3>3 DEF Within
    <3>5. \A s \in Within(Head(calls), work.latest)' : ~ (s < work'.next)
      BY <3>1, <3>2, <3>4
    <3>. QED
      BY <3>1, <3>2, <3>3, <3>5 DEF ScanOK
  <2>2. CASE c.method \notin OfRange
    BY <1>6, <2>2 DEF ScanOK, At
  <2>. QED
    BY <2>1, <2>2
<1>12. next.at # "start" /\ next.latest \in {work.latest, cache.latest}
  BY <1>4, <1>5
<1>. QED
  BY <1>1, <1>5, <1>9, <1>10, <1>11, <1>12, GoOnInv

(* The latest block is missing only if there was none, or if more than     *)
(* Retain slots were put since.                                            *)
LEMMA ReadLatestBlockStep == ServerInv /\ ReadLatestBlock => ServerInv'
<1>. SUFFICES ASSUME ServerInv, ReadLatestBlock PROVE ServerInv'
  OBVIOUS
<1>. DEFINE found == HasBlock(work.latest)
            epoch == <<work.latest \div SlotsPerEpoch, work.latest % SlotsPerEpoch>>
            height == IF found THEN Height[work.latest] ELSE 0
            heightOrSlot == IF found THEN Height[work.latest] ELSE work.latest
<1>1. calls # <<>> /\ Head(calls).method \in OfLatest
  BY DEF ReadLatestBlock, At
<1>2. work.latest \in Nat
  BY <1>1, AtWork
<1>3. height \in Nat /\ heightOrSlot \in Nat
  <2>1. found => Height[work.latest] \in Nat
    BY <1>1, AtWork, RpcAssumption DEF HasBlock
  <2>. QED
    BY <1>2, <2>1
<1>4. epoch \o <<height>> \in Seq(Nat)
  <2>1. SlotsPerEpoch \in Nat \ {0}
    BY RpcAssumption
  <2>2. epoch \in Seq(Nat)
    BY <1>2, <2>1, Division, Tuples
  <2>3. <<height>> \in Seq(Nat)
    BY <1>3, Tuples
  <2>. HIDE DEF epoch, height
  <2>. QED
    BY <2>2, <2>3, ConcatProperties
<1>5. CASE Head(calls).method \in {"getBlockHeight", "getEpochInfo"}
  <2>1. AnswerWith("value", <<heightOrSlot>>, <<>>) \/ AnswerWith("value", epoch \o <<height>>, <<>>)
    BY <1>5 DEF ReadLatestBlock, Answer
  <2>2. Head(calls).method \in Plain
    BY <1>5 DEF Plain, Methods
  <2>3. \A value \in Seq(Nat) : AnswerWith("value", value, <<>>) => ServerInv'
    BY <1>1, <2>2, PlainAnswer, Tuples DEF Kinds
  <2>. HIDE DEF epoch, height, heightOrSlot
  <2>. QED
    BY <1>3, <1>4, <2>1, <2>3, Tuples
<1>6. CASE Head(calls).method \in {"getLatestBlockhash", "getRecentBlockhash"}
  <2>1. \/ AnswerWith("value", <<work.latest>>, <<>>)
        \/ ~found /\ AnswerWith("error", <<>>, <<>>)
    BY <1>6 DEF ReadLatestBlock, Answer
  <2>2. /\ work.latest \in everPut \cup {0}
        /\ \A s \in everPut \ blocks : s + Retain < cache.latest
    BY <1>1, AtWork DEF ServerInv, KnownOK
  <2>3. cache.latest \in Nat /\ Retain \in Nat
    BY <1>1, AtWork, StoreAssumption
  <2>4. ~Closed /\ ~found => work.latest = 0 \/ cache.latest > work.latest + Retain
    BY <1>2, <2>2, <2>3 DEF HasBlock
  <2>5. ReplyOK(Reply("value", <<work.latest>>, <<>>))
    BY <1>6, <2>2 DEF Reply, ReplyOK, Complete
  <2>6. ~found => Closed \/ ReplyOK(Reply("error", <<>>, <<>>))
    BY <1>6, <2>2, <2>4 DEF Reply, ReplyOK, Complete
  <2>7. CASE AnswerWith("value", <<work.latest>>, <<>>)
    BY <1>1, <1>2, <2>5, <2>7, AnswerInv, Tuples DEF Kinds
  <2>8. CASE ~found /\ AnswerWith("error", <<>>, <<>>)
    BY <1>1, <2>6, <2>8, AnswerInv, Tuples DEF Kinds
  <2>. QED
    BY <2>1, <2>7, <2>8
<1>. QED
  BY <1>1, <1>5, <1>6 DEF OfLatest
-----------------------------------------------------------------------------
(* The scan of a range                                                     *)

(* Appending adds one element.                                             *)
LEMMA ToSetOfAppend ==
    ASSUME NEW S, NEW q \in Seq(S), NEW x \in S
    PROVE  ToSet(Append(q, x)) = ToSet(q) \cup {x}
<1>. DEFINE a == Append(q, x)
<1>1. /\ a \in Seq(S) /\ Len(a) = Len(q) + 1 /\ a[Len(q) + 1] = x /\ Len(q) \in Nat
      /\ \A i \in 1..Len(q) : a[i] = q[i]
  BY AppendProperties, LenProperties
<1>2. DOMAIN a = 1..Len(q) + 1 /\ DOMAIN q = 1..Len(q)
  BY <1>1, LenProperties
<1>. HIDE DEF a
<1>3. \A i \in 1..Len(q) + 1 : i \in 1..Len(q) \/ i = Len(q) + 1
  BY <1>1
<1>4. 1..Len(q) \subseteq 1..Len(q) + 1 /\ Len(q) + 1 \in 1..Len(q) + 1
  BY <1>1
<1>5. {a[i] : i \in DOMAIN a} = {q[i] : i \in DOMAIN q} \cup {x}
  BY <1>1, <1>2, <1>3, <1>4
<1>. QED
  BY <1>5 DEF ToSet, a

(* It leaves no block behind, also when it wraps around.                   *)
LEMMA ScanSlotStep == ServerInv /\ ScanSlot => ServerInv'
<1>. SUFFICES ASSUME ServerInv, ScanSlot PROVE ServerInv'
  OBVIOUS
<1>. DEFINE c == Head(calls)
            s == work.next
            wanted == c.method = "isBlockhashValid" => s = c.slot
            listed == HasBlock(s) /\ wanted
            found == IF listed THEN Append(work.found, s) ELSE work.found
            next == [work EXCEPT !.next = (s + 1) % Wrap, !.found = found]
            due == Within(c, work.latest)
<1>1. /\ calls # <<>> /\ c.method \in OfRange /\ work.at = "scan" /\ At("scan", OfRange)
      /\ Len(work.found) < Quota(c) /\ GoOn(next)
  BY DEF ScanSlot, InRange, At
<1>2. /\ work \in WorkType /\ work.found \in Seq(Slots \cup {0}) /\ blocks \subseteq Slots
      /\ s \in Nat /\ s \in Uint64 /\ Len(work.found) \in Nat
      /\ \A b \in Slots \cup {0} : b \in Nat /\ b < Wrap
  <2>1. \A b \in Slots \cup {0} : b \in Nat /\ b < Wrap
    BY StoreAssumption
  <2>. QED
    BY <1>1, <2>1, AtWork, LenProperties DEF WorkType
<1>3. (s + 1) % Wrap \in Uint64
  BY <1>2, Following
<1>4. listed => s \in Slots \cup {0}
  BY <1>2 DEF HasBlock
<1>5. found \in Seq(Slots \cup {0})
  BY <1>2, <1>4, AppendProperties
<1>6. /\ ToSet(found) = IF listed THEN ToSet(work.found) \cup {s} ELSE ToSet(work.found)
      /\ Len(found) <= Len(work.found) + 1 /\ Len(found) \in Nat
      /\ \A i \in 1..Len(found) : (\E j \in 1..Len(work.found) : found[i] = work.found[j])
                                  \/ found[i] = s
  <2>1. CASE listed
    <3>1. ToSet(Append(work.found, s)) = ToSet(work.found) \cup {s}
      BY <1>2, <1>4, <2>1, ToSetOfAppend
    <3>2. /\ Len(Append(work.found, s)) = Len(work.found) + 1
          /\ Append(work.found, s)[Len(work.found) + 1] = s
          /\ \A i \in 1..Len(work.found) : Append(work.found, s)[i] = work.found[i]
      BY <1>2, <1>4, <2>1, AppendProperties
    <3>3. \A i \in 1..Len(work.found) + 1 : i \in 1..Len(work.found) \/ i = Len(work.found) + 1
      BY <1>2
    <3>4. found = Append(work.found, s)
      BY <2>1
    <3>. HIDE DEF listed, found, s
    <3>. QED
      BY <1>2, <2>1, <3>1, <3>2, <3>3, <3>4
  <2>2. CASE ~listed
    BY <1>2, <2>2
  <2>. QED
    BY <2>1, <2>2
<1>7. /\ next \in WorkType /\ next.at = "scan" /\ next.latest = work.latest
      /\ next.next = (s + 1) % Wrap /\ next.found = found
  <2>. HIDE DEF found
  <2>. QED
    BY <1>1, <1>2, <1>3, <1>5 DEF WorkType
<1>8. work' = next /\ calls' = calls /\ UNCHANGED vars
  BY <1>1 DEF GoOn
<1>9. Closed \/ due \subseteq ToSet(work.found)
      \/ /\ \A b \in due : b < s => b \in ToSet(work.found)
         /\ \A i \in 1..Len(work.found) : work.found[i] < s
  BY <1>1 DEF ServerInv, ScanOK
<1>10. due \subseteq Slots /\ (~Closed => (s \in due => listed))
  BY <1>2 DEF Within, HasBlock
<1>. HIDE DEF listed, found, next, due, s
<1>11. Closed \/ due \subseteq ToSet(found)
       \/ /\ \A b \in due : b < (s + 1) % Wrap => b \in ToSet(found)
          /\ \A i \in 1..Len(found) : found[i] < (s + 1) % Wrap
  <2>1. CASE due \subseteq ToSet(work.found)
    BY <1>6, <2>1
  <2>2. CASE /\ ~Closed
             /\ \A b \in due : b < s => b \in ToSet(work.found)
             /\ \A i \in 1..Len(work.found) : work.found[i] < s
    <3>1. \A b \in due : b <= s => b \in ToSet(found)
      BY <1>2, <1>6, <1>10, <2>2
    <3>2. CASE s + 1 < Wrap
      <4>1. (s + 1) % Wrap = s + 1
        BY <1>2, <3>2, StoreAssumption, CounterSteps
      <4>2. \A b \in due : b < s + 1 => b \in ToSet(found)
        BY <1>2, <1>10, <3>1
      <4>3. \A i \in 1..Len(found) : found[i] < s + 1
        <5>1. \A j \in 1..Len(work.found) : work.found[j] \in Nat
          BY <1>2, ElementOfSeq
        <5>2. ASSUME NEW i \in 1..Len(found) PROVE found[i] < s + 1
          <6>1. CASE found[i] = s
            BY <1>2, <6>1
          <6>2. CASE \E j \in 1..Len(work.found) : found[i] = work.found[j]
            <7>1. PICK j \in 1..Len(work.found) : found[i] = work.found[j]
              BY <6>2
            <7>2. work.found[j] < s /\ work.found[j] \in Nat
              BY <2>2, <5>1
            <7>. QED
              BY <1>2, <7>1, <7>2
          <6>. QED
            BY <1>6, <6>1, <6>2
        <5>. QED
          BY <5>2
      <4>. QED
        BY <4>1, <4>2, <4>3
    <3>3. CASE ~ (s + 1 < Wrap)
      <4>1. \A b \in due : b <= s
        BY <1>2, <1>10, <3>3, StoreAssumption
      <4>. QED
        BY <3>1, <4>1
    <3>. QED
      BY <3>2, <3>3
  <2>. QED
    BY <1>9, <2>1, <2>2
<1>12. ScanOK'
  <2>1. Within(Head(calls), work.latest)' = due
    BY <1>7, <1>8 DEF Within, vars, bucketVars, due
  <2>2. Closed' <=> Closed
    BY <1>8 DEF Closed, vars
  <2>3. Quota(c) \in Nat
    BY <1>1, AtWork, RangeTypes, Uint64IsNat DEF WorkType
  <2>4. Len(found) <= Quota(c)
    BY <1>1, <1>2, <1>6, <2>3
  <2>. QED
    BY <1>7, <1>8, <1>11, <2>1, <2>2, <2>4 DEF ScanOK
<1>13. LoopOK' /\ StatusOK' /\ TimeOK'
  BY <1>7, <1>8 DEF LoopOK, StatusOK, TimeOK, At
<1>14. next.at # "start" /\ next.latest \in {work.latest, cache.latest}
  BY <1>7
<1>. QED
  BY <1>1, <1>7, <1>12, <1>13, <1>14, GoOnInv

(* Where it ends, all that was due is listed.                              *)
LEMMA ScanEndStep == ServerInv /\ ScanEnd => ServerInv'
<1>. SUFFICES ASSUME ServerInv, ScanEnd PROVE ServerInv'
  OBVIOUS
<1>. DEFINE c == Head(calls)
            found == work.found
            end == End(c, work.latest)
            r == Reply("value", found, <<>>)
<1>1. /\ calls # <<>> /\ c.method \in OfRange /\ At("scan", OfRange)
      /\ work.next > end \/ ~ (Len(found) < Quota(c))
      /\ AnswerWith("value", found, <<>>)
  <2>1. ~ (work.next <= end /\ Len(found) < Quota(c))
    BY DEF ScanEnd, InRange
  <2>2. calls # <<>> /\ At("scan", OfRange)
    BY DEF ScanEnd, At
  <2>3. work.next \in Nat /\ end \in Nat
    <3>1. work.latest \in Uint64 /\ c \in CallType
      BY <2>2, AtWork DEF WorkType
    <3>. QED
      BY <2>2, <3>1, AtWork, RangeTypes, Uint64IsNat
  <2>. QED
    BY <2>1, <2>2, <2>3 DEF ScanEnd, Answer, At
<1>2. /\ found \in Seq(Nat) /\ Len(found) \in Nat /\ work.next \in Nat /\ end \in Nat
      /\ Quota(c) \in Nat /\ blocks \subseteq Nat
  <2>1. work.latest \in Uint64 /\ c \in CallType
    BY <1>1, AtWork DEF WorkType
  <2>. QED
    BY <1>1, <2>1, AtWork, RangeTypes, Uint64IsNat, SlotsFit, LenProperties
<1>3. work.latest \in everPut \cup {0}
  BY <1>1, AtWork DEF ServerInv, KnownOK
<1>4. /\ r.call = c /\ r.latest = work.latest /\ r.value = found /\ r.kind = "value"
  BY DEF Reply
<1>5. /\ Len(found) <= Quota(c)
      /\ \/ Closed
         \/ Within(c, work.latest) \subseteq ToSet(found)
         \/ /\ \A s \in Within(c, work.latest) : s < work.next => s \in ToSet(found)
            /\ \A i \in 1..Len(found) : found[i] < work.next
  BY <1>1 DEF ServerInv, ScanOK
<1>. HIDE DEF r, found, end
<1>6. ASSUME ~Closed, Quota(c) > 0, NEW s \in Due(r), s \in Within(c, work.latest)
      PROVE  s \in ToSet(found)
  <2>1. s <= end /\ (Len(found) = Quota(c) => s <= Last(found)) /\ s \in Nat
    BY <1>2, <1>4, <1>6 DEF Due, end
  <2>2. CASE Within(c, work.latest) \subseteq ToSet(found)
    BY <1>6, <2>2
  <2>3. CASE /\ \A b \in Within(c, work.latest) : b < work.next => b \in ToSet(found)
             /\ \A i \in 1..Len(found) : found[i] < work.next
    <3>1. s < work.next
      <4>1. CASE work.next > end
        BY <1>2, <2>1, <4>1
      <4>2. CASE ~ (Len(found) < Quota(c))
        <5>1. Len(found) = Quota(c) /\ Len(found) \in 1..Len(found)
          BY <1>2, <1>5, <1>6, <4>2
        <5>2. Last(found) = found[Len(found)] /\ found[Len(found)] \in Nat
          BY <1>2, <5>1, ElementOfSeq DEF Last
        <5>. QED
          BY <1>2, <2>1, <2>3, <5>1, <5>2
      <4>. QED
        BY <1>1, <4>1, <4>2
    <3>. QED
      BY <1>6, <2>3, <3>1
  <2>. QED
    BY <1>5, <1>6, <2>2, <2>3
<1>7. CASE c.method \in {"getBlocks", "getBlocksWithLimit"}
  <2>1. Due(r) \subseteq Within(c, work.latest)
    BY <1>4, <1>7 DEF Due, Within
  <2>2. ~Closed /\ Quota(c) > 0 => Due(r) \subseteq ToSet(found)
    BY <1>6, <2>1
  <2>3. Closed \/ ReplyOK(r)
    BY <1>3, <1>4, <1>7, <2>2 DEF ReplyOK, Complete
  <2>. QED
    BY <1>1, <1>2, <2>3, AnswerInv, Tuples DEF r, Kinds
<1>8. CASE c.method = "isBlockhashValid"
  <2>1. c.slot \in Due(r) => c.slot \in Within(c, work.latest)
    BY <1>4, <1>8 DEF Due, Within
  <2>2. Quota(c) > 0
    BY <1>8 DEF Quota
  <2>3. ~Closed /\ c.slot \in Due(r) => c.slot \in ToSet(found)
    BY <1>6, <2>1, <2>2
  <2>4. found = <<>> => ToSet(found) = {}
    BY DEF ToSet
  <2>5. Closed \/ ReplyOK(r)
    BY <1>3, <1>4, <1>8, <2>3, <2>4 DEF ReplyOK, Complete
  <2>. QED
    BY <1>1, <1>2, <2>5, AnswerInv, Tuples DEF r, Kinds
<1>. QED
  BY <1>1, <1>7, <1>8 DEF OfRange
-----------------------------------------------------------------------------
(* The statuses of signatures                                              *)

(* The loop records the status of one signature more: none only if the     *)
(* transaction is not indexed.                                             *)
LEMMA StatusRecorded ==
    ASSUME ServerInv, calls # <<>>, Head(calls).method = "getSignatureStatuses",
           work.at \in {"status", "meta"}, work.next <= Len(Head(calls).txs),
           NEW status \in Slots \cup {0},
           ~Closed /\ status = 0 => Head(calls).txs[work.next] \notin txBySig,
           GoOn([work EXCEPT !.at = "status", !.next = work.next + 1,
                             !.found = Append(work.found, status)])
    PROVE  ServerInv'
<1>. DEFINE txs == Head(calls).txs
            n == Len(txs)
            found == Append(work.found, status)
            next == [work EXCEPT !.at = "status", !.next = work.next + 1, !.found = found]
<1>1. /\ n \in Nat /\ n <= MaxStatuses /\ work.next \in 1..n + 1 /\ work.next <= n
      /\ Len(work.found) = work.next - 1
  <2>1. At("status", {"getSignatureStatuses"}) \/ At("meta", {"getSignatureStatuses"})
    BY DEF At
  <2>2. Len(Head(calls).txs) \in Nat
    BY AtWork
  <2>. QED
    BY <2>1, <2>2 DEF ServerInv, LoopOK
<1>2. work.next \in Nat /\ work.next >= 1 /\ work.found \in Seq(Slots \cup {0}) /\ work \in WorkType
  BY <1>1, AtWork
<1>3. /\ found \in Seq(Slots \cup {0}) /\ Len(found) = work.next
      /\ found[work.next] = status
      /\ \A i \in 1..work.next - 1 : found[i] = work.found[i]
  <2>1. Len(work.found) + 1 = work.next
    BY <1>1, <1>2
  <2>. QED
    BY <1>1, <1>2, <2>1, AppendProperties
<1>4. work.next + 1 \in Uint64
  BY <1>1, <1>2, StatusFits
<1>5. /\ next \in WorkType /\ next.at = "status" /\ next.latest = work.latest
      /\ next.next = work.next + 1 /\ next.found = found
  <2>. HIDE DEF found
  <2>. QED
    BY <1>2, <1>3, <1>4 DEF WorkType, Places
<1>6. work' = next /\ calls' = calls /\ UNCHANGED vars
  BY DEF GoOn
<1>7. Closed \/ NoneMissed(txs, work.latest, work.found, work.next)
  <2>1. At("status", {"getSignatureStatuses"}) \/ At("meta", {"getSignatureStatuses"})
    BY DEF At
  <2>. QED
    BY <2>1 DEF ServerInv, StatusOK
<1>. HIDE DEF next, found
<1>8. Closed \/ NoneMissed(txs, work.latest, found, work.next + 1)
  <2>1. ASSUME ~Closed, NEW j \in 1..(work.next + 1) - 1,
               found[j] = 0, SlotOf(txs[j]) <= work.latest
        PROVE  txs[j] \notin txBySig
    <3>1. j \in 1..work.next - 1 \/ j = work.next
      BY <1>2
    <3>2. CASE j = work.next
      BY <1>3, <2>1, <3>2
    <3>3. CASE j \in 1..work.next - 1
      BY <1>3, <1>7, <2>1, <3>3 DEF NoneMissed
    <3>. QED
      BY <3>1, <3>2, <3>3
  <2>. QED
    BY <2>1 DEF NoneMissed
<1>9. StatusOK'
  <2>1. Closed' <=> Closed
    BY <1>6 DEF Closed, vars
  <2>2. NoneMissed(Head(calls).txs, work.latest, work.found, work.next)'
           <=> NoneMissed(txs, work.latest, found, work.next + 1)
    BY <1>5, <1>6 DEF NoneMissed, vars, bucketVars
  <2>. QED
    BY <1>8, <2>1, <2>2 DEF StatusOK
<1>10. LoopOK'
  <2>1. work'.next \in 1..n + 1 /\ Len(work'.found) = work'.next - 1 /\ work'.at = "status"
    BY <1>1, <1>2, <1>3, <1>5, <1>6
  <2>. QED
    BY <1>1, <1>6, <2>1 DEF LoopOK, At
<1>11. ScanOK' /\ TimeOK'
  BY <1>5, <1>6 DEF ScanOK, TimeOK, At
<1>12. GoOn(next) /\ next.at # "start" /\ next.latest \in {work.latest, cache.latest}
  BY <1>5 DEF next, found
<1>. QED
  BY <1>5, <1>9, <1>10, <1>11, <1>12, GoOnInv

(* getSignatureStatuses reads one signature: a signature that is not       *)
(* indexed belongs to no block put all along.                              *)
LEMMA ReadStatusStep == ServerInv /\ ReadStatus => ServerInv'
<1>. SUFFICES ASSUME ServerInv, ReadStatus PROVE ServerInv'
  OBVIOUS
<1>. DEFINE t == Head(calls).txs[work.next]
            next == [work EXCEPT !.at = "meta"]
<1>1. /\ calls # <<>> /\ Head(calls).method = "getSignatureStatuses" /\ work.at = "status"
      /\ work.next <= Len(Head(calls).txs)
      /\ At("status", {"getSignatureStatuses"})
      /\ GoOn(IF HasTransaction(t) THEN next
              ELSE [work EXCEPT !.next = work.next + 1, !.found = Append(work.found, 0)])
  BY DEF ReadStatus, At
<1>2. work \in WorkType
  BY <1>1, AtWork
<1>3. CASE HasTransaction(t)
  <2>1. GoOn(next)
    BY <1>1, <1>3
  <2>2. next \in WorkType /\ next.at = "meta" /\ next.latest = work.latest
        /\ next.next = work.next /\ next.found = work.found
    BY <1>2 DEF WorkType, Places
  <2>3. work' = next /\ calls' = calls /\ UNCHANGED vars
    BY <2>1 DEF GoOn
  <2>. HIDE DEF next
  <2>4. LoopOK'
    BY <1>1, <2>2, <2>3 DEF ServerInv, LoopOK, At
  <2>5. StatusOK'
    <3>1. Closed \/ NoneMissed(Head(calls).txs, work.latest, work.found, work.next)
      BY <1>1 DEF ServerInv, StatusOK
    <3>2. NoneMissed(Head(calls).txs, work.latest, work.found, work.next)
             => NoneMissed(Head(calls).txs, work.latest, work.found, work.next)'
      BY <2>2, <2>3 DEF NoneMissed, vars, bucketVars
    <3>3. Closed' <=> Closed
      BY <2>3 DEF Closed, vars
    <3>. QED
      BY <3>1, <3>2, <3>3 DEF StatusOK
  <2>6. ScanOK' /\ TimeOK'
    BY <2>2, <2>3 DEF ScanOK, TimeOK, At
  <2>7. next.at # "start" /\ next.latest \in {work.latest, cache.latest}
    BY <2>2
  <2>. QED
    BY <1>1, <2>1, <2>2, <2>4, <2>5, <2>6, <2>7, GoOnInv
<1>4. CASE ~HasTransaction(t)
  <2>1. ~Closed => t \notin txBySig
    BY <1>4 DEF HasTransaction
  <2>2. [work EXCEPT !.next = work.next + 1, !.found = Append(work.found, 0)]
           = [work EXCEPT !.at = "status", !.next = work.next + 1, !.found = Append(work.found, 0)]
    BY <1>1, <1>2 DEF WorkType
  <2>3. GoOn([work EXCEPT !.at = "status", !.next = work.next + 1,
                          !.found = Append(work.found, 0)])
    BY <1>1, <1>4, <2>2
  <2>4. 0 \in Slots \cup {0} /\ work.at \in {"status", "meta"}
    BY <1>1
  <2>. QED
    BY <1>1, <2>1, <2>3, <2>4, StatusRecorded
<1>. QED
  BY <1>3, <1>4

(* An indexed transaction has the metadata of its block.                   *)
LEMMA ReadMetaStep == ServerInv /\ ReadMeta => ServerInv'
<1>. SUFFICES ASSUME ServerInv, ReadMeta PROVE ServerInv'
  OBVIOUS
<1>. DEFINE t == Head(calls).txs[work.next]
            known == ~Closed /\ SlotOf(t) \in DOMAIN slotMeta
            status == IF known THEN SlotOf(t) ELSE 0
<1>1. /\ calls # <<>> /\ Head(calls).method = "getSignatureStatuses" /\ work.at = "meta"
      /\ At("meta", {"getSignatureStatuses"})
      /\ GoOn([work EXCEPT !.at = "status", !.next = work.next + 1,
                           !.found = Append(work.found, status)])
  BY DEF ReadMeta, At
<1>2. work.next <= Len(Head(calls).txs)
  BY <1>1 DEF ServerInv, LoopOK
<1>3. DOMAIN slotMeta \subseteq Slots /\ blocks \subseteq DOMAIN slotMeta /\ 0 \notin Slots
  BY SlotsFit DEF ServerInv, IInv, TypeOK, IndexMatchesBlocks
<1>4. status \in Slots \cup {0}
  BY <1>3
<1>5. ~Closed /\ status = 0 => t \notin txBySig
  <2>1. t \in txBySig => SlotOf(t) \in blocks
    BY IndexedTx DEF ServerInv
  <2>. QED
    BY <1>3, <2>1
<1>6. work.at \in {"status", "meta"}
  BY <1>1
<1>. HIDE DEF status
<1>. QED
  BY <1>1, <1>2, <1>4, <1>5, <1>6, StatusRecorded

(* getSignatureStatuses answers once every signature was read.             *)
LEMMA StatusesEndStep == ServerInv /\ StatusesEnd => ServerInv'
<1>. SUFFICES ASSUME ServerInv, StatusesEnd PROVE ServerInv'
  OBVIOUS
<1>. DEFINE txs == Head(calls).txs
            r == Reply("value", work.found, <<>>)
<1>1. /\ calls # <<>> /\ Head(calls).method = "getSignatureStatuses"
      /\ At("status", {"getSignatureStatuses"})
      /\ work.next > Len(txs) /\ AnswerWith("value", work.found, <<>>)
  BY DEF StatusesEnd, At, Answer
<1>2. /\ work.found \in Seq(Nat) /\ Len(txs) \in Nat /\ work.next \in Nat
      /\ work.latest \in everPut \cup {0}
  BY <1>1, AtWork DEF ServerInv, KnownOK
<1>3. Closed \/ NoneMissed(txs, work.latest, work.found, work.next)
  BY <1>1 DEF ServerInv, StatusOK
<1>4. \A j \in 1..Len(txs) : j \in 1..work.next - 1
  BY <1>1, <1>2
<1>5. Closed \/ \A j \in 1..Len(txs) :
                   work.found[j] = 0 /\ SlotOf(txs[j]) <= work.latest => txs[j] \notin txBySig
  BY <1>3, <1>4 DEF NoneMissed
<1>6. Closed \/ ReplyOK(r)
  BY <1>1, <1>2, <1>5 DEF Reply, ReplyOK, Complete
<1>. HIDE DEF r
<1>. QED
  BY <1>1, <1>2, <1>6, AnswerInv, Tuples DEF r, Kinds

-----------------------------------------------------------------------------
(* The invariant of the server and its store                               *)

(* The strengthening holds at first.                                       *)
LEMMA ServerInvInit == RpcInit => ServerInv
<1>. SUFFICES ASSUME RpcInit PROVE ServerInv
  OBVIOUS
<1>1. IInv
  BY InvInit DEF RpcInit
<1>2. calls = <<>> /\ work = Fresh /\ replies = <<>> /\ phase = "down"
  BY DEF RpcInit, Init
<1>3. ServerTypes
  BY <1>2, FreshTypes, Tuples DEF ServerTypes
<1>4. ControlsOK /\ KnownOK /\ RepliesOK
  BY <1>2 DEF ControlsOK, KnownOK, RepliesOK
<1>. QED
  BY <1>1, <1>2, <1>3, <1>4, NoLoop DEF ServerInv

(* Every step of the store and of the server keeps the strengthening.      *)
LEMMA ServerInvStep == ServerInv /\ [RpcNext]_allVars => ServerInv'
<1>. SUFFICES ASSUME ServerInv, [RpcNext]_allVars PROVE ServerInv'
  OBVIOUS
<1>1. CASE Next /\ ServerFollows
  BY <1>1, StoreKeepsServer
<1>2. CASE UNCHANGED allVars
  <2>1. UNCHANGED vars /\ UNCHANGED serverVars /\ phase' = phase
    BY <1>2 DEF allVars, vars
  <2>2. ServerFollows
    BY <2>1 DEF ServerFollows, serverVars, ServerInv, ControlsOK
  <2>. QED
    BY <2>1, <2>2, StoreKeepsServer
<1>3. CASE Server
  BY <1>3, RequestStep, ReadsStep, GetBlockStep, GetTransactionStep, ReadTimeStep,
     GetLatestSlotStep, ReadLatestBlockStep, ScanSlotStep, ScanEndStep, ReadStatusStep,
     ReadMetaStep, StatusesEndStep DEF Server
<1>. QED
  BY <1>1, <1>2, <1>3 DEF RpcNext

(* The strengthening holds in every reachable state.                       *)
LEMMA ServerInvHolds == RpcSpec => []ServerInv
  BY ServerInvInit, ServerInvStep, PTL DEF RpcSpec

(* The requests, the handler and the answers keep their types, and so does *)
(* the store: the slots a scan counts through stay 64-bit numbers.         *)
THEOREM RpcTypes == RpcSpec => []RpcTypeOK
<1>1. ServerInv => RpcTypeOK
  BY DEF ServerInv, IInv, ServerTypes, WorkType, RpcTypeOK
<1>. QED
  BY <1>1, ServerInvHolds, PTL

(* Whatever is put, pruned or crashes between the reads of a handler, its  *)
(* answer leaves out nothing that is stored while the store is open.       *)
THEOREM CompleteAnswers == RpcSpec => []AnswersComplete
<1>1. ServerInv => AnswersComplete
  <2>. SUFFICES ASSUME ServerInv, ~Closed, NEW i \in 1..Len(replies), replies[i].kind # "refused"
                PROVE  Complete(replies[i])
    BY DEF AnswersComplete
  <2>. DEFINE r == replies[i]
  <2>1. ReplyOK(r)
    BY DEF ServerInv, RepliesOK
  <2>2. CASE r.call.method # "getTransaction"
    BY <2>1, <2>2 DEF ReplyOK
  <2>3. CASE r.call.method = "getTransaction"
    <3>1. ASSUME r.kind = "value", Len(r.value) = 1, Head(r.call.txs) \in txBySig
          PROVE  FALSE
      <4>. DEFINE t == Head(r.call.txs)
      <4>1. r.value[1] \in everPut \ blocks /\ t \in TxsOf[r.value[1]]
        BY <2>1, <2>3, <3>1 DEF ReplyOK
      <4>2. r.value[1] \in Slots /\ SlotOf(t) \in blocks
        BY <3>1, <4>1, IndexedTx DEF ServerInv, IInv, TypeOK
      <4>3. SlotOf(t) = r.value[1]
        BY <4>1, <4>2, SlotOfTx
      <4>. QED
        BY <4>1, <4>2, <4>3
    <3>. HIDE DEF r
    <3>2. Complete(r)
      BY <2>3, <3>1 DEF Complete
    <3>. QED
      BY <3>2 DEF r
  <2>. QED
    BY <2>2, <2>3
<1>. QED
  BY <1>1, ServerInvHolds, PTL

(* The server leaves the store as it is: with it, the store behaves as its *)
(* own specification says.                                                 *)
THEOREM ServerOnlyReads == RpcSpec => Spec
<1>1. RpcInit => Init
  BY DEF RpcInit
<1>. QED
  BY <1>1, StoreStep, PTL DEF RpcSpec, Spec

(* So what is proved of the store holds of the store the server reads.     *)
THEOREM ServedStore ==
    RpcSpec => [](IndexMatchesBlocks /\ RecentBlocksKept /\ CountCoversBlocks
                  /\ OldestCoversBlocks)
  BY ServerOnlyReads, IndexMatches, RecentKept, CountCovers, OldestCovers, PTL
=============================================================================
