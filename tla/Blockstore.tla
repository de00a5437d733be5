----------------------------- MODULE Blockstore -----------------------------
(***************************************************************************)
(* pkg/blockstore/blockstore.go: a BoltDB file and the values BoltStore    *)
(* caches in memory.  A BoltDB transaction is atomic and durable; every    *)
(* operation made of several transactions, or of a transaction and an      *)
(* update of the cache under s.mu, is as many steps here.  Three actors    *)
(* share the store: the node's processing loop (PutBlock), the pruning     *)
(* goroutine, and a caller of SetCommitment and SetRoot.  The node puts    *)
(* blocks in slot order (theorem LatestIsMonotone of NodeProofs), and its  *)
(* Stop closes the store after its loops have returned.                    *)
(***************************************************************************)
EXTENDS Integers, FiniteSets, FiniteSetsExt

CONSTANTS
    Slots,         \* slots a block may come for
    Txs,           \* transactions, each identified with its signature
    TxsOf,         \* TxsOf[s]: the transactions of block s
    Addrs,         \* account addresses
    AddrsOf,       \* AddrsOf[t]: the account keys of transaction t
    Marks,         \* pairs SetCommitment is called with (SetRoot: their slots)
    Retain,        \* config.RetainSlots
    Wrap,          \* 2^64 of the counters; any value above the slots
    MaxCrashes     \* bound on the crashes of a behaviour

Levels == {"processed", "confirmed", "finalized"}

ASSUME StoreAssumption ==
    /\ Slots \subseteq Nat \ {0} /\ IsFiniteSet(Slots)
    /\ TxsOf \in [Slots -> SUBSET Txs]
    /\ \A s, t \in Slots : s # t => TxsOf[s] \cap TxsOf[t] = {}
    /\ AddrsOf \in [Txs -> SUBSET Addrs]
    /\ Marks \subseteq Slots \X Levels
    /\ Retain \in Nat /\ MaxCrashes \in Nat
    /\ Wrap \in Nat \ {0} /\ \A s \in Slots : s < Wrap

VARIABLES
    \* the buckets of the database
    blocks,        \* blocks: the slots stored
    slotMeta,      \* slot_meta: slot to commitment level
    txBySig,       \* tx_by_sig: the signatures indexed
    addrSigs,      \* addr_sigs: the keys <<address, slot>>
    roots,         \* roots
    disk,          \* metadata: latest, finalized, confirmed, oldest, count
    \* BoltStore
    phase,         \* "down", "open", or "closing" once closed is set
    cache,         \* the cached values, same fields as disk
    \* the caller of PutBlock
    putting,       \* slot whose transaction is done, its cache update not (0)
    \* the pruning goroutine
    prune,         \* its program counter
    cutoff,        \* pruneBeforeSlot
    victims,       \* slotsToPrune still to delete
    victim,        \* the slot DeleteBlock has read
    pruned,
    \* the caller of SetCommitment
    setting,       \* its program counter
    setSlot, setLevel,
    \* history, read by the properties only
    everPut,       \* slots ever put
    crashes

bucketVars == <<blocks, slotMeta, txBySig, addrSigs, roots>>
pruneVars == <<prune, cutoff, victims, victim, pruned>>
setVars == <<setting, setSlot, setLevel>>
histVars == <<everPut, crashes>>
vars == <<bucketVars, disk, phase, cache, putting, pruneVars, setVars, histVars>>

(* Go's uint64 subtraction.                                                *)
Sub64_Signed(a, b) == a - b
Sub64(a, b) == IF a >= b THEN a - b ELSE a - b + Wrap

Larger(a, b) == IF a > b THEN a ELSE b

NoSlots == [latest |-> 0, finalized |-> 0, confirmed |-> 0, oldest |-> 0, count |-> 0]

AddrKeys(s) == {<<a, s>> : a \in UNION {AddrsOf[t] : t \in TxsOf[s]}}

Uint64 == 0 .. (Wrap - 1)

(* The variables keep their types; the counters are 64-bit.                *)
TypeOK ==
    /\ blocks \subseteq Slots
    /\ DOMAIN slotMeta \subseteq Slots
    /\ \A s \in DOMAIN slotMeta : slotMeta[s] \in Levels
    /\ txBySig \subseteq Txs
    /\ addrSigs \subseteq Addrs \X Slots
    /\ roots \subseteq Slots
    /\ disk \in [DOMAIN NoSlots -> Uint64] /\ cache \in [DOMAIN NoSlots -> Uint64]
    /\ phase \in {"down", "open", "closing"}
    /\ putting \in Slots \cup {0}
    /\ prune \in {"idle", "list", "next", "erase", "save", "exited"}
    /\ cutoff \in Uint64
    /\ victims \subseteq Slots /\ victim \in Slots \cup {0}
    /\ pruned \in Nat
    /\ setting \in {"idle", "write", "mark"}
    /\ setSlot \in Slots \cup {0} /\ setLevel \in Levels
    /\ everPut \subseteq Slots
    /\ crashes \in Nat

Init ==
    /\ blocks = {} /\ slotMeta = [s \in {} |-> "processed"]
    /\ txBySig = {} /\ addrSigs = {} /\ roots = {}
    /\ disk = NoSlots
    /\ phase = "down" /\ cache = NoSlots
    /\ putting = 0
    /\ prune = "exited" /\ cutoff = 0 /\ victims = {} /\ victim = 0 /\ pruned = 0
    /\ setting = "idle" /\ setSlot = 0 /\ setLevel = "processed"
    /\ everPut = {} /\ crashes = 0

-----------------------------------------------------------------------------
(* Open, Close and crashes                                                 *)

(* loadCachedValues, startPruning.                                         *)
Open ==
    /\ phase = "down"
    /\ phase' = "open"
    /\ cache' = disk
    /\ prune' = "idle"
    /\ UNCHANGED <<bucketVars, disk, putting, cutoff, victims, victim, pruned,
                   setVars, histVars>>

(* Everything in memory is gone.                                           *)
Forget ==
    /\ phase' = "down"
    /\ cache' = NoSlots
    /\ putting' = 0
    /\ prune' = "exited" /\ cutoff' = 0 /\ victims' = {} /\ victim' = 0 /\ pruned' = 0
    /\ setting' = "idle" /\ setSlot' = 0 /\ setLevel' = "processed"

Crash ==
    /\ phase # "down"
    /\ crashes < MaxCrashes
    /\ crashes' = crashes + 1
    /\ Forget
    /\ UNCHANGED <<bucketVars, disk, everPut>>

(* Close sets closed; the callers have returned, the pruner may not have.  *)
BeginClose ==
    /\ phase = "open"
    /\ putting = 0 /\ setting = "idle"
    /\ phase' = "closing"
    /\ UNCHANGED <<bucketVars, disk, cache, putting, pruneVars, setVars, histVars>>

FinishClose_ForgetsCount ==
    /\ phase = "closing"
    /\ prune = "exited"
    /\ disk' = [cache EXCEPT !.count = disk.count]
    /\ Forget
    /\ UNCHANGED <<bucketVars, histVars>>

(* After pruneWG.Wait() Close writes all cached values.                    *)
FinishClose ==
    /\ phase = "closing"
    /\ prune = "exited"
    /\ disk' = cache
    /\ Forget
    /\ UNCHANGED <<bucketVars, histVars>>

-----------------------------------------------------------------------------
(* PutBlock                                                                *)

(* One BoltDB transaction stores the block, its metadata and its indexes,  *)
(* and overwrites latest_slot.                                             *)
PutBlock(s) ==
    /\ phase = "open"
    /\ putting = 0
    /\ s > disk.latest
    /\ blocks' = blocks \cup {s}
    /\ slotMeta' = [t \in DOMAIN slotMeta \cup {s} |->
                       IF t = s THEN "processed" ELSE slotMeta[t]]
    /\ txBySig' = txBySig \cup TxsOf[s]
    /\ addrSigs' = addrSigs \cup AddrKeys(s)
    /\ disk' = [disk EXCEPT !.latest = s]
    /\ putting' = s
    /\ everPut' = everPut \cup {s}
    /\ UNCHANGED <<roots, phase, cache, pruneVars, setVars, crashes>>

(* Then it updates the cached values.                                      *)
UpdateCache ==
    /\ phase = "open"
    /\ putting # 0
    /\ cache' = [cache EXCEPT
                    !.latest = Larger(putting, @),
                    !.oldest = IF @ = 0 \/ putting < @ THEN putting ELSE @,
                    !.count = (@ + 1) % Wrap]
    /\ putting' = 0
    /\ UNCHANGED <<bucketVars, disk, phase, pruneVars, setVars, histVars>>

-----------------------------------------------------------------------------
(* Prune, as the pruning goroutine runs it                                 *)

(* The tick: unless the store is closed, take the cut-off from the cache.  *)
PruneBegin ==
    /\ phase = "open"
    /\ prune = "idle"
    /\ cache.latest > Retain
    /\ cutoff' = cache.latest - Retain
    /\ prune' = "list"
    /\ UNCHANGED <<bucketVars, disk, phase, cache, putting, victims, victim, pruned,
                   setVars, histVars>>

Prunable_Inclusive == {s \in blocks : s <= cutoff}
Prunable == {s \in blocks : s < cutoff}

(* One read transaction lists the slots below it; none: Prune returns.     *)
PruneList ==
    /\ prune = "list"
    /\ victims' = Prunable
    /\ pruned' = 0
    /\ prune' = IF Prunable = {} THEN "idle" ELSE "next"
    /\ UNCHANGED <<bucketVars, disk, phase, cache, putting, cutoff, victim, setVars,
                   histVars>>

(* DeleteBlock reads the block to find what to take out of the indexes.    *)
DeleteRead ==
    /\ prune = "next"
    /\ victims # {}
    /\ phase = "open"
    /\ victim' = Min(victims)
    /\ prune' = "erase"
    /\ UNCHANGED <<bucketVars, disk, phase, cache, putting, cutoff, victims, pruned,
                   setVars, histVars>>

DeleteRefused_Retries ==
    /\ prune = "next"
    /\ victims # {}
    /\ phase = "closing"
    /\ UNCHANGED vars

(* On a closed store it fails, and Prune returns with its work half done:  *)
(* what it deleted is neither counted nor reflected in the oldest slot.    *)
DeleteRefused ==
    /\ prune = "next"
    /\ victims # {}
    /\ phase = "closing"
    /\ prune' = "idle"
    /\ UNCHANGED <<bucketVars, disk, phase, cache, putting, cutoff, victims, victim,
                   pruned, setVars, histVars>>

EraseBlock_KeepsSignatures ==
    /\ prune = "erase"
    /\ blocks' = blocks \ {victim}
    /\ slotMeta' = [s \in DOMAIN slotMeta \ {victim} |-> slotMeta[s]]
    /\ addrSigs' = addrSigs \ AddrKeys(victim)
    /\ roots' = roots \ {victim}
    /\ pruned' = pruned + 1
    /\ victims' = victims \ {victim} /\ victim' = 0
    /\ prune' = "next"
    /\ UNCHANGED <<txBySig, disk, phase, cache, putting, cutoff, setVars, histVars>>

(* One transaction deletes the block and everything that refers to it.     *)
EraseBlock ==
    /\ prune = "erase"
    /\ blocks' = blocks \ {victim}
    /\ slotMeta' = [s \in DOMAIN slotMeta \ {victim} |-> slotMeta[s]]
    /\ txBySig' = txBySig \ TxsOf[victim]
    /\ addrSigs' = addrSigs \ AddrKeys(victim)
    /\ roots' = roots \ {victim}
    /\ pruned' = pruned + 1
    /\ victims' = victims \ {victim} /\ victim' = 0
    /\ prune' = "next"
    /\ UNCHANGED <<disk, phase, cache, putting, cutoff, setVars, histVars>>

PruneTally_PastCutoff ==
    /\ prune = "next"
    /\ victims = {}
    /\ cache' = [cache EXCEPT !.oldest = cutoff + 1,
                              !.count = Sub64(@, pruned)]
    /\ prune' = "save"
    /\ UNCHANGED <<bucketVars, disk, phase, putting, cutoff, victims, victim, pruned,
                   setVars, histVars>>

(* All deleted: the cache is updated, then oldest_slot is saved.           *)
PruneTally ==
    /\ prune = "next"
    /\ victims = {}
    /\ cache' = [cache EXCEPT !.oldest = cutoff, !.count = Sub64(@, pruned)]
    /\ prune' = "save"
    /\ UNCHANGED <<bucketVars, disk, phase, putting, cutoff, victims, victim, pruned,
                   setVars, histVars>>

PruneSave ==
    /\ prune = "save"
    /\ disk' = [disk EXCEPT !.oldest = cutoff]
    /\ prune' = "idle"
    /\ UNCHANGED <<bucketVars, phase, cache, putting, cutoff, victims, victim, pruned,
                   setVars, histVars>>

PrunerExit ==
    /\ phase = "closing"
    /\ prune = "idle"
    /\ prune' = "exited"
    /\ UNCHANGED <<bucketVars, disk, phase, cache, putting, cutoff, victims, victim,
                   pruned, setVars, histVars>>

-----------------------------------------------------------------------------
(* SetCommitment and SetRoot                                               *)

(* SetCommitment reads the slot's metadata ...                             *)
SetCommitment(s, level) ==
    /\ phase = "open"
    /\ setting = "idle"
    /\ <<s, level>> \in Marks /\ s \in DOMAIN slotMeta
    /\ setSlot' = s /\ setLevel' = level
    /\ setting' = "write"
    /\ UNCHANGED <<bucketVars, disk, phase, cache, putting, pruneVars, histVars>>

(* ... writes it back, whatever has become of the slot meanwhile ...       *)
WriteMeta ==
    /\ setting = "write"
    /\ slotMeta' = [s \in DOMAIN slotMeta \cup {setSlot} |->
                       IF s = setSlot THEN setLevel ELSE slotMeta[s]]
    /\ setting' = "mark"
    /\ UNCHANGED <<blocks, txBySig, addrSigs, roots, disk, phase, cache, putting,
                   pruneVars, setSlot, setLevel, histVars>>

(* ... and raises the finalized or confirmed slot, cached and saved.       *)
MarkSlot ==
    /\ setting = "mark"
    /\ LET raise(m) ==
             [m EXCEPT
                !.finalized = IF setLevel = "finalized" /\ setSlot > cache.finalized
                              THEN setSlot ELSE @,
                !.confirmed = IF setLevel = "confirmed" /\ setSlot > cache.confirmed
                              THEN setSlot ELSE @]
       IN  cache' = raise(cache) /\ disk' = raise(disk)
    /\ setting' = "idle" /\ setSlot' = 0 /\ setLevel' = "processed"
    /\ UNCHANGED <<bucketVars, phase, putting, pruneVars, histVars>>

SetRoot(s) ==
    /\ phase = "open"
    /\ \E mark \in Marks : mark[1] = s
    /\ roots' = roots \cup {s}
    /\ UNCHANGED <<blocks, slotMeta, txBySig, addrSigs, disk, phase, cache, putting,
                   pruneVars, setVars, histVars>>

-----------------------------------------------------------------------------
Pruner ==
    \/ PruneBegin \/ PruneList \/ DeleteRead \/ DeleteRefused \/ EraseBlock
    \/ PruneTally \/ PruneSave \/ PrunerExit

Next ==
    \/ Open \/ Crash \/ BeginClose \/ FinishClose
    \/ (\E s \in Slots : PutBlock(s)) \/ UpdateCache
    \/ Pruner
    \/ (\E s \in Slots, l \in Levels : SetCommitment(s, l)) \/ WriteMeta \/ MarkSlot
    \/ (\E s \in Slots : SetRoot(s))

Spec == Init /\ [][Next]_vars

-----------------------------------------------------------------------------
(* At every moment, also after a crash in the middle of a prune or between *)
(* the steps of SetCommitment, the indexes hold the transactions of the    *)
(* stored blocks and nothing else, and each stored block has its metadata. *)
IndexMatchesBlocks ==
    /\ txBySig = UNION {TxsOf[s] : s \in blocks}
    /\ addrSigs = UNION {AddrKeys(s) : s \in blocks}
    /\ blocks \subseteq DOMAIN slotMeta

(* Pruning never takes a block of the last Retain slots, however far the   *)
(* chain has moved since the cut-off was read.                             *)
RecentBlocksKept ==
    \A s \in everPut : (\A t \in everPut : s + Retain >= t) => s \in blocks

(* Without a crash the block counter never falls behind the blocks, so     *)
(* that the subtraction in Prune does not wrap.  (It may run ahead: a      *)
(* prune cut short by Close does not count what it deleted.)               *)
CountCoversBlocks ==
    (crashes = 0 /\ phase # "down") =>
        Cardinality(blocks) <= cache.count + (IF putting # 0 THEN 1 ELSE 0)

(* Without a crash no stored block is older than the oldest slot.          *)
OldestCoversBlocks ==
    (crashes = 0 /\ phase # "down") => \A s \in blocks : cache.oldest <= s

(* "GetOldestSlot returns the oldest slot still stored" (blockstore.go:821)*)
(* at any time: no stored block is older.                                  *)
OldestIsOldest == phase # "down" => \A s \in blocks : cache.oldest <= s

(* Close returns, also when it interrupts a prune.                         *)
CloseReturns == phase = "closing" ~> phase = "down"
=============================================================================
