-------------------------- MODULE BlockstoreProofs --------------------------
(***************************************************************************)
(* Proofs about Blockstore for every set of slots, transactions and marks, *)
(* every retention and any number of crashes.                              *)
(***************************************************************************)
EXTENDS Blockstore, FiniteSetTheorems, WellFoundedInduction, TLAPS

Erasing == prune \in {"next", "erase"}
Pending == IF putting # 0 THEN 1 ELSE 0
Uncounted == IF Erasing THEN pruned ELSE 0

(* Where the actors are, and what they then hold.                          *)
ControlOK ==
    /\ phase = "down" => prune = "exited"
    /\ phase # "open" => putting = 0 /\ setting = "idle"
    /\ setting # "idle" => setSlot \in Slots
    /\ prune = "erase" => victim \in victims

(* No slot was ever put beyond the latest slot on disk, which the cache    *)
(* follows with the block that is being put.                               *)
LatestOK ==
    /\ blocks \subseteq everPut
    /\ disk.latest \in everPut \cup {0}
    /\ \A s \in everPut : s <= disk.latest
    /\ phase # "down" =>
          /\ IF putting = 0 THEN cache.latest = disk.latest
             ELSE cache.latest < putting /\ putting = disk.latest /\ putting \in blocks
          /\ \A s \in everPut : s <= cache.latest \/ s = putting

(* What the pruner is about to delete: the stored blocks below a cut-off   *)
(* that lay Retain slots behind when it was taken, and the chain only      *)
(* grows.                                                                  *)
PruneOK ==
    /\ prune \in {"list", "next", "erase", "save"} =>
          cutoff > 0 /\ cutoff + Retain <= cache.latest
    /\ Erasing => /\ victims = Prunable
                  /\ pruned + Cardinality(victims) <= Cardinality(Slots)

(* Without a crash: the blocks and those deleted but not yet counted are   *)
(* counted, and no more were counted than ever put.                        *)
CountOK ==
    crashes = 0 =>
        IF phase = "down"
        THEN Cardinality(blocks) <= disk.count /\ disk.count <= Cardinality(everPut)
        ELSE /\ Cardinality(blocks) + Uncounted <= cache.count + Pending
             /\ cache.count + Pending <= Cardinality(everPut)

OldestFits(values) ==
    /\ \A s \in blocks : values.oldest <= s
    /\ values.oldest <= values.latest
    /\ values.oldest = 0 => values.latest = 0

(* Without a crash: the oldest slot is none only in a store that never had *)
(* a block, else it lies between 1 and every block.                        *)
OldestOK == crashes = 0 => OldestFits(IF phase = "down" THEN disk ELSE cache)

IInv ==
    /\ TypeOK
    /\ ControlOK
    /\ LatestOK
    /\ PruneOK
    /\ IndexMatchesBlocks
    /\ RecentBlocksKept
    /\ CountOK
    /\ OldestOK

-----------------------------------------------------------------------------
(* The smallest element of a set of naturals is one of them, and none is   *)
(* smaller.                                                                *)
LEMMA MinIsLeast ==
    ASSUME NEW S, S \subseteq Nat, S # {}
    PROVE  Min(S) \in S /\ \A x \in S : Min(S) <= x
<1>1. PICK m \in S : \A x \in S : ~ (<<x, m>> \in OpToRel(<, Nat))
  BY NatLessThanWellFounded, WFMin
<1>2. \A x \in S : x \in Nat /\ m \in Nat => ~ (x < m)
  BY <1>1, Zenon DEF OpToRel
<1>3. \A x \in S : m <= x
  BY <1>2
<1>. QED  BY <1>3 DEF Min

(* The counter stays below Wrap, and counts up without wrapping there.     *)
LEMMA CounterSteps ==
    ASSUME NEW n \in Nat
    PROVE  /\ n % Wrap \in Uint64
           /\ n < Wrap => n % Wrap = n
           /\ \A k \in Nat : n < Wrap /\ k < Wrap => Sub64(n, k) \in Uint64
<1>. Wrap \in Nat \ {0}
  BY StoreAssumption
<1>1. n % Wrap \in 0 .. Wrap - 1
  OBVIOUS
<1>2. n < Wrap => n % Wrap = n
  OBVIOUS
<1>3. \A k \in Nat : n < Wrap /\ k < Wrap => Sub64(n, k) \in Uint64
  BY DEF Sub64, Uint64
<1>. QED  BY <1>1, <1>2, <1>3 DEF Uint64

(* There are fewer slots than counter values, and every set of slots is    *)
(* finite.                                                                 *)
LEMMA SlotSets ==
    ASSUME NEW S, S \subseteq Slots
    PROVE  /\ IsFiniteSet(S) /\ Cardinality(S) \in Nat
           /\ Cardinality(S) <= Cardinality(Slots)
           /\ Cardinality(Slots) \in Nat /\ Cardinality(Slots) < Wrap
           /\ \A s \in Slots : s \in Nat /\ s > 0 /\ s < Wrap
<1>. USE StoreAssumption
<1>1. IsFiniteSet(S) /\ Cardinality(S) <= Cardinality(Slots)
  BY FS_Subset
<1>2. Cardinality(S) \in Nat /\ Cardinality(Slots) \in Nat
  BY <1>1, FS_CardinalityType
<1>3. IsFiniteSet(1 .. Wrap - 1) /\ Cardinality(1 .. Wrap - 1) = Wrap - 1
  BY FS_Interval
<1>4. Slots \subseteq 1 .. Wrap - 1
  OBVIOUS
<1>5. Cardinality(Slots) <= Cardinality(1 .. Wrap - 1)
  BY <1>3, <1>4, FS_Subset, Zenon
<1>. QED  BY <1>1, <1>2, <1>3, <1>5

(* A set of slots grows or shrinks by one with a slot put or erased.       *)
LEMMA SlotSetSteps ==
    ASSUME NEW S, S \subseteq Slots, NEW s
    PROVE  /\ s \notin S => Cardinality(S \cup {s}) = Cardinality(S) + 1
           /\ s \in S => Cardinality(S \ {s}) = Cardinality(S) - 1
<1>1. IsFiniteSet(S)
  BY SlotSets, Zenon
<1>. QED  BY <1>1, FS_AddElement, FS_RemoveElement

-----------------------------------------------------------------------------
Fields == {"latest", "finalized", "confirmed", "oldest", "count"}

(* The metadata of slots that are not stored has the four cached fields.   *)
LEMMA FieldsOfMetadata == DOMAIN NoSlots = Fields
BY DEF NoSlots, Fields

(* An empty directory and a closed store satisfy the invariant.            *)
LEMMA InvInit == Init => IInv
<1>. SUFFICES ASSUME Init PROVE IInv
  OBVIOUS
<1>. USE StoreAssumption
<1>. USE DEF Init
<1>1. TypeOK
  BY FieldsOfMetadata DEF TypeOK, NoSlots, Fields, Uint64, Levels
<1>2. ControlOK /\ PruneOK
  BY DEF ControlOK, PruneOK, Erasing
<1>3. LatestOK /\ RecentBlocksKept
  BY DEF LatestOK, NoSlots, RecentBlocksKept
<1>4. IndexMatchesBlocks
  BY DEF IndexMatchesBlocks
<1>5. CountOK
  BY FS_EmptySet DEF CountOK, NoSlots
<1>6. OldestOK
  BY DEF OldestOK, OldestFits, NoSlots
<1>. QED  BY <1>1, <1>2, <1>3, <1>4, <1>5, <1>6 DEF IInv

(* Every step keeps the types, and what each actor holds at its step.      *)
LEMMA TypeStep ==
    ASSUME TypeOK, ControlOK, PruneOK, [Next]_vars
    PROVE  TypeOK' /\ ControlOK'
<1>. USE StoreAssumption, SlotSets, FieldsOfMetadata
<1>. USE DEF TypeOK, ControlOK, Fields, bucketVars, pruneVars, setVars, histVars
<1>1. CASE Open
  BY <1>1 DEF Open
<1>2. CASE Crash
  BY <1>2 DEF Crash, Forget, NoSlots, Uint64, Levels
<1>3. CASE BeginClose
  BY <1>3 DEF BeginClose
<1>4. CASE FinishClose
  BY <1>4 DEF FinishClose, Forget, NoSlots, Uint64, Levels
<1>5. CASE \E s \in Slots : PutBlock(s)
  BY <1>5 DEF PutBlock, AddrKeys, Uint64, Levels
<1>6. CASE UpdateCache
  <2>. DEFINE n == (cache.count + 1) % Wrap
  <2>1. cache.count \in Nat /\ n \in Uint64 /\ putting \in Uint64
    BY <1>6, CounterSteps DEF UpdateCache, Uint64
  <2>2. cache' \in [Fields -> Uint64]
    <3>. HIDE DEF n
    <3>. QED  BY <1>6, <2>1 DEF UpdateCache, Larger, Uint64, n
  <2>. QED  BY <1>6, <2>2 DEF UpdateCache
<1>7. CASE PruneBegin
  BY <1>7 DEF PruneBegin, Uint64
<1>8. CASE PruneList
  BY <1>8 DEF PruneList, Prunable
<1>9. CASE DeleteRead
  BY <1>9, MinIsLeast DEF DeleteRead
<1>10. CASE DeleteRefused
  BY <1>10 DEF DeleteRefused
<1>11. CASE EraseBlock
  BY <1>11 DEF EraseBlock
<1>12. CASE PruneTally
  <2>1. pruned < Wrap /\ cache.count \in Nat /\ cache.count < Wrap
    BY <1>12 DEF PruneTally, Uint64, PruneOK, Erasing
  <2>2. Sub64(cache.count, pruned) \in Uint64
    BY <2>1, CounterSteps
  <2>3. cache' \in [Fields -> Uint64]
    BY <1>12, <2>2 DEF PruneTally
  <2>. QED  BY <1>12, <2>3 DEF PruneTally
<1>13. CASE PruneSave
  BY <1>13 DEF PruneSave
<1>14. CASE PrunerExit
  BY <1>14 DEF PrunerExit
<1>15. CASE \E s \in Slots, l \in Levels : SetCommitment(s, l)
  BY <1>15 DEF SetCommitment
<1>16. CASE WriteMeta
  BY <1>16 DEF WriteMeta
<1>17. CASE MarkSlot
  <2>1. setSlot \in Uint64
    BY <1>17 DEF MarkSlot, Uint64
  <2>2. cache' \in [Fields -> Uint64]
    BY <1>17, <2>1 DEF MarkSlot
  <2>3. disk' \in [Fields -> Uint64]
    BY <1>17, <2>1 DEF MarkSlot
  <2>. QED  BY <1>17, <2>2, <2>3 DEF MarkSlot, Levels
<1>18. CASE \E s \in Slots : SetRoot(s)
  BY <1>18 DEF SetRoot
<1>19. CASE UNCHANGED vars
  BY <1>19 DEF vars
<1>. QED
  BY <1>1, <1>2, <1>3, <1>4, <1>5, <1>6, <1>7, <1>8, <1>9, <1>10, <1>11, <1>12, <1>13,
     <1>14, <1>15, <1>16, <1>17, <1>18, <1>19 DEF Next, Pruner

-----------------------------------------------------------------------------
(* The pruner's steps before and after it deletes, SetRoot and             *)
(* SetCommitment's first two touch neither blocks nor cached values.       *)
Aside ==
    \/ DeleteRead \/ DeleteRefused \/ PrunerExit
    \/ (\E s \in Slots, l \in Levels : SetCommitment(s, l)) \/ WriteMeta
    \/ (\E s \in Slots : SetRoot(s)) \/ UNCHANGED vars

(* The steps beside the ones that put, erase or prune leave the blocks and *)
(* the counters of the pruner alone.                                       *)
LEMMA AsideFrame ==
    ASSUME [Next]_vars, Aside
    PROVE  /\ UNCHANGED <<blocks, disk, phase, cache, putting, cutoff, victims,
                          pruned, everPut, crashes>>
           /\ prune' = prune \/ (prune = "next" /\ prune' = "erase")
              \/ (prune = "next" /\ prune' = "idle") \/ prune' = "exited"
<1>. USE DEF Aside, bucketVars, pruneVars, setVars, histVars
<1>1. CASE DeleteRead \/ DeleteRefused \/ PrunerExit
  BY <1>1 DEF DeleteRead, DeleteRefused, PrunerExit
<1>2. CASE \E s \in Slots, l \in Levels : SetCommitment(s, l)
  BY <1>2 DEF SetCommitment
<1>3. CASE WriteMeta \/ \E s \in Slots : SetRoot(s)
  BY <1>3 DEF WriteMeta, SetRoot
<1>4. CASE UNCHANGED vars
  BY <1>4 DEF vars
<1>. QED  BY <1>1, <1>2, <1>3, <1>4

(* Every step keeps the cached latest slot in agreement with the database: *)
(* PutBlock alone may lag, by the block it has just written.               *)
LEMMA LatestStep ==
    ASSUME TypeOK, ControlOK, LatestOK, PruneOK, [Next]_vars
    PROVE  LatestOK'
<1>. USE StoreAssumption, SlotSets, FieldsOfMetadata
<1>. USE DEF TypeOK, ControlOK, LatestOK, Fields, Uint64, bucketVars, pruneVars,
             setVars, histVars
<1>1. CASE Open
  BY <1>1 DEF Open
<1>2. CASE Crash
  BY <1>2 DEF Crash, Forget
<1>3. CASE BeginClose
  BY <1>3 DEF BeginClose
<1>4. CASE FinishClose
  BY <1>4 DEF FinishClose, Forget
<1>5. CASE \E s \in Slots : PutBlock(s)
  BY <1>5 DEF PutBlock
<1>6. CASE UpdateCache
  BY <1>6 DEF UpdateCache, Larger
<1>7. CASE PruneBegin \/ PruneList
  BY <1>7 DEF PruneBegin, PruneList
<1>8. CASE EraseBlock
  <2>1. victim < cutoff /\ cutoff <= cache.latest
    BY <1>8 DEF EraseBlock, PruneOK, Erasing, Prunable
  <2>2. victim # putting
    BY <1>8, <2>1 DEF EraseBlock
  <2>. QED  BY <1>8, <2>2 DEF EraseBlock
<1>9. CASE PruneTally
  BY <1>9 DEF PruneTally
<1>10. CASE PruneSave
  BY <1>10 DEF PruneSave
<1>11. CASE MarkSlot
  BY <1>11 DEF MarkSlot
<1>12. CASE Aside
  BY <1>12, AsideFrame
<1>. QED
  BY <1>1, <1>2, <1>3, <1>4, <1>5, <1>6, <1>7, <1>8, <1>9, <1>10, <1>11, <1>12
     DEF Next, Pruner, Aside

(* Every step keeps what a pruning pass relies on: its victims lie below   *)
(* its cut-off, the cut-off Retain below the latest slot.                  *)
LEMMA PruneStep ==
    ASSUME TypeOK, ControlOK, LatestOK, PruneOK, [Next]_vars
    PROVE  PruneOK'
<1>. USE StoreAssumption, SlotSets, FieldsOfMetadata
<1>. USE DEF TypeOK, ControlOK, LatestOK, PruneOK, Erasing, Prunable, Fields, Uint64,
             bucketVars, pruneVars, setVars, histVars
<1>1. CASE Open
  BY <1>1 DEF Open
<1>2. CASE Crash
  BY <1>2 DEF Crash, Forget
<1>3. CASE BeginClose
  BY <1>3 DEF BeginClose
<1>4. CASE FinishClose
  BY <1>4 DEF FinishClose, Forget
<1>5. CASE \E s \in Slots : PutBlock(s)
  BY <1>5 DEF PutBlock
<1>6. CASE UpdateCache
  BY <1>6 DEF UpdateCache, Larger
<1>7. CASE PruneBegin
  BY <1>7 DEF PruneBegin
<1>8. CASE PruneList
  <2>1. Prunable \subseteq Slots
    OBVIOUS
  <2>2. Cardinality(Prunable) <= Cardinality(Slots) /\ Cardinality(Prunable) \in Nat
    BY <2>1, SlotSets, Zenon
  <2>. QED  BY <1>8, <2>2 DEF PruneList
<1>9. CASE EraseBlock
  <2>1. victim \in victims /\ victims = Prunable
    BY <1>9 DEF EraseBlock
  <2>2. victims' = Prunable'
    BY <1>9, <2>1 DEF EraseBlock
  <2>3. Cardinality(victims) \in Nat
    BY SlotSets, Zenon
  <2>4. Cardinality(victims \ {victim}) = Cardinality(victims) - 1
    BY <2>1, SlotSetSteps, Zenon
  <2>5. pruned' + Cardinality(victims') <= Cardinality(Slots)
    BY <1>9, <2>3, <2>4 DEF EraseBlock
  <2>. QED  BY <1>9, <2>2, <2>5 DEF EraseBlock
<1>10. CASE PruneTally
  BY <1>10 DEF PruneTally
<1>11. CASE PruneSave
  BY <1>11 DEF PruneSave
<1>12. CASE MarkSlot
  BY <1>12 DEF MarkSlot
<1>13. CASE Aside
  BY <1>13, AsideFrame
<1>. QED
  BY <1>1, <1>2, <1>3, <1>4, <1>5, <1>6, <1>7, <1>8, <1>9, <1>10, <1>11, <1>12, <1>13
     DEF Next, Pruner, Aside

-----------------------------------------------------------------------------
(* Two blocks share no signature, and no key of the address index: what    *)
(* DeleteBlock takes out belongs to its block alone.                       *)
LEMMA IndexOfUnion ==
    ASSUME NEW S, S \subseteq Slots, NEW s \in Slots
    PROVE  /\ UNION {TxsOf[t] : t \in S \cup {s}} = (UNION {TxsOf[t] : t \in S}) \cup TxsOf[s]
           /\ UNION {AddrKeys(t) : t \in S \cup {s}} = (UNION {AddrKeys(t) : t \in S}) \cup AddrKeys(s)
           /\ UNION {TxsOf[t] : t \in S \ {s}} = (UNION {TxsOf[t] : t \in S}) \ TxsOf[s]
           /\ UNION {AddrKeys(t) : t \in S \ {s}} = (UNION {AddrKeys(t) : t \in S}) \ AddrKeys(s)
<1>1. \A t \in S \ {s} : TxsOf[s] \cap TxsOf[t] = {}
  BY StoreAssumption
<1>2. \A t \in S \ {s} : AddrKeys(s) \cap AddrKeys(t) = {}
  BY DEF AddrKeys
<1>3. UNION {TxsOf[t] : t \in S \cup {s}} = (UNION {TxsOf[t] : t \in S}) \cup TxsOf[s]
  OBVIOUS
<1>4. UNION {AddrKeys(t) : t \in S \cup {s}} = (UNION {AddrKeys(t) : t \in S}) \cup AddrKeys(s)
  OBVIOUS
<1>5. UNION {TxsOf[t] : t \in S \ {s}} = (UNION {TxsOf[t] : t \in S}) \ TxsOf[s]
  BY <1>1
<1>6. UNION {AddrKeys(t) : t \in S \ {s}} = (UNION {AddrKeys(t) : t \in S}) \ AddrKeys(s)
  BY <1>2
<1>. QED  BY <1>3, <1>4, <1>5, <1>6

(* Every step keeps the indexes equal to what the blocks contain: PutBlock *)
(* and EraseBlock change all of them in one transaction.                   *)
LEMMA IndexStep ==
    ASSUME TypeOK, ControlOK, IndexMatchesBlocks, [Next]_vars
    PROVE  IndexMatchesBlocks'
<1>. USE DEF TypeOK, ControlOK, IndexMatchesBlocks, bucketVars, pruneVars, setVars,
             histVars
<1>1. CASE \E s \in Slots : PutBlock(s)
  <2>. PICK s \in Slots : PutBlock(s)
    BY <1>1
  <2>1. /\ blocks' = blocks \cup {s} /\ DOMAIN slotMeta' = DOMAIN slotMeta \cup {s}
        /\ txBySig' = txBySig \cup TxsOf[s] /\ addrSigs' = addrSigs \cup AddrKeys(s)
    BY DEF PutBlock
  <2>2. txBySig' = UNION {TxsOf[t] : t \in blocks'}
    BY <2>1, IndexOfUnion
  <2>3. addrSigs' = UNION {AddrKeys(t) : t \in blocks'}
    BY <2>1, IndexOfUnion
  <2>. QED  BY <2>1, <2>2, <2>3 DEF AddrKeys
<1>2. CASE EraseBlock
  <2>1. /\ blocks' = blocks \ {victim} /\ DOMAIN slotMeta' = DOMAIN slotMeta \ {victim}
        /\ txBySig' = txBySig \ TxsOf[victim] /\ addrSigs' = addrSigs \ AddrKeys(victim)
        /\ victim \in Slots
    BY <1>2 DEF EraseBlock
  <2>2. txBySig' = UNION {TxsOf[t] : t \in blocks'}
    BY <2>1, IndexOfUnion
  <2>3. addrSigs' = UNION {AddrKeys(t) : t \in blocks'}
    BY <2>1, IndexOfUnion
  <2>. QED  BY <2>1, <2>2, <2>3 DEF AddrKeys
<1>3. CASE WriteMeta
  <2>1. DOMAIN slotMeta' = DOMAIN slotMeta \cup {setSlot}
    BY <1>3 DEF WriteMeta
  <2>. QED  BY <1>3, <2>1 DEF WriteMeta, AddrKeys
<1>4. CASE UNCHANGED <<blocks, slotMeta, txBySig, addrSigs>>
  BY <1>4 DEF AddrKeys
<1>5. CASE Open \/ Crash \/ BeginClose \/ FinishClose \/ UpdateCache
  BY <1>4, <1>5 DEF Open, Crash, BeginClose, FinishClose, UpdateCache
<1>6. CASE PruneBegin \/ PruneList \/ DeleteRead \/ DeleteRefused \/ PruneTally
           \/ PruneSave \/ PrunerExit
  BY <1>4, <1>6 DEF PruneBegin, PruneList, DeleteRead, DeleteRefused, PruneTally,
                    PruneSave, PrunerExit
<1>7. CASE (\E s \in Slots, l \in Levels : SetCommitment(s, l)) \/ MarkSlot
           \/ (\E s \in Slots : SetRoot(s)) \/ UNCHANGED vars
  BY <1>4, <1>7 DEF SetCommitment, MarkSlot, SetRoot, vars
<1>. QED  BY <1>1, <1>2, <1>3, <1>5, <1>6, <1>7 DEF Next, Pruner

(* Every step spares the retained window: a block is only erased below the *)
(* cut-off, and the latest slot never goes back.                           *)
LEMMA RecentStep ==
    ASSUME TypeOK, ControlOK, LatestOK, PruneOK, RecentBlocksKept, [Next]_vars
    PROVE  RecentBlocksKept'
<1>. USE StoreAssumption, SlotSets
<1>. USE DEF TypeOK, ControlOK, RecentBlocksKept, bucketVars, pruneVars, setVars,
             histVars
<1>1. CASE \E s \in Slots : PutBlock(s)
  BY <1>1 DEF PutBlock
<1>2. CASE EraseBlock
  <2>1. victim \in victims /\ victim < cutoff /\ cutoff + Retain <= cache.latest
    BY <1>2 DEF EraseBlock, PruneOK, Erasing, Prunable
  <2>2. cache.latest <= disk.latest /\ disk.latest \in everPut /\ phase # "down"
    BY <1>2, <2>1, FieldsOfMetadata DEF EraseBlock, LatestOK, PruneOK, Fields, Uint64
  <2>3. victim + Retain < disk.latest
    BY <2>1, <2>2, FieldsOfMetadata DEF Fields, Uint64
  <2>4. ~ (\A t \in everPut : victim + Retain >= t)
    BY <2>2, <2>3, FieldsOfMetadata DEF Fields, Uint64
  <2>5. blocks' = blocks \ {victim} /\ everPut' = everPut
    BY <1>2 DEF EraseBlock
  <2>. QED  BY <2>4, <2>5
<1>3. CASE UNCHANGED <<blocks, everPut>>
  BY <1>3
<1>4. CASE Open \/ Crash \/ BeginClose \/ FinishClose \/ UpdateCache
  BY <1>3, <1>4 DEF Open, Crash, BeginClose, FinishClose, UpdateCache
<1>5. CASE PruneBegin \/ PruneList \/ PruneTally \/ PruneSave
  BY <1>3, <1>5 DEF PruneBegin, PruneList, PruneTally, PruneSave
<1>6. CASE MarkSlot \/ Aside
  BY <1>3, <1>6, AsideFrame DEF MarkSlot
<1>. QED  BY <1>1, <1>2, <1>4, <1>5, <1>6 DEF Next, Pruner, Aside

-----------------------------------------------------------------------------
(* Every step keeps the cached block count at or above the number of       *)
(* blocks, however the tally of a pass and a put interleave.               *)
LEMMA CountStep ==
    ASSUME TypeOK, ControlOK, LatestOK, PruneOK, CountOK, [Next]_vars
    PROVE  CountOK'
<1>. DEFINE B == Cardinality(blocks)
            P == Cardinality(everPut)
<1>0. blocks \subseteq Slots /\ everPut \subseteq Slots
  BY DEF TypeOK
<1>1. B \in Nat /\ P \in Nat /\ P < Wrap
  <2>1. B \in Nat
    BY <1>0, SlotSets, Zenon
  <2>2. /\ P \in Nat /\ P <= Cardinality(Slots)
        /\ Cardinality(Slots) \in Nat /\ Cardinality(Slots) < Wrap
    BY <1>0, SlotSets, Zenon
  <2>. QED  BY <2>1, <2>2, StoreAssumption
<1>2. /\ crashes \in Nat /\ pruned \in Nat
      /\ cache \in [Fields -> Uint64] /\ disk \in [Fields -> Uint64]
  BY FieldsOfMetadata DEF TypeOK
<1>. HIDE DEF B, P
<1>. USE <1>1, <1>2, StoreAssumption
<1>. USE DEF ControlOK, CountOK, Pending, Uncounted, Erasing, Fields, Uint64,
             bucketVars, pruneVars, setVars, histVars
<1>3. CASE Open
  BY <1>3 DEF Open, B, P
<1>4. CASE Crash
  BY <1>4 DEF Crash
<1>5. CASE BeginClose
  BY <1>5 DEF BeginClose, B, P
<1>6. CASE FinishClose
  BY <1>6 DEF FinishClose, Forget, B, P
<1>7. CASE \E s \in Slots : PutBlock(s)
  <2>. PICK s \in Slots : PutBlock(s)
    BY <1>7
  <2>1. s \notin everPut /\ s \notin blocks /\ s \in Nat \ {0}
    BY StoreAssumption DEF PutBlock, LatestOK, TypeOK
  <2>2. blocks' = blocks \cup {s} /\ everPut' = everPut \cup {s}
    BY DEF PutBlock
  <2>3. Cardinality(blocks') = B + 1
    BY <1>0, <2>1, <2>2, SlotSetSteps, Zenon DEF B
  <2>4. Cardinality(everPut') = P + 1
    BY <1>0, <2>1, <2>2, SlotSetSteps, Zenon DEF P
  <2>. QED  BY <2>1, <2>3, <2>4 DEF PutBlock, B, P
<1>8. CASE UpdateCache
  <2>. DEFINE n == cache.count + 1
  <2>1. n \in Nat /\ (crashes = 0 => n < Wrap)
    BY <1>8 DEF UpdateCache, P
  <2>. HIDE DEF n
  <2>2. crashes = 0 => n % Wrap = n
    BY <2>1, CounterSteps, Zenon
  <2>3. cache'.count = n % Wrap
    BY <1>8 DEF UpdateCache, n
  <2>4. crashes = 0 => cache'.count = cache.count + 1
    BY <2>2, <2>3 DEF n
  <2>. QED  BY <1>8, <2>4 DEF UpdateCache, B, P
<1>9. CASE PruneBegin \/ PruneList
  BY <1>9 DEF PruneBegin, PruneList, B, P
<1>10. CASE EraseBlock
  <2>1. victim \in blocks /\ blocks' = blocks \ {victim}
    BY <1>10 DEF EraseBlock, PruneOK, Prunable
  <2>2. Cardinality(blocks') = B - 1
    BY <1>0, <2>1, SlotSetSteps, Zenon DEF B
  <2>. QED  BY <1>10, <2>2 DEF EraseBlock, B, P
<1>11. CASE PruneTally
  <2>1. crashes = 0 => pruned <= cache.count
    <3>1. CASE putting = 0
      BY <1>11, <3>1 DEF PruneTally, B
    <3>2. CASE putting # 0
      <4>1. phase # "down"
        BY <1>11 DEF PruneTally
      <4>2. blocks # {}
        BY <3>2, <4>1 DEF LatestOK
      <4>3. B # 0
        BY <1>0, <4>2, SlotSets, FS_EmptySet, Zenon DEF B
      <4>. QED  BY <1>11, <3>2, <4>1, <4>3 DEF PruneTally, B
    <3>. QED  BY <3>1, <3>2
  <2>2. crashes = 0 => cache'.count = cache.count - pruned
    BY <1>11, <2>1 DEF PruneTally, Sub64
  <2>. QED  BY <1>11, <2>2 DEF PruneTally, B, P
<1>12. CASE PruneSave
  BY <1>12 DEF PruneSave, B, P
<1>13. CASE MarkSlot
  BY <1>13 DEF MarkSlot, B, P
<1>14. CASE Aside
  BY <1>14, AsideFrame DEF B, P
<1>. QED
  BY <1>3, <1>4, <1>5, <1>6, <1>7, <1>8, <1>9, <1>10, <1>11, <1>12, <1>13, <1>14
     DEF Next, Pruner, Aside

-----------------------------------------------------------------------------
(* The oldest slot follows the first block put and, after a prune, the     *)
(* cut-off, below which no block is left.                                  *)
LEMMA OldestStep ==
    ASSUME TypeOK, ControlOK, LatestOK, PruneOK, OldestOK, [Next]_vars
    PROVE  OldestOK'
<1>. USE StoreAssumption, SlotSets, FieldsOfMetadata
<1>. USE DEF TypeOK, ControlOK, LatestOK, OldestOK, OldestFits, Fields, Uint64,
             bucketVars, pruneVars, setVars, histVars
<1>1. CASE Open
  BY <1>1 DEF Open
<1>2. CASE Crash
  BY <1>2 DEF Crash
<1>3. CASE BeginClose
  BY <1>3 DEF BeginClose
<1>4. CASE FinishClose
  BY <1>4 DEF FinishClose, Forget
<1>5. CASE \E s \in Slots : PutBlock(s)
  BY <1>5 DEF PutBlock
<1>6. CASE UpdateCache
  BY <1>6 DEF UpdateCache, Larger
<1>7. CASE PruneBegin \/ PruneList
  BY <1>7 DEF PruneBegin, PruneList
<1>8. CASE EraseBlock
  BY <1>8 DEF EraseBlock
<1>9. CASE PruneTally
  <2>1. \A s \in blocks : cutoff <= s
    BY <1>9 DEF PruneTally, PruneOK, Erasing, Prunable
  <2>2. cutoff > 0 /\ cutoff <= cache.latest
    BY <1>9 DEF PruneTally, PruneOK
  <2>. QED  BY <1>9, <2>1, <2>2 DEF PruneTally
<1>10. CASE PruneSave
  BY <1>10 DEF PruneSave
<1>11. CASE MarkSlot
  BY <1>11 DEF MarkSlot
<1>12. CASE Aside
  BY <1>12, AsideFrame
<1>. QED
  BY <1>1, <1>2, <1>3, <1>4, <1>5, <1>6, <1>7, <1>8, <1>9, <1>10, <1>11, <1>12
     DEF Next, Pruner, Aside

-----------------------------------------------------------------------------
(* Every step of the store's three actors keeps the invariant.             *)
LEMMA InvStep == IInv /\ [Next]_vars => IInv'
BY TypeStep, LatestStep, PruneStep, IndexStep, RecentStep, CountStep, OldestStep DEF IInv

(* The strengthening holds in every reachable state.                       *)
LEMMA InvHolds == Spec => []IInv
BY InvInit, InvStep, PTL DEF Spec

(* The buckets, cached values and program counters keep their types: no    *)
(* cached counter leaves the range of uint64.                              *)
THEOREM TypeCorrect == Spec => []TypeOK
<1>1. IInv => TypeOK
  BY DEF IInv
<1>. QED  BY <1>1, InvHolds, PTL

(* At every moment, whatever crashes, the indexes hold what belongs to the *)
(* stored blocks and nothing else: PutBlock and DeleteBlock add and take   *)
(* out the same entries, and no two blocks share one.                      *)
THEOREM IndexMatches == Spec => []IndexMatchesBlocks
<1>1. IInv => IndexMatchesBlocks
  BY DEF IInv
<1>. QED  BY <1>1, InvHolds, PTL

(* Prune never deletes one of the last Retain slots, whatever the other    *)
(* actors do between the moment it takes the cut-off and the deletion.     *)
THEOREM RecentKept == Spec => []RecentBlocksKept
<1>1. IInv => RecentBlocksKept
  BY DEF IInv
<1>. QED  BY <1>1, InvHolds, PTL

(* Without a crash the cached block count covers the stored blocks, so     *)
(* that Prune's uint64 subtraction does not wrap.                          *)
THEOREM CountCovers == Spec => []CountCoversBlocks
<1>1. TypeOK /\ CountOK => CountCoversBlocks
  <2>. SUFFICES ASSUME TypeOK, CountOK, crashes = 0, phase # "down"
                PROVE  Cardinality(blocks) <= cache.count + Pending
    BY DEF CountCoversBlocks, Pending
  <2>1. Cardinality(blocks) \in Nat
    BY SlotSets, Zenon DEF TypeOK
  <2>2. cache.count \in Nat /\ pruned \in Nat
    BY FieldsOfMetadata DEF TypeOK, Fields, Uint64
  <2>. QED  BY <2>1, <2>2 DEF CountOK, Uncounted, Pending
<1>2. IInv => CountCoversBlocks
  BY <1>1 DEF IInv
<1>. QED  BY <1>2, InvHolds, PTL

(* Without a crash no stored block is older than the slot GetOldestSlot    *)
(* answers.                                                                *)
THEOREM OldestCovers == Spec => []OldestCoversBlocks
<1>1. IInv => OldestCoversBlocks
  BY DEF IInv, OldestOK, OldestFits, OldestCoversBlocks
<1>. QED  BY <1>1, InvHolds, PTL
=============================================================================
