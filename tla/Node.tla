-------------------------------- MODULE Node --------------------------------
(***************************************************************************)
(* The orchestrator pkg/node/node.go and the replayer it drives            *)
(* (pkg/replayer/replayer.go).  Three goroutines run while the node is up: *)
(*   - blockIngestionLoop takes blocks from the Geyser client and puts     *)
(*     them in the bounded channel blockQueue, dropping the oldest block   *)
(*     when it is full;                                                    *)
(*   - blockProcessingLoop buffers blocks, and in slot order stores each   *)
(*     one (PutBlock) and replays it (ReplaySlot);                         *)
(*   - syncMonitorLoop maintains the isSyncing flag.                       *)
(* The blockstore's pruner runs beside them.  The process may crash        *)
(* between any two steps; what BoltDB and BadgerDB hold survives.          *)
(*                                                                         *)
(* A block is identified with its slot: blockhash and content are those    *)
(* the chain has at that slot.  PreviousBlockhash is Parent[slot], and the *)
(* replayer's currentBlockhash is the hash at rSlot.                       *)
(***************************************************************************)
EXTENDS Integers, Sequences, FiniteSets

CONSTANTS
    Produced,        \* slots for which the network produced a block
    Parent,          \* Parent[s]: the slot named by block s's PreviousBlockhash
    StartSlot,       \* config.StartSlot (0: not set)
    SnapshotSlot,    \* slot of the Solana snapshot loaded by Start (0: none)
    QueueCap,        \* capacity of blockQueue (100 in the code)
    PendingWindow,   \* slots kept in the pending buffer (1000 in the code)
    MaxSlotLag,      \* config.MaxSlotLag (100 by default)
    Retain,          \* config.PruneRetainSlots
    NumTxs,          \* transactions in a block
    Reorder,         \* how many earlier blocks a streamed block may overtake
    Lossy,           \* whether the Geyser client's own channel drops blocks
    Wrap,            \* 2^64 of the code's uint64; any value above the slots
    MaxCrashes,      \* bound on the crashes of a behaviour
    MaxIOErrors      \* bound on the failed PutBlock and Commit calls

ASSUME ChainAssumption ==
    /\ Produced \subseteq Nat \ {0}
    /\ Parent \in [Produced -> Nat]
    /\ \A s \in Produced : Parent[s] < s
ASSUME ConfigAssumption ==
    /\ StartSlot \in Nat /\ SnapshotSlot \in Nat /\ PendingWindow \in Nat
    /\ MaxSlotLag \in Nat /\ Retain \in Nat /\ Reorder \in Nat
    /\ QueueCap \in Nat \ {0} /\ NumTxs \in Nat
    /\ Wrap \in Nat /\ 2 * MaxSlotLag < Wrap /\ PendingWindow < Wrap
    /\ Lossy \in BOOLEAN /\ MaxCrashes \in Nat /\ MaxIOErrors \in Nat

VARIABLES
    \* on disk
    stored,        \* slots in the blockstore
    dbLatest,      \* its metadata key latest_slot
    execs,         \* execs[s]: transactions of block s executed on the accounts
    acctSaved,     \* the accounts database's committed slot
    \* caches of the open databases
    latestCache,   \* BoltStore.latestSlot
    acctSlot,      \* BadgerDB.slot
    \* the node
    phase,         \* "down", "up", or "stopping" once Stop has cancelled ctx
    fromSlot,      \* the subscription's FromSlot (0: nil)
    currentSlot, latestSlot, isSyncing,
    \* the stream and blockIngestionLoop
    awaiting,      \* produced slots the subscription has still to deliver
    ingest,        \* program counter of blockIngestionLoop
    ingestBlock,   \* the block it holds while the queue was full
    queue,         \* blockQueue
    \* blockProcessingLoop
    proc,          \* its program counter
    pending,       \* pendingBlocks
    expected,      \* expectedSlot
    block,         \* the block being processed
    txDone,        \* transactions of it executed so far
    \* the replayer
    rSlot,         \* Replayer.currentSlot (currentBlockhash is its hash)
    \* history, read by the properties only
    replayed,      \* slots the replayer has completed
    bases,         \* slots a replayer was initialised at
    reported,      \* slots processBlock returned an error for (OnError)
    crashes, ioErrors

diskVars == <<stored, dbLatest, execs, acctSaved>>
cacheVars == <<latestCache, acctSlot>>
ingestVars == <<awaiting, ingest, ingestBlock>>
procVars == <<proc, pending, expected, block, txDone>>
statusVars == <<fromSlot, currentSlot, latestSlot, isSyncing>>
histVars == <<replayed, bases, reported, crashes, ioErrors>>
vars == <<diskVars, cacheVars, phase, statusVars, ingestVars, queue, procVars,
          rSlot, histVars>>

-----------------------------------------------------------------------------
(* Go's uint64 subtraction.                                                *)
Sub64(a, b) == IF a >= b THEN a - b ELSE a - b + Wrap

Larger(a, b) == IF a > b THEN a ELSE b

Running == phase # "down"

(* What a subscription delivers: everything from FromSlot on, or, without  *)
(* one, everything from the block that is current when it connects.        *)
Streams(from) ==
    IF from > 0 THEN {{s \in Produced : s >= from}}
    ELSE {{s \in Produced : s >= first} : first \in Produced}

StoreTypes ==
    /\ stored \subseteq Produced
    /\ dbLatest \in Nat /\ acctSaved \in Nat
    /\ execs \in [Produced -> Nat]
    /\ latestCache \in Nat /\ acctSlot \in Nat

StatusTypes ==
    /\ phase \in {"down", "up", "stopping"}
    /\ fromSlot \in Nat /\ currentSlot \in Nat /\ latestSlot \in Nat
    /\ isSyncing \in BOOLEAN

IngestTypes ==
    /\ awaiting \subseteq Produced
    /\ ingest \in {"recv", "evict", "push", "exited"}
    /\ ingestBlock \in Produced \cup {0}
    /\ queue \in Seq(Produced) /\ Len(queue) <= QueueCap

ProcTypes ==
    /\ proc \in {"idle", "drain", "put", "replay", "exec", "exited"}
    /\ pending \subseteq Produced
    /\ expected \in Nat
    /\ block \in Produced \cup {0}
    /\ txDone \in 0..NumTxs
    /\ rSlot \in Nat

HistoryTypes ==
    /\ replayed \subseteq Produced
    /\ bases \subseteq Nat
    /\ reported \subseteq Produced
    /\ crashes \in Nat /\ ioErrors \in Nat

(* The variables keep their types, and the queue its capacity.             *)
TypeOK == StoreTypes /\ StatusTypes /\ IngestTypes /\ ProcTypes /\ HistoryTypes

Init ==
    /\ stored = {} /\ dbLatest = 0 /\ acctSaved = 0
    /\ execs = [s \in Produced |-> 0]
    /\ latestCache = 0 /\ acctSlot = 0
    /\ phase = "down"
    /\ fromSlot = 0 /\ currentSlot = 0 /\ latestSlot = 0 /\ isSyncing = FALSE
    /\ awaiting = {} /\ ingest = "exited" /\ ingestBlock = 0 /\ queue = <<>>
    /\ proc = "exited" /\ pending = {} /\ expected = 0 /\ block = 0 /\ txDone = 0
    /\ rSlot = 0
    /\ replayed = {} /\ bases = {} /\ reported = {}
    /\ crashes = 0 /\ ioErrors = 0

-----------------------------------------------------------------------------
(* Lifecycle                                                               *)

(* The slot a new process resumes at: the latest the blockstore holds.     *)
ResumeSlot_FromAccounts == acctSaved
ResumeSlot == dbLatest

(* expectedSlot: the configured slot counts on a first start only.         *)
FirstExpected_StartSlotWins == IF StartSlot > 0 THEN StartSlot ELSE ResumeSlot + 1
FirstExpected ==
    IF ResumeSlot = 0 /\ StartSlot > 0 THEN StartSlot ELSE ResumeSlot + 1

(* Start on a fresh Node: open the stores, load the snapshot (while        *)
(* n.replayer is still nil, so only the accounts slot is set), initialise  *)
(* the replayer at the blockstore's latest slot, subscribe, start loops.   *)
Start ==
    /\ phase = "down"
    /\ phase' = "up"
    /\ latestCache' = dbLatest
    /\ currentSlot' = ResumeSlot
    /\ LET found == ResumeSlot > 0 /\ ResumeSlot \in stored
       IN  /\ rSlot' = IF found THEN ResumeSlot ELSE 0
           /\ acctSlot' = IF found THEN ResumeSlot
                          ELSE IF SnapshotSlot > 0 THEN SnapshotSlot
                          ELSE acctSaved
           /\ bases' = IF found THEN bases \cup {ResumeSlot} ELSE bases
    /\ expected' = FirstExpected
    /\ fromSlot' = IF StartSlot > 0 THEN StartSlot
                   ELSE IF ResumeSlot > 0 THEN ResumeSlot + 1 ELSE 0
    /\ awaiting' \in Streams(fromSlot')
    /\ latestSlot' = 0
    /\ isSyncing' = TRUE
    /\ ingest' = "recv" /\ ingestBlock' = 0 /\ queue' = <<>>
    /\ proc' = "idle" /\ pending' = {} /\ block' = 0 /\ txDone' = 0
    /\ UNCHANGED <<diskVars, replayed, reported, crashes, ioErrors>>

(* The process is gone and with it every volatile variable.                *)
GoDown ==
    /\ phase' = "down"
    /\ latestCache' = 0 /\ acctSlot' = 0
    /\ fromSlot' = 0 /\ currentSlot' = 0 /\ latestSlot' = 0 /\ isSyncing' = FALSE
    /\ awaiting' = {} /\ ingest' = "exited" /\ ingestBlock' = 0 /\ queue' = <<>>
    /\ proc' = "exited" /\ pending' = {} /\ expected' = 0
    /\ block' = 0 /\ txDone' = 0 /\ rSlot' = 0

Crash ==
    /\ Running
    /\ crashes < MaxCrashes
    /\ crashes' = crashes + 1
    /\ GoDown
    /\ UNCHANGED <<diskVars, replayed, bases, reported, ioErrors>>

(* Stop sets shuttingDown and cancels the context.                         *)
BeginStop ==
    /\ phase = "up"
    /\ phase' = "stopping"
    /\ UNCHANGED <<diskVars, cacheVars, statusVars, ingestVars, queue, procVars,
                   rSlot, histVars>>

(* The loops see ctx.Done() only in their select statements.               *)
IngestExit ==
    /\ phase = "stopping"
    /\ ingest = "recv"
    /\ ingest' = "exited"
    /\ UNCHANGED <<diskVars, cacheVars, phase, statusVars, awaiting, ingestBlock,
                   queue, procVars, rSlot, histVars>>

ProcExit_MidSlot ==
    /\ phase = "stopping"
    /\ proc \in {"idle", "replay"}
    /\ proc' = "exited"
    /\ UNCHANGED <<diskVars, cacheVars, phase, statusVars, ingestVars, queue,
                   pending, expected, block, txDone, rSlot, histVars>>

ProcExit_WhenDrained ==
    /\ phase = "stopping"
    /\ proc = "idle"
    /\ pending = {}
    /\ proc' = "exited"
    /\ UNCHANGED <<diskVars, cacheVars, phase, statusVars, ingestVars, queue,
                   pending, expected, block, txDone, rSlot, histVars>>

ProcExit ==
    /\ phase = "stopping"
    /\ proc = "idle"
    /\ proc' = "exited"
    /\ UNCHANGED <<diskVars, cacheVars, phase, statusVars, ingestVars, queue,
                   pending, expected, block, txDone, rSlot, histVars>>

(* The rest of Stop, after wg.Wait(): commit the accounts, close the       *)
(* stores (BoltStore.Close persists the cached latest slot).               *)
FinishStop ==
    /\ phase = "stopping"
    /\ ingest = "exited" /\ proc = "exited"
    /\ \/ /\ acctSaved' = acctSlot
          /\ UNCHANGED ioErrors
       \/ /\ ioErrors < MaxIOErrors        \* Stop ignores Commit's error
          /\ ioErrors' = ioErrors + 1
          /\ UNCHANGED acctSaved
    /\ dbLatest' = latestCache
    /\ GoDown
    /\ UNCHANGED <<stored, execs, replayed, bases, reported, crashes>>

-----------------------------------------------------------------------------
(* The Geyser stream and blockIngestionLoop                                *)

InOrderEnough(s) == Cardinality({t \in awaiting : t < s}) <= Reorder

(* A block arrives and is queued if there is room.  Once the context is    *)
(* cancelled the loop may return with the block in its hands instead.      *)
Receive(s) ==
    /\ Running
    /\ ingest = "recv"
    /\ s \in awaiting
    /\ InOrderEnough(s)
    /\ awaiting' = awaiting \ {s}
    /\ latestSlot' = Larger(s, latestSlot)
    /\ \/ /\ Len(queue) < QueueCap
          /\ queue' = Append(queue, s)
          /\ UNCHANGED <<ingest, ingestBlock>>
       \/ /\ Len(queue) >= QueueCap /\ phase = "up"
          /\ ingest' = "evict" /\ ingestBlock' = s
          /\ UNCHANGED queue
       \/ /\ phase = "stopping"
          /\ ingest' = "exited"
          /\ UNCHANGED <<ingestBlock, queue>>
    /\ UNCHANGED <<diskVars, cacheVars, phase, fromSlot, currentSlot, isSyncing,
                   procVars, rSlot, histVars>>

EvictOldest_Noop ==
    /\ ingest = "evict"
    /\ ingest' = "push"
    /\ UNCHANGED <<diskVars, cacheVars, phase, statusVars, awaiting, ingestBlock,
                   queue, procVars, rSlot, histVars>>

(* The queue was full: drop its oldest block, if it still has one...       *)
EvictOldest ==
    /\ ingest = "evict"
    /\ queue' = IF queue = <<>> THEN queue ELSE Tail(queue)
    /\ ingest' = "push"
    /\ UNCHANGED <<diskVars, cacheVars, phase, statusVars, awaiting, ingestBlock,
                   procVars, rSlot, histVars>>

(* ... and send the new one, with a send that waits for room.              *)
PushBlock ==
    /\ ingest = "push"
    /\ Len(queue) < QueueCap
    /\ queue' = Append(queue, ingestBlock)
    /\ ingest' = "recv" /\ ingestBlock' = 0
    /\ UNCHANGED <<diskVars, cacheVars, phase, statusVars, awaiting, procVars,
                   rSlot, histVars>>

(* The Geyser client drops a block that does not fit its own channel.      *)
LoseBlock(s) ==
    /\ Lossy
    /\ Running
    /\ s \in awaiting
    /\ awaiting' = awaiting \ {s}
    /\ UNCHANGED <<diskVars, cacheVars, phase, statusVars, ingest, ingestBlock,
                   queue, procVars, rSlot, histVars>>

(* A reconnection subscribes again with the FromSlot of the first time; a  *)
(* subscription without one goes on at some later block.                   *)
Resubscribe ==
    /\ Running
    /\ IF fromSlot > 0
       THEN awaiting' \in Streams(fromSlot)
       ELSE \E first \in awaiting : awaiting' = {s \in awaiting : s >= first}
    /\ UNCHANGED <<diskVars, cacheVars, phase, statusVars, ingest, ingestBlock,
                   queue, procVars, rSlot, histVars>>

-----------------------------------------------------------------------------
(* blockProcessingLoop, processBlock and ReplaySlot                        *)

TakeBlock ==
    /\ Running
    /\ proc = "idle"
    /\ queue # <<>>
    /\ pending' = pending \cup {Head(queue)}
    /\ queue' = Tail(queue)
    /\ proc' = "drain"
    /\ UNCHANGED <<diskVars, cacheVars, phase, statusVars, ingestVars, expected,
                   block, txDone, rSlot, histVars>>

(* The next slot in order is buffered: process it.                         *)
NextInOrder ==
    /\ proc = "drain"
    /\ expected \in pending
    /\ pending' = pending \ {expected}
    /\ block' = expected
    /\ proc' = "put"
    /\ UNCHANGED <<diskVars, cacheVars, phase, statusVars, ingestVars, queue,
                   expected, txDone, rSlot, histVars>>

(* It is not: forget the blocks below the window and wait for another.     *)
StaleBlocks_All == pending
StaleBlocks == {s \in pending : s < Sub64(expected, PendingWindow)}

CleanPending ==
    /\ proc = "drain"
    /\ expected \notin pending
    /\ pending' = pending \ StaleBlocks
    /\ proc' = "idle"
    /\ UNCHANGED <<diskVars, cacheVars, phase, statusVars, ingestVars, queue,
                   expected, block, txDone, rSlot, histVars>>

(* processBlock returns: the loop moves on to the next slot either way.    *)
NextSlot ==
    /\ expected' = expected + 1
    /\ proc' = "drain" /\ block' = 0 /\ txDone' = 0
    /\ UNCHANGED pending

ReportError_Silent == UNCHANGED reported
ReportError == reported' = reported \cup {block}

(* PutBlock: the BoltDB transaction and the cached latest slot.            *)
PutBlock ==
    /\ proc = "put"
    /\ stored' = stored \cup {block}
    /\ dbLatest' = block
    /\ latestCache' = Larger(block, latestCache)
    /\ proc' = "replay"
    /\ UNCHANGED <<execs, acctSaved, acctSlot, phase, statusVars, ingestVars,
                   queue, pending, expected, block, txDone, rSlot, histVars>>

(* As PutBlockFails, but latest_slot is written outside the transaction.   *)
PutBlockFails_Torn ==
    /\ proc = "put"
    /\ ioErrors < MaxIOErrors
    /\ ioErrors' = ioErrors + 1
    /\ dbLatest' = block
    /\ ReportError
    /\ NextSlot
    /\ UNCHANGED <<stored, execs, acctSaved, cacheVars, phase, statusVars,
                   ingestVars, queue, rSlot, replayed, bases, crashes>>

PutBlockFails ==
    /\ proc = "put"
    /\ ioErrors < MaxIOErrors
    /\ ioErrors' = ioErrors + 1
    /\ ReportError
    /\ NextSlot
    /\ UNCHANGED <<diskVars, cacheVars, phase, statusVars, ingestVars, queue,
                   rSlot, replayed, bases, crashes>>

(* ReplaySlot's checks: slot progression, block present, parent linkage.   *)
Replayable_NoLinkage(s) ==
    /\ rSlot > 0 => s > rSlot
    /\ s \in stored

Replayable(s) ==
    /\ rSlot > 0 => s > rSlot
    /\ s \in stored
    /\ rSlot > 0 => Parent[s] = rSlot

BeginReplay ==
    /\ proc = "replay"
    /\ Replayable(block)
    /\ proc' = "exec"
    /\ UNCHANGED <<diskVars, cacheVars, phase, statusVars, ingestVars, queue,
                   pending, expected, block, txDone, rSlot, histVars>>

RejectReplay ==
    /\ proc = "replay"
    /\ ~ Replayable(block)
    /\ ReportError
    /\ NextSlot
    /\ UNCHANGED <<diskVars, cacheVars, phase, statusVars, ingestVars, queue,
                   rSlot, replayed, bases, crashes, ioErrors>>

ExecuteTx_OneTooMany ==
    /\ proc = "exec"
    /\ txDone <= NumTxs
    /\ execs' = [execs EXCEPT ![block] = @ + 1]
    /\ txDone' = txDone + 1
    /\ UNCHANGED <<stored, dbLatest, acctSaved, cacheVars, phase, statusVars,
                   ingestVars, queue, proc, pending, expected, block, rSlot,
                   histVars>>

(* One transaction; its account writes reach BadgerDB at once.             *)
ExecuteTx ==
    /\ proc = "exec"
    /\ txDone < NumTxs
    /\ execs' = [execs EXCEPT ![block] = @ + 1]
    /\ txDone' = txDone + 1
    /\ UNCHANGED <<stored, dbLatest, acctSaved, cacheVars, phase, statusVars,
                   ingestVars, queue, proc, pending, expected, block, rSlot,
                   histVars>>

(* The end of ReplaySlot common to a good and a failed Commit.             *)
AdvanceReplayer ==
    /\ proc = "exec"
    /\ txDone = NumTxs
    /\ rSlot' = block
    /\ acctSlot' = block
    /\ replayed' = replayed \cup {block}
    /\ bases' = IF rSlot = 0 THEN bases \cup {Parent[block]} ELSE bases
    /\ NextSlot

(* Commit succeeds and processBlock updates the node's progress.           *)
CommitSlot ==
    /\ AdvanceReplayer
    /\ acctSaved' = block
    /\ currentSlot' = block
    /\ isSyncing' = (isSyncing /\ block < Sub64(latestSlot, MaxSlotLag))
    /\ UNCHANGED <<stored, dbLatest, execs, latestCache, phase, fromSlot,
                   latestSlot, ingestVars, queue, reported, crashes, ioErrors>>

(* Commit fails after the replayer has already moved to the slot.          *)
CommitFails ==
    /\ AdvanceReplayer
    /\ ioErrors < MaxIOErrors
    /\ ioErrors' = ioErrors + 1
    /\ ReportError
    /\ UNCHANGED <<diskVars, latestCache, phase, statusVars, ingestVars, queue,
                   crashes>>

-----------------------------------------------------------------------------
(* syncMonitorLoop and the blockstore's pruner                             *)

SyncTick_TestsLagFirst ==
    /\ Running
    /\ latestSlot > 0
    /\ isSyncing' =
          IF currentSlot < Sub64(latestSlot, 2 * MaxSlotLag) THEN TRUE
          ELSE IF currentSlot >= Sub64(latestSlot, MaxSlotLag) THEN FALSE
          ELSE isSyncing
    /\ UNCHANGED <<diskVars, cacheVars, phase, fromSlot, currentSlot, latestSlot,
                   ingestVars, queue, procVars, rSlot, histVars>>

(* syncMonitorLoop looks first whether the node has caught up, with        *)
(* differences that wrap while latestSlot is below the lag.                *)
SyncTick ==
    /\ Running
    /\ latestSlot > 0
    /\ isSyncing' =
          IF currentSlot >= Sub64(latestSlot, MaxSlotLag) THEN FALSE
          ELSE IF currentSlot < Sub64(latestSlot, 2 * MaxSlotLag) THEN TRUE
          ELSE isSyncing
    /\ UNCHANGED <<diskVars, cacheVars, phase, fromSlot, currentSlot, latestSlot,
                   ingestVars, queue, procVars, rSlot, histVars>>

(* One pass of BoltStore.Prune; module Blockstore has its single steps.    *)
PrunePass ==
    /\ Running
    /\ latestCache > Retain
    /\ stored' = {s \in stored : s >= latestCache - Retain}
    /\ UNCHANGED <<dbLatest, execs, acctSaved, cacheVars, phase, statusVars,
                   ingestVars, queue, procVars, rSlot, histVars>>

-----------------------------------------------------------------------------
Stream == \E s \in Produced : Receive(s)

Process ==
    \/ TakeBlock \/ NextInOrder \/ CleanPending
    \/ PutBlock \/ PutBlockFails
    \/ BeginReplay \/ RejectReplay \/ ExecuteTx \/ CommitSlot \/ CommitFails

Next ==
    \/ Start \/ Crash \/ BeginStop \/ IngestExit \/ ProcExit \/ FinishStop
    \/ Stream \/ EvictOldest \/ PushBlock
    \/ (\E s \in Produced : LoseBlock(s)) \/ Resubscribe
    \/ Process
    \/ SyncTick \/ PrunePass

Spec == Init /\ [][Next]_vars

(* Every transaction of the chain acts on the accounts at most once,       *)
(* whatever the stream repeats or reorders and wherever the node crashes:  *)
(* a block is durable before its first transaction runs, and a new process *)
(* resumes after the latest durable block.                                 *)
AtMostOnce == \A s \in Produced : execs[s] <= NumTxs

(* As long as no crash has happened, a block in the blockstore has had all *)
(* its transactions executed, or OnError was called for it, or it is the   *)
(* block in progress: a graceful Stop never leaves a slot half done.       *)
NothingSkippedSilently ==
    crashes = 0 =>
        \A s \in stored : \/ execs[s] = NumTxs
                          \/ s \in reported
                          \/ s = block

(* The bank hash chain follows the blocks: the parent of every replayed    *)
(* block was itself replayed, or is where a replayer began.                *)
LinkedReplay == \A s \in replayed : Parent[s] \in replayed \cup bases

(* The three notions of progress never overtake one another: the node's    *)
(* currentSlot, the replayer's slot, the blockstore's latest slot.  The    *)
(* slot looked for next is beyond all that was replayed, and the latest    *)
(* slot, where a restart begins, is a block the store holds.               *)
ProgressOrder ==
    /\ dbLatest > 0 => dbLatest \in stored
    /\ Running => /\ currentSlot <= rSlot /\ rSlot <= latestCache
                  /\ latestCache = dbLatest
                  /\ rSlot < expected

(* The blocking send after an eviction always finds room: only the         *)
(* ingestion loop fills the queue, so it never waits for the processor.    *)
IngestNeverBlocks == ingest = "push" => Len(queue) < QueueCap

(* latest_slot, which PutBlock writes without comparing, never goes back:  *)
(* a restart never returns to a slot before one already processed.         *)
LatestNeverRegresses == [][dbLatest' >= dbLatest]_dbLatest

(* The pipeline implements Ledger.  Its head is the replayer's slot, and   *)
(* while no process runs the slot at which the next one will resume.       *)
AbsHead == IF Running THEN rSlot ELSE dbLatest
L == INSTANCE Ledger WITH head <- AbsHead, verified <- replayed
ImplementsLedger == L!LedgerSpec

-----------------------------------------------------------------------------
(* Fairness: the goroutines are scheduled; a select with several ready     *)
(* cases picks each with equal chance, so an exit that is ready again and  *)
(* again is taken; the stream delivers what it owes.                       *)
Fairness ==
    /\ WF_vars(FinishStop)
    /\ SF_vars(IngestExit) /\ SF_vars(ProcExit)
    /\ \A s \in Produced : SF_vars(Receive(s))
    /\ WF_vars(EvictOldest) /\ WF_vars(PushBlock)
    /\ WF_vars(Process)
    /\ WF_vars(SyncTick)

FairSpec == Spec /\ Fairness

(* Stop returns: both loops leave their selects and the stores are closed. *)
StopCompletes == phase = "stopping" ~> phase = "down"

(* What the next two need: the node is in the end left running, and the    *)
(* block queue never overflows (an overflow drops a block for good).       *)
Settled == <>[](phase = "up") /\ [](ingest # "evict")

(* Then every block from the first expected slot on is replayed.           *)
Wanted == {s \in Produced : s >= Larger(StartSlot, 1)}
EveryBlockReplayed == Settled => <>(Wanted \subseteq replayed)

(* ... and the node then reports that it has caught up, for good, although *)
(* both differences may have wrapped on the way.  This is for a chain that *)
(* reaches slot MaxSlotLag: below it latestSlot - MaxSlotLag (node.go:597, *)
(* 762) wraps to a slot no block has, and the flag of a node that has      *)
(* replayed everything stays set until the chain is longer.                *)
SyncFlagClears ==
    Settled /\ <>[](latestSlot >= MaxSlotLag) => <>[](~ isSyncing)

(* "Resume from last processed slot" (node.go:347): the slot before the    *)
(* one a restarted node subscribes from has been replayed.                 *)
ResumesAfterProcessed ==
    (Running /\ StartSlot = 0 /\ fromSlot > 0) => fromSlot - 1 \in replayed

(* "Begin fetching confirmed blocks from snapshot slot + 1"                *)
(* (docs/ARCHITECTURE.md:346): with a snapshot at S, the slots the loop    *)
(* waits for are beyond S.                                                 *)
StartsAfterSnapshot ==
    (Running /\ SnapshotSlot > 0) => expected > SnapshotSlot
=============================================================================
