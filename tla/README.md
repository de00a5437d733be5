# X1-Stratus: a verification development

TLA+ models, TLC configurations and TLAPS proofs for X1-Stratus, a
verification-only Solana node in Go: it receives confirmed blocks, stores them,
replays their transactions against an accounts database and serves the result
over RPC.  Paths and line numbers refer to the repository's sources.

## 1. The system

| Component | State it keeps | Operations | Talks to |
|---|---|---|---|
| Node (`pkg/node/node.go`) | `running`, `currentSlot`, `latestSlot`, `isSyncing`; the channel `blockQueue`; the processing loop's `pendingBlocks`, `expectedSlot` | `Start`, `Stop`, `blockIngestionLoop`, `blockProcessingLoop`/`processBlock`, `syncMonitorLoop`, `Status` | everything below |
| Replayer (`pkg/replayer/replayer.go`) | `currentSlot`, `currentBlockhash`, `parentBankhash`, per-slot account set | `Initialize`, `ReplaySlot` | blockstore (reads), accounts (writes), executor |
| Executor, system program (`executor.go`, `system.go`) | none beyond the accounts it loads and writes | execute one transaction | accounts, SVM |
| SVM (`pkg/svm`) | registers, call stack, memory regions, compute meter | run a program, syscalls, CPI | executor |
| Blockstore (`pkg/blockstore/blockstore.go`) | BoltDB buckets, cached slots and counters, the pruning goroutine | `Open`, `PutBlock`, `DeleteBlock`, `Prune`, `SetCommitment`, `SetRoot`, `Close`, reads | BoltDB |
| Accounts (`pkg/accounts`) | BadgerDB, in-memory slot and count | `SetAccount`, `DeleteAccount`, batches, `Commit`, `Close`, snapshots, hashes | BadgerDB |
| Snapshots (`pkg/snapshot`) | a streaming load | load a Solana snapshot archive | accounts |
| Geyser client (`pkg/geyser/client.go`) | connection, stream, `connected`, `closed`, bounded channels | `Connect`, receive, ping and health loops, `reconnect`, `Close` | gRPC server, node |
| Fetcher (`pkg/rpcfetch`) | current and latest slot, bounded channel | slot polling, block fetching with retries | endpoint pool |
| Pools (`pkg/rpcpool`, `SmartPool` in `cmd/stratus/main.go`) | endpoints with health and failure counts | pick, mark, health check, rediscover | gossip |
| Gossip (`pkg/gossip`) | table of discovered nodes | discover, fall back to RPC | pools |
| RPC server (`pkg/rpc`) | running flag, health | JSON-RPC methods, each a few reads | blockstore, accounts |
| Dashboard (`pkg/dashboard`) | none of its own | pages over the node's status | node |

How they interact.  The Geyser client (or the fetcher) delivers blocks on a
channel.  The ingestion loop moves them to `blockQueue`; the processing loop
buffers them, waits for `expectedSlot`, stores the block and replays it.  The
blockstore's pruning goroutine and the RPC handlers share the stores with that
loop.  `Stop` cancels a context, waits for the loops and closes the stores;
after a crash `Start` rebuilds everything from BoltDB and BadgerDB.

What is hard.  Three goroutines and the pruner interleave; blocks are lost,
repeated and reordered by the stream; two bounded channels drop their oldest
entry; two databases are written one after the other, so a crash can separate
them; several operations are a BoltDB transaction followed by a cache update;
uint64 subtractions wrap at the start of a chain.

What makes each part correct.

- Node and replayer: no transaction acts twice on the accounts; blocks are
  replayed in chain order; a block is executed or its failure is reported; the
  slot counters agree; a restart neither repeats nor goes back; everything
  delivered is eventually replayed; `Stop` returns.
- Blockstore: the indexes mirror the blocks at any moment; pruning spares the
  retained window; counters do not wrap; the oldest slot is a lower bound;
  `Close` returns.
- Geyser client: one connection at a time, no goroutine outlives `Close`, no
  send on a closed channel, a lost connection is eventually replaced.
- Fetcher and pools: slots in order, a slot skipped only if the chain skipped
  it, every endpoint eventually tried again.
- Accounts and snapshots: slot and count match the accounts after a clean
  restart; a failed load is visible.
- Executor, system program: lamports are conserved, a failed transaction
  changes nothing, only writable accounts change, only signers are debited.
- SVM: every run ends within its meter and its call stack, a call gives its
  caller back what the caller keeps, the heap is handed out once, the input is
  never written.
- RPC server: what was in the store all along is in every answer.

## 2. Modules

| Module | What it is |
|---|---|
| `Ledger` | Abstract specification: a head that only moves forward along the chain, a set of verified slots that only grows. |
| `Node` | The orchestrator and the replayer, detailed; implements `Ledger`. |
| `NodeProofs` | Inductive invariant of `Node`, its safety theorems and the refinement. |
| `MCNode` | Chains for TLC. |
| `Blockstore` | BoltStore at the grain of single transactions and cache updates. |
| `RpcServer` | Extends `Blockstore`: the JSON-RPC server, one read of the store per step. |
| `BlockstoreProofs`, `RpcProofs` | Their inductive invariants and safety theorems; the second rests on the first. |
| `MCBlockstore`, `MCRpc` | Instances for TLC, without and with the server. |
| `GeyserClient`, `MCGeyser` | The Geyser client's goroutines and connections. |
| `GeyserProofs` | Inductive invariant of `GeyserClient` and its safety theorems. |
| `AccountsDB` | The accounts database: its state and operations, no behaviour of its own. |
| `SystemProgram` | Extends `AccountsDB`: for each instruction its condition and its effect. |
| `Executor`, `MCExecutor` | Extends `SystemProgram`: open, load a snapshot, execute, save, commit, crash. |
| `ExecutorProofs` | Inductive invariant of `Executor`, its safety theorems and action properties. |
| `SupplyProofs` | Extends `ExecutorProofs`: sums over accounts, and that `Executor` conserves lamports. |
| `Sbpf` | Instruction set, costs and memory of the virtual machine, as operators. |
| `Syscalls` | Extends `Sbpf`: the host functions, as operators. |
| `BpfExecutor`, `MCSvm` | Extends `Syscalls`: loader, program cache, input, interpreter. |
| `SvmProofs` | Inductive invariant of `BpfExecutor`, its safety theorems and the lemmas about its operators. |
| `Gossip` | What one endpoint discovery can return, as a set. |
| `SmartPool` | Extends `Gossip`: the endpoint pool with its health check. |
| `RpcBlock` | How an answer of `getBlock` becomes a block, as operators. |
| `Fetcher`, `MCFetch` | Extends `SmartPool`, instantiates `RpcBlock`: `cmd/stratus` from discovery to shutdown. |
| `FetcherProofs` | Inductive invariant of `Fetcher` and its safety theorems. |

### Node

A block is its slot; its blockhash is its slot and its `PreviousBlockhash` the
slot `Parent[s]`.  `stored`, `dbLatest`, `execs` and `acctSaved` are on disk:
the blockstore, its `latest_slot`, how often each block's transactions have been
executed on the accounts, the accounts' committed slot.  Account writes reach
BadgerDB at once (`store.go:219-262`), which is why `execs` is durable while
`acctSaved` waits for `Commit`.  The rest is lost in a crash.

| Action | Code |
|---|---|
| `Start` | `Start` and `initialize`: open, load the snapshot, initialise the replayer at the latest stored block, choose `FromSlot` and `expectedSlot` |
| `BeginStop`, `IngestExit`, `ProcExit`, `FinishStop` | `Stop`: cancel, the loops return at their selects, commit, close |
| `Crash` | the process dies between any two steps |
| `Receive`, `EvictOldest`, `PushBlock` | `blockIngestionLoop`; a full queue takes three steps, the processor may run between them |
| `LoseBlock`, `Resubscribe` | the Geyser client's dropping channel and its reconnection with the first `FromSlot` |
| `TakeBlock`, `NextInOrder`, `CleanPending` | `blockProcessingLoop` |
| `PutBlock`, `PutBlockFails` | the store step of `processBlock` |
| `BeginReplay`, `RejectReplay`, `ExecuteTx`, `CommitSlot`, `CommitFails` | `ReplaySlot` and the rest of `processBlock` |
| `SyncTick` | `syncMonitorLoop` |
| `PrunePass` | one `BoltStore.Prune`, atomic here and split in `Blockstore` |

`Ledger` is implemented under the mapping `head <- AbsHead` (the replayer's slot
while a process runs, otherwise the slot the next one resumes at) and
`verified <- replayed`.  The one freedom the ledger keeps, to resume at a later
head, is exactly what a crash between store and replay costs.

### Blockstore

Three actors: the caller of `PutBlock`, the pruning goroutine, a caller of
`SetCommitment` and `SetRoot`.  A BoltDB transaction is one atomic durable step;
`PutBlock` is a transaction (`PutBlock`) and a cache update (`UpdateCache`);
`Prune` is cut-off, listing, then per block a read (`DeleteRead`) and a deleting
transaction (`EraseBlock`), then the tally and the saved oldest slot;
`SetCommitment` is read, write, mark.  `Close` sets `closed`, waits for the
pruner and writes all cached values.  Blocks are put in slot order, which
`NodeProofs!LatestIsMonotone` shows of the only caller, and no caller is inside
the store when `Close` begins, because `Stop` waits for the loops.

### RpcServer

Handlers change nothing and do not meet each other, so one HTTP request is in
flight at a time: its `calls` are answered one after the other into `replies`.
`work` is the handler of the first call.  Every read of the store is a step, in
the order of the code, and between two of them the store does what it likes:
puts, prunes, closes, crashes.  `GetLatestSlot` reads the cache, which lags
behind the database by the step `UpdateCache`.  On a closed store `GetBlock`
fails and `HasBlock` says no, which makes `getBlocks` and `isBlockhashValid`
answer silently with less.  `Listening` is the lifecycle: the server runs while
the store is open, and `Shutdown` waits five seconds only, so a request may
still be in a handler when the store closes.

What the code does and no property states: `getBlock` can report a block as
skipped that is stored between its two reads (`methods.go:318-326`);
`getSignaturesForAddress` lists one signature per slot, ignores `before` and
calls everything finalized; `getBlocks` with a start above its end searches
`MaxRange` slots up from the start, and never ends when the end is 2^64-1.

### GeyserClient

Connections are numbered, and with them the goroutines each brings.  They share
`conn`, the stream, the context and the flag `connected` and read the fields
anew at each turn, as the code does, so that a loop of an old connection works
on the current one.  `Connect`, the receive loop, the health check,
`handleDisconnect`, `reconnect` and `Close` are split where another goroutine
can come in between.  A timer may fire at any time, except that a connection
that gets its blocks is not stale.

### AccountsDB, SystemProgram, Executor

An account write is durable at once, slot and count only with `Commit`; `Close`
marks the database closed before its `Commit`, which therefore is refused.
`Executor` is one goroutine: it opens the database, loads a snapshot (native or
Solana's, batch by batch, with the hash check of the first), then executes
transactions: load the accounts, run the instructions on the loaded copies,
save them account by account.  Crashes and failing
writes come between any two writes.

What the code does and the properties allow for: `SaveFails` leaves the accounts
of a transaction saved in part; `CreateAccount`,
`CreateAccountWithSeed` and `TransferWithSeed` do not check that the accounts are
writable, so a read-only funder keeps its lamports and a read-only recipient never
gets what was taken (`ChangesReadonly`, the exception in `SupplyConserved`); the
snapshot is loaded again at every start, so that accounts go back, or a native
snapshot whose hash no longer matches makes every later start fail; the Solana
loader applies entries in archive order without their write version; a nonce
initialised here can never be advanced.

### Sbpf, Syscalls, BpfExecutor

`Step` is one instruction of the interpreter with its cost, memory access and
host call.  Loading (checks, symbols, relocations), the program cache, laying
out the input and reading it back are the steps around it.  Words and bytes are
narrow in the instance (`ByteBits`, `Size`), so that wrapping happens; every
ALU and jump operation and every host call is run with operands from each
region.

What the code does: `sol_alloc_free_` wraps for sizes close to 2^64 and answers
with a pointer (`AllocsSound` is about sizes up to the heap); an access in the
stack is looked up by its first byte and may run into the next frame; the frame
pointer may be written by ALU instructions; 64 calls are allowed but the 65th
frame has no memory; host calls charge a meter of their own, which
`ComputeUnitsUsed` leaves out; cross-program invocation only logs and succeeds;
the program cache is never invalidated.  `EnableBPF` is false in every caller.
No write reaches the input (`memory.go:50`), although `deserializeOutput` reads it
back "to update accounts" (`bpf_executor.go:489`), its result lists the modified
ones (`:248`) and `TestDeserializeOutput` changes the lamports there: no program
changes any account, its own included, and none is ever listed.  The model takes
section bounds as sums that do not wrap; malformed ones that do (`loader.go:410`,
`477`) are left out.

### Gossip, SmartPool, RpcBlock, Fetcher

A discovery shares nothing with the rest before it returns, so `Gossip` gives
the set of its possible results (lost, repeated and reordered datagrams
included).  A call to an endpoint is two steps, the choice and the answer, so
the pool, the health check and the other loop move in between.  An answer is
true, except `MaxFaults` times, when an endpoint fails, lags or lies; the
endpoints of `Down` never answer.  `SkipReplies` are the true answers for a slot
without a block: null, the codes for a skipped or missing slot, or -32004, block
not available.  `GetSlot` asks with a commitment and may be told a later slot than
`GetBlock`, which asks with none, gets blocks up to.  `Status` is the goroutine of
`main` that logs the fetcher's health, whose only effect is a turn of the round
robin.  `RpcBlock` is the conversion of a block, with its fallbacks for fields that
are missing or do not decode.

What the code does: a slot an endpoint calls skipped or does not have is passed
over for good, be that true or not (`SlotsAccounted` counts it as said skipped); one
all of them call unavailable is asked for without end, since the fetcher does not
use `IsSlotSkipped`, which takes -32004 for skipped (run `fetch_skip`); the two loops
share the round robin, and in step one of them may keep meeting an endpoint
that answers with errors; a discovery may return one node more than `MaxNodes`,
and RPC nodes twice; the reader of `main` takes an error for slot 0.

## 3. Runs

| Run | Question | Result |
|---|---|---|
| `node_safety` | From a configured start slot over a lossy stream: repeats, reordering, overflow, pruning, one crash, one failed write. Is anything executed twice, skipped silently, replayed off the chain, or moved back, and does the node implement `Ledger`? | all hold, 6.3 million states |
| `node_live` | Does `Stop` return, is every block replayed, does the sync flag clear once the chain has passed `MaxSlotLag`? | holds, 150 thousand states |
| `node_gap` | A chain with a skipped slot. | violated: the loop waits for a block that does not exist |
| `node_resume` | Is the slot before the resubscription replayed? | violated: the resume point is the latest *stored* block |
| `node_snapshot` | Does a node started from a snapshot at S wait for S + 1? | violated: it waits for slot 1 |
| `blockstore` | The pruner, put, commitment, close and one crash interleaved with each other and with every RPC handler. Are the indexes exact, the recent blocks kept, the answers complete, and does `Close` return? | all hold, 1.7 million states |
| `blockstore_oldest` | Is the oldest slot right after a crash? | violated: it is lost |
| `geyser` | An outage, silence, cancellation and `Close` over three connections. At most one open, the one in use watched, a lost one replaced, `Close` returns? | all hold; `ClientCloseReturns` excludes a reconnect or a second receive loop in the way, see below; 620 thousand states |
| `execution` | Open, load, execute, save, commit with two faults: counts, what the slot means, writable accounts, debits, lamports. | all hold |
| `svm` | Load and run short programs over a core of instructions, each operation and each host call: is memory sound, is the input kept, does every run end? | all hold; that the input is kept means that no program changes an account, which the code's comments and a test describe |
| `fetch` | `cmd/stratus` from discovery to shutdown with a dead endpoint, one that is wrong once, a slow reader and a signal: is every slot accounted for, and fetched, and does it stop? | all hold, 360 thousand states |
| `fetch_skip` | The same with endpoints that answer -32004 for a slot without a block. | violated: the fetcher asks for that slot for ever and fetches no later one |

Bounds.  Three blocks are the least with a block that has both a parent and a
child; reordering by one, one crash and one I/O error give every pair of a fault
with a repeat or an overtaking; a queue of one overflows, a window of one cleans.
A start slot of 1 over a lossy stream has the behaviours of a node without one that
joins later: both wait for slot 1.  `node_live` has slots 3 to 5 and `MaxSlotLag` 4:
the differences of the sync flag wrap at slot 3, are zero at 4 and a lag at 5.
`Wrap` stands for 2^64 and only has to exceed every slot.  The store's instance
has blocks at slots 1, 3 and 4 with `Retain = 1`: a skipped slot, a block that is
pruned, one that arrives after the cut-off was read, two transactions in one
block.  `Marks` limits `SetCommitment` and `SetRoot` to the slot that is pruned.
`Posts` holds a request for every method and for every way a request is refused;
`MaxRange`, `ValidRange` and the limits are small enough to be reached.

The Geyser instance has three connections, one outage and a channel of one: a
reconnect with a loop of the old connection still running, and a full channel.  A
loop of the first connection may tear down the second, so a third can be dialled
and has to stay connected: it is the last, does not go stale, and there is no outage
left for it.  `MaxReconnects` is 0, the default, for no limit; giving up at a limit
is part of the module and of its theorems.
The executor has two faults, so that a crash can follow a failed write, two
slots, and balances below 6 so that sums reach the top of the range.  The virtual
machine has bytes of 3 bits and words of 4 bytes, two frames, a meter and a heap
that run out; `MaxRuns` and `Reused` bound the executions of one cached program.
The fetcher has three slots, a channel of one, one wrong answer (`MaxFaults`), one
rediscovery's worth of nodes; three slots let the tip move while one is retried.

Fairness.  The loops and the pruner are goroutines, which Go schedules, so their
steps are weakly fair.  A `select` with several ready cases picks one at random:
an exit that is ready again and again is eventually taken, hence strong fairness
of `IngestExit` and `ProcExit`.  The stream delivers what it owes (`Receive`,
strongly fair since reconnections interrupt it).  Nothing makes an operator
start, stop or prune: no fairness there.  `EveryBlockReplayed` and
`SyncFlagClears` assume `Settled`: the node is eventually left running and the
queue never overflows, since an overflow loses a block for good.  `SyncFlagClears`
also assumes that the chain reaches slot `MaxSlotLag`: before, `latestSlot -
MaxSlotLag` (`node.go:597`, `762`) wraps to a slot beyond every block, and a node
that has replayed everything goes on reporting that it is syncing.  The liveness
instance starts at a slot above the pending window: below it `expectedSlot-1000`
wraps and a reordered block is thrown away (`node.go:564`).

`RpcSpec` makes the pruner fair while the store closes, and `Close` itself once
the pruner has gone: both are running goroutines.  `GeyserClient` makes each
goroutine's own steps, the node's reading of blocks and the staleness timer of a
connection nobody serves weakly fair, and the end of an outage, of which there are
finitely many.  `Recovers` therefore says that a client whose
connection the server side has ended is connected again, on one that works, unless it
is stopped, gives up at `MaxReconnects`, or has lost the last connection the bound
allows as well (`Exhausted`); `ClientCloseReturns` holds unless a reconnect is running, which `Close`
does not wait for and which may add goroutines behind its back, or a second
receive loop shares the stream (`client.go:574`, `1051`, `1120`).  The virtual
machine's `Step` is weakly fair: it is a loop.  In `Fetcher` main and the fetching
loop are weakly fair, the polling loop's asking and answering too; its exit is one
case of a `select` with a ticker and hence strongly fair; the health check is a
ticker that fires.  `EverySlotFetched` assumes that wrong answers end, that a
reference endpoint answers (without one `healthCheck` changes nothing), that
the pool holds an endpoint that works, and that slots without a block are not called
unavailable.  `Status` is not fair: nothing waits for it.

## 4. Proofs

Every theorem holds for every value of the constants under the named
assumptions, not only for the instances TLC runs.  Each component has one
inductive invariant that implies its safety properties; TLC checked it on the
component's instance before it was proved.  A step lemma per conjunct has one
case per action, so that the lemma shows which actions matter to it.

### NodeProofs

Under `ChainAssumption` (slots are positive, a parent is earlier) and
`ConfigAssumption` (the constants have their types, the capacity is positive).

The invariants are not inductive: that no transaction runs twice needs that a
block beyond `dbLatest` has never been executed, which needs the order of all
slot counters at every program counter of the processing loop.  The
strengthening `IInv` is

- `TypeOK` and `ControlOK`: types, and what each loop holds at each program
  counter (proved inductive on their own, as `Basic`);
- `ProgressOK`: `currentSlot <= rSlot <= dbLatest`, and `dbLatest` is below
  `expected` until the block is stored and equal to it afterwards;
- `ExecOK`: nothing beyond `dbLatest` is executed or replayed, and the block in
  progress exactly as far as `txDone` says;
- `LinkOK`: the replayer's slot was replayed or is where it began;
- the two invariants `LinkedReplay` and `NothingSkippedSilently` themselves.

`StepKinds` sorts the steps into those that matter and `Quiet` ones; each part
has a lemma with a case per action.  From `IInv` follow `TypeCorrect`,
`ExecutedAtMostOnce`, `NoSilentSkip`, `ReplayIsLinked`, `ProgressIsOrdered`,
`PushFindsRoom`, `LatestIsMonotone`, and `NodeImplementsLedger`: `Start` and
every quiet step stutter, `CommitSlot` and `CommitFails` extend the ledger,
`Crash` and `FinishStop` resume it or stutter.

### BlockstoreProofs

Under `StoreAssumption`: finitely many positive slots below `Wrap`, and no
transaction in two blocks.  What makes the strengthening necessary:

- `LatestOK`: no slot was ever put beyond `latest_slot` on disk, and the cache
  lags behind it by the block being put, at most;
- `PruneOK`: the pruner's victims are exactly the stored blocks below its
  cut-off, which lay `Retain` slots behind when it was taken, and still does
  because the chain only grows;
- `CountOK`: the blocks, with those deleted but not yet tallied, are at most
  the cached count with the block being put, and no more than were ever put -
  of which there are fewer than `Wrap`, so nothing wraps;
- `OldestOK`: the oldest slot is 0 only in a store that never had a block.

`IndexMatches` needs none of them: both transactions change all buckets.
`RecentKept` needs the first two, `CountCovers` and `OldestCovers` all.

### RpcProofs

Under `StoreAssumption` and `RpcAssumption` (requests are well formed, the
limits positive, and more signatures than one request may hold can be counted).
`ServerOnlyReads` says that the server takes no step of the store, so that
`ServedStore` inherits the invariant above.  `CompleteAnswers` is about answers
whose reads are interleaved with the store's steps.  `ServerInv` says why
nothing is missing from them:

- `KnownOK`: the latest slot a handler took was put, and a block that is no
  longer stored lies more than `Retain` behind the cached one;
- `ScanOK`: a scan has listed every block behind the slot it has come to, or
  that slot has wrapped around and it has listed everything due;
- `StatusOK`, `LoopOK`: a signature without a status is in no stored block up
  to the latest slot taken, and never will be: a block put later lies beyond it;
- `TimeOK`: the slot a transaction was found at was put;
- `RepliesOK`: an answer once complete stays so, because a pruned block does
  not come back.

### GeyserProofs

Under `ClientAssumption` (a capacity, a limit of connections and reconnects).
`OneConnection` rests on `TokenOK`, which reads the flag `connected` as a
token: it is there, or one loop took it and cleans up, or one reconnect holds
it until it has dialled, or it is gone.  `RedialOK` ties a reconnect to the
last connection, which it found closed; `WatchOK` gives `Watched`.

### FetcherProofs

Under `GossipAssumption`, `PoolAssumption`, `FetcherAssumption` and
`AnswersAssumption`: the nodes of an answer and the reference endpoints come in
lists, there are finitely many identities, the
blocks of the cluster hold sanitized transactions (`Sanitized`; each has at least
as many accounts as signatures, programs among its accounts, a payer that is not the
vote program), and an answer that is wrong in a field does not convert.  A slot
without a block may be answered with null, as missing or as unavailable: the theorems
hold for each of the three.  `Accounts` restates
`SlotsAccounted` over one sequence of slots (`Account`), with one lemma for each
of the four ways it changes: a slot skipped, handed on, taken by `main`, or
thrown away.  `Converted` unfolds the conversion for either form of the keys.

`TypeCorrect` is about a pool that grows while others hold indices and URLs of it.
`Pools` are the lists of endpoints without a URL twice, `Kept` says that none loses
its place: so it is of every step (`EndpointsKept`), whether a call or a check sets
flags or a discovery adds what it found.  Hence the turn `GetEndpoint` takes
(`GetEndpointOK`), the URLs the two loops wait for (`CallsStep`) and what a health
check has left to do (`PoolStep`) stay inside.  That no two entries get one URL is an
induction over the list of a discovery (`WithUrlsOK`, by `FoldExists` and
`FoldKeeps`), which `DiscoveriesAreLists` shows to be one; the filters of the
discovery are folds too (`Only`), as nothing can be proved of `SelectSeq`.

### ExecutorProofs

Under `DBAssumption`, `SizeAssumption` (more numbers than keys to count),
`SystemAssumption`, `TxsAssumption` (an instruction names accounts of its kind) and
`SourcesAssumption`: a native snapshot has no key twice and no zero account,
since it is written from a database that has none; a Solana archive may have
both.  The invariant `Types /\ CountOK /\ SlotOK /\ SavesOK` ties the count to
what is stored in each mode, the slot on disk to the completion of the load,
and what is going to be saved to the accounts before.

`WritesAreDeclared` and `DebitsAuthorized` are about all sequences of
instructions a transaction can hold.  `Execution` gives the accounts after n
instructions; `StateOK` is shown of every n (the first n at which it failed would
be a least one), with `InfoOK` as what each of the system program's instructions
keeps true of each account: it is still the account of its key, and has lost
lamports only if a signature of its own key, of its nonce's authority or of the
base it is derived from authorizes it.  `NativeLoadIsExact` follows the batches
of a load to its hash check.

### SupplyProofs

`SupplyConserved` is about a sum over all accounts, which the model folds.  The
fold is defined by recursion over sets: `SumExists` shows, by induction on the
size of the sets, that there is a function which unfolds so, `SumGrows` that two
functions which differ at one account by d have sums that differ by d.  Then:

- `ProcessMoves`: each of the system program's instructions leaves the lamports
  or moves some from one of its accounts to another, possibly the same one;
- `ExecutedConserves`: after any number of instructions the balances the
  transaction holds, with those of the accounts it does not name, add up to the
  database (`Conserving`), and what changed is saved if it is writable;
- `ExecuteConserves`, `SaveConserves`: the transaction and each account saved
  keep the sum of what is stored and what is yet to be saved.

The exception for read-only accounts has to cover both sides: one that keeps
what is taken from it, and one that does not get what it is given.  `CreateTxs`
has a transaction for each.

### SvmProofs

Under the assumptions of `Sbpf`, `Syscalls` and `BpfExecutor`, for every program
an ELF file can hold, every instruction's input, and every width of bytes and
words: the constants only have to be consistent (`WidthAssumption`: two halves
make a word, `ByteRange ^ Long` is a word) and regions smaller than the address
space between them.  Bits, integers in memory, the arrays a host call walks
through, relocations and the input are folds: `FoldExists` shows, once, that
there is a function which unfolds as a fold does, and `SetInduction` what it keeps.

- `PlaceFits` is the memory's central fact: where an access is translated to
  there is room for it, and no write is translated to the input or the
  read-only data (`WriteKeeps`);
- `CallsOn(m)` are the states a host call on the memory m can be in; every
  elementary part of a call stays among them (`ReadsOK`, `WritesOK`, ...), hence
  every call does (`InvokedOK`), at whichever of its checks it fails;
- `AluIsWord` and `IntegerOfBytes`: what is computed, and what is loaded, is a word;
- `Typed`: all of that, with a program in the cache that is one (`LoadedIsProgram`);
- `FramesMatch`: each frame holds what its call found, which `Return` relies on;
- `BlocksApart`: each block ends in the heap there is, after the one before it;
  the heap never shrinks (`Keeps`).

`InputStays` is that no write reaches the input.  `NothingModified` is what the
executor makes of it: every account comes back as it was laid out, a writable one
of the program's own included, and `ModifiedAccounts` is empty.
While the program runs the input region still `Holding`s what `SerializeInput`
laid out (`InputLaid`), as no write gets there.  Reading it back gives the same
accounts: `IntegerRoundTrip` for numbers, `AccountParts` for where the fields of
one account are, `DeserializeUnfolds` for the loop over the accounts, and
`InputRoundTrip` for all of them together.  The assumptions say what makes the
encoding one: keys have `KeySize` bytes, data is shorter than `Word`, and a
`Long` has room for the four bytes of flags.

### Only model-checked

- Liveness (`StopCompletes`, `EveryBlockReplayed`, `SyncFlagClears`,
  `CloseReturns`, `Recovers`, `ClientCloseReturns`, `FetcherStops`,
  `EverySlotFetched`, `Halts`): the prover does not handle fairness and ENABLED.

## 5. Not modelled

- Read errors of the databases, and encodings: gob, protobuf, JSON, base58, ELF
  and append-vec bytes, the gossip wire format.  Digests are collision free.
- A second concurrent `Start`; the node is started once by `main`.
- The RPC handlers of accounts and the conversion of blocks and transactions to
  JSON.  The account handlers take the slot before the accounts, which the
  replayer writes one by one, so that an answer may mix two slots; no promise of
  the code could be checked about it.
- The blockstore's extended index, `rpcpool`, `SimplePool`, `svm/compute.go`,
  `ReplayRange`, `MemoryDB`: no production code calls them.
- The bank hash (the database the node opens is no `HashableDB`, the accounts do
  not enter it) and the Merkle trees of account hashes.
- Time: delays and backoffs are steps that may come at any moment.
- The dashboard, flag parsing and installer, which keep no state of their own.

## 6. Plan

All the components of section 2 are modelled and their safety is proved, liveness
is checked.  What is left: the account handlers of the RPC server over `AccountsDB`,
and the index should the node come to use it.
