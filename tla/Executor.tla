------------------------------ MODULE Executor ------------------------------
(***************************************************************************)
(* pkg/replayer/executor.go and the transaction loop of replayer.go, on    *)
(* the accounts database, with its opening, the loading of a snapshot      *)
(* (pkg/snapshot and pkg/accounts/snapshot.go, as node.go calls them), and *)
(* its closing.  One goroutine does all of it; what interleaves with it is *)
(* crashes and failing writes, between any two writes of accounts.         *)
(*                                                                         *)
(* BPF programs are disabled in the executor the node builds, and token    *)
(* and loader programs are not implemented: instructions for them succeed  *)
(* without an effect.  Bank hashes are left out: the Badger database does  *)
(* not implement HashableDB, so they do not depend on the accounts.        *)
(***************************************************************************)
EXTENDS SystemProgram, SequencesExt

CONSTANTS
    Txs,           \* the transactions of the chain
    Sources,       \* what the node is configured to load at its start
    BatchSize,     \* accounts between two commits, or flushes, of a load
    MaxSlot,       \* bound on the slots replayed
    MaxFaults      \* bound on crashes and failing reads and writes

ASSUME ExecutorAssumption ==
    BatchSize \in Nat \ {0} /\ MaxSlot \in Nat /\ MaxFaults \in Nat

(* What the parsed bytes of an instruction can be; it is of another        *)
(* program if program is not System.                                       *)
IsInstruction(ins) ==
    /\ ins.at \in Seq(Nat)
    /\ ins.lamports \in 0..Lamports - 1 /\ ins.space \in Spaces
    /\ ins.owner \in Owners /\ ins.key \in Keys

(* A transaction of the cluster names no account twice.                    *)
ASSUME TxsAssumption ==
    \A tx \in Txs :
       /\ tx.keys \in Seq(Keys) /\ IsInjective(tx.keys)
       /\ tx.signers \in Nat /\ tx.roSigned \in Nat /\ tx.roUnsigned \in Nat
       /\ tx.instructions \in Seq(Range(tx.instructions))
       /\ \A n \in DOMAIN tx.instructions : IsInstruction(tx.instructions[n])

(* A nonce takes NonceSize bytes of an account's data.                     *)
SoundAccounts == {acc \in Accounts : acc.nonce # NoNonce => acc.space >= NonceSize}

(* A snapshot of the program's own format is written from a database.      *)
ASSUME SourcesAssumption ==
    \A src \in Sources :
       /\ src.kind \in {"none", "solana", "native"}
       /\ src.slot \in Nat /\ (src.kind = "none" => src.slot = 0)
       /\ src.sound \in BOOLEAN
       /\ src.entries \in Seq([key : Keys, account : SoundAccounts])
       /\ src.kind = "native" =>
             /\ IsInjective([i \in DOMAIN src.entries |-> src.entries[i].key])
             /\ \A i \in DOMAIN src.entries : ~IsZero(src.entries[i].account)

VARIABLES
    mode,          \* "down", "load", "closing" after a load that failed, "run", or
                   \* "save" while the accounts of a transaction are saved
    source,        \* the configured snapshot
    todo,          \* its entries not yet read
    batch,         \* accounts in the batch writer
    batched,       \* number of accounts in it, or set since the last commit
    cur,           \* the transaction executed last
    saves,         \* its accounts still to be saved: [places in the message -> accounts]
    faults,
    \* history
    loaded,        \* a load of the source has completed
    lost           \* a count that had not been committed was lost

vars == <<dbVars, mode, source, todo, batch, batched, cur, saves, faults, loaded, lost>>

NoAccounts == [k \in {} |-> Empty]
NoTx == [keys |-> <<>>, signers |-> 0, roSigned |-> 0, roUnsigned |-> 0, instructions |-> <<>>]

ToSetOfKeys(es) == {es[i].key : i \in DOMAIN es}

TypeOK ==
    /\ DBTypeOK
    /\ mode \in {"down", "load", "closing", "run", "save"}
    /\ source \in Sources
    /\ \E n \in 0..Len(source.entries) :
          todo = SubSeq(source.entries, n + 1, Len(source.entries))
    /\ DOMAIN batch \subseteq Keys /\ \A k \in DOMAIN batch : batch[k] \in Accounts
    /\ batched \in 0..BatchSize
    /\ cur \in Txs \cup {NoTx}
    /\ DOMAIN saves \subseteq DOMAIN cur.keys /\ \A i \in DOMAIN saves : saves[i] \in Accounts
    /\ faults \in 0..MaxFaults
    /\ loaded \in BOOLEAN /\ lost \in BOOLEAN

Init ==
    /\ DBInit
    /\ mode = "down"
    /\ source \in Sources
    /\ todo = <<>> /\ batch = NoAccounts /\ batched = 0
    /\ cur = NoTx /\ saves = NoAccounts
    /\ faults = 0 /\ loaded = FALSE /\ lost = FALSE

-----------------------------------------------------------------------------
(* Opening and closing                                                     *)

(* initialize: the database is opened and the snapshot, if one is          *)
(* configured, is loaded, at every start.                                  *)
Start ==
    /\ mode = "down"
    /\ LoadMetadata
    /\ mode' = IF source.kind = "none" THEN "run" ELSE "load"
    /\ todo' = source.entries
    /\ UNCHANGED <<source, batch, batched, cur, saves, faults, loaded, lost>>

(* What memory held is gone, and with it a count that was not committed.   *)
GoDown ==
    /\ mode' = "down"
    /\ todo' = <<>> /\ batch' = NoAccounts /\ batched' = 0
    /\ cur' = NoTx /\ saves' = NoAccounts
    /\ lost' = (lost \/ count' # metaCount')
    /\ UNCHANGED source

Crash ==
    /\ mode # "down" /\ faults < MaxFaults
    /\ faults' = faults + 1
    /\ UNCHANGED <<dbVars, loaded>>
    /\ GoDown

Closed_Committed == slot' = slot /\ count' = count /\ metaSlot' = slot /\ metaCount' = count
                    /\ UNCHANGED disk

(* closeStorage, whose commit the closed database refuses.                 *)
Closed == CloseDB

(* Stop commits before it closes the storage.                              *)
Stop ==
    /\ mode = "run"
    /\ Commit
    /\ GoDown
    /\ UNCHANGED <<faults, loaded>>

(* A load fails on a read or a write, and so does the start of the node.   *)
LoadFails ==
    /\ mode = "load" /\ faults < MaxFaults
    /\ faults' = faults + 1
    /\ Closed
    /\ GoDown
    /\ UNCHANGED loaded

-----------------------------------------------------------------------------
(* StreamingLoader.Load: a Solana snapshot                                 *)

loadFrame == <<source, cur, saves, faults, lost>>

(* The entries come in the order of the archive, whatever the slot they    *)
(* are from, and each overwrites the one before; empty ones are passed     *)
(* over.  Every BatchSize accounts there is a commit.                      *)
StreamAccount ==
    LET entry == Head(todo) IN
    /\ mode = "load" /\ source.kind = "solana" /\ todo # <<>>
    /\ todo' = Tail(todo)
    /\ IF IsZero(entry.account) THEN UNCHANGED <<dbVars, batched>>
       ELSE IF batched + 1 >= BatchSize
       THEN /\ disk' = Written(disk, entry.key, entry.account)
            /\ count' = Counted(count, Stored, Stored \cup {entry.key})
            /\ metaSlot' = slot /\ metaCount' = count'
            /\ batched' = 0
            /\ UNCHANGED slot
       ELSE SetAccount(entry.key, entry.account) /\ batched' = batched + 1
    /\ UNCHANGED <<loadFrame, mode, batch, loaded>>

(* The last commit comes before the slot is set, which stays in memory.    *)
StreamEnds ==
    /\ mode = "load" /\ source.kind = "solana" /\ todo = <<>>
    /\ metaSlot' = slot /\ metaCount' = count
    /\ slot' = IF source.slot > 0 THEN source.slot ELSE slot
    /\ mode' = "run" /\ batched' = 0 /\ loaded' = TRUE
    /\ UNCHANGED <<disk, count, loadFrame, todo, batch>>

-----------------------------------------------------------------------------
(* BadgerDB.LoadSnapshot: a snapshot in the program's own format           *)

(* Accounts are added to a batch, which is flushed when full.              *)
BatchAccount ==
    LET entry == Head(todo)
        more == [k \in DOMAIN batch \cup {entry.key} |->
                    IF k = entry.key THEN entry.account ELSE batch[k]]
    IN
    /\ mode = "load" /\ source.kind = "native" /\ todo # <<>>
    /\ todo' = Tail(todo)
    /\ IF batched + 1 >= BatchSize
       THEN Flush(more) /\ batch' = NoAccounts /\ batched' = 0
       ELSE UNCHANGED dbVars /\ batch' = more /\ batched' = batched + 1
    /\ UNCHANGED <<loadFrame, mode, loaded>>

(* The accounts whose hash the file's header carries; a damaged header has *)
(* the hash of no accounts at all.                                         *)
Hashed(src) ==
    [k \in Keys |->
        IF src.sound /\ k \in ToSetOfKeys(src.entries)
        THEN (CHOOSE e \in Range(src.entries) : e.key = k).account ELSE Empty]

NativeEnds_Unverified ==
    /\ mode = "load" /\ source.kind = "native" /\ todo = <<>>
    /\ LET after == [k \in Keys |-> IF k \in DOMAIN batch THEN batch[k] ELSE disk[k]] IN
          /\ disk' = after
          /\ count' = Counted(count, Stored, StoredIn(after))
          /\ mode' = "run" /\ loaded' = TRUE
    /\ slot' = source.slot
    /\ batch' = NoAccounts /\ batched' = 0
    /\ UNCHANGED <<metaSlot, metaCount, loadFrame, todo>>

(* The rest is flushed, the slot is set, and the hash of all accounts of   *)
(* the database is compared with the header's; the start of the node fails *)
(* if they differ, as they do if the database held other accounts.         *)
NativeEnds ==
    /\ mode = "load" /\ source.kind = "native" /\ todo = <<>>
    /\ LET after == [k \in Keys |-> IF k \in DOMAIN batch THEN batch[k] ELSE disk[k]] IN
          /\ disk' = after
          /\ count' = Counted(count, Stored, StoredIn(after))
          /\ mode' = IF after = Hashed(source) THEN "run" ELSE "closing"
          /\ loaded' = (loaded \/ after = Hashed(source))
    /\ slot' = source.slot
    /\ batch' = NoAccounts /\ batched' = 0
    /\ UNCHANGED <<metaSlot, metaCount, loadFrame, todo>>

(* The storage of a node that failed to start is closed.                   *)
CloseStorage ==
    /\ mode = "closing"
    /\ Closed
    /\ GoDown
    /\ UNCHANGED <<faults, loaded>>

-----------------------------------------------------------------------------
(* TransactionExecutor.Execute                                             *)

(* The position of a key in the message and the header's counts decide.    *)
IsAccountWritable(tx, i) ==
    IF i <= tx.signers THEN i <= tx.signers - tx.roSigned
    ELSE i <= Len(tx.keys) - tx.roUnsigned

(* loadAccounts: an account that is not there is an empty one.             *)
Load(tx) ==
    [i \in DOMAIN tx.keys |->
        [key |-> tx.keys[i],
         lamports |-> disk[tx.keys[i]].lamports, space |-> disk[tx.keys[i]].space,
         nonce |-> disk[tx.keys[i]].nonce, owner |-> disk[tx.keys[i]].owner,
         isSigner |-> i <= tx.signers, isWritable |-> IsAccountWritable(tx, i)]]

ExecuteInstruction_MarksReadonly(st, ins) ==
    LET touched == {ins.at[n] : n \in DOMAIN ins.at} IN
    IF ~st.ok THEN st
    ELSE IF \E i \in touched : i \notin DOMAIN st.accts THEN [st EXCEPT !.ok = FALSE]
    ELSE CASE ins.program = System ->
                 IF ProcessOK(st.accts, ins)
                 THEN [st EXCEPT !.accts = Process(@, ins), !.modified = @ \cup touched]
                 ELSE [st EXCEPT !.ok = FALSE]
           [] OTHER -> st

(* executeInstruction: every writable account given to an instruction that *)
(* was processed counts as modified.                                       *)
ExecuteInstruction(st, ins) ==
    LET touched == {ins.at[n] : n \in DOMAIN ins.at}
        marked == st.modified \cup {i \in touched : st.accts[i].isWritable}
    IN
    IF ~st.ok THEN st
    ELSE IF \E i \in touched : i \notin DOMAIN st.accts THEN [st EXCEPT !.ok = FALSE]
    ELSE CASE ins.program = System ->
                 IF ProcessOK(st.accts, ins)
                 THEN [st EXCEPT !.accts = Process(@, ins), !.modified = marked]
                 ELSE [st EXCEPT !.ok = FALSE]
           [] ins.program = "budget" -> [st EXCEPT !.modified = marked]
           [] OTHER -> st

(* The instructions are executed in order, until one fails: entry n is     *)
(* what the first n instructions leave.                                    *)
Execution(st, instructions) ==
    LET after[n \in 0..Len(instructions)] ==
            IF n = 0 THEN st ELSE ExecuteInstruction(after[n - 1], instructions[n])
    IN after

Executed(tx) ==
    Execution([accts |-> Load(tx), modified |-> {}, ok |-> TRUE],
              tx.instructions)[Len(tx.instructions)]

AccountOf(info) == [lamports |-> info.lamports, space |-> info.space,
                    nonce |-> info.nonce, owner |-> info.owner]

execFrame == <<source, todo, batch, batched, loaded, lost>>

(* A transaction that fails leaves the accounts alone; one that touches no *)
(* writable account has nothing to save.                                   *)
Execute(tx) ==
    LET st == Executed(tx) IN
    /\ mode = "run"
    /\ st.ok /\ st.modified # {}
    /\ mode' = "save" /\ cur' = tx
    /\ saves' = [i \in st.modified |-> AccountOf(st.accts[i])]
    /\ UNCHANGED <<dbVars, execFrame, faults>>

(* The accounts of a transaction that succeeds are saved one by one, in the *)
(* order of the message.                                                   *)
Save ==
    /\ mode = "save"
    /\ \E i \in DOMAIN saves :
          /\ \A j \in DOMAIN saves : i <= j
          /\ SetAccount(cur.keys[i], saves[i])
          /\ IF DOMAIN saves = {i}
             THEN mode' = "run" /\ cur' = NoTx /\ saves' = NoAccounts
             ELSE /\ saves' = [j \in DOMAIN saves \ {i} |-> saves[j]]
                  /\ UNCHANGED <<mode, cur>>
    /\ UNCHANGED <<execFrame, faults>>

(* When a write fails, the transaction counts as failed and the slot goes  *)
(* on; what was saved stays.                                               *)
SaveFails ==
    /\ mode = "save" /\ faults < MaxFaults
    /\ faults' = faults + 1
    /\ mode' = "run" /\ saves' = NoAccounts /\ cur' = NoTx
    /\ UNCHANGED <<dbVars, execFrame>>

(* ReplaySlot's end.                                                       *)
EndSlot ==
    /\ mode = "run" /\ slot < MaxSlot
    /\ CommitSlot(slot + 1)
    /\ UNCHANGED <<mode, cur, saves, execFrame, faults>>

(* The commit fails: the slot is set, and the node goes on.                *)
CommitFails ==
    /\ mode = "run" /\ slot < MaxSlot /\ faults < MaxFaults
    /\ faults' = faults + 1
    /\ SetSlot(slot + 1)
    /\ UNCHANGED <<mode, cur, saves, execFrame>>

-----------------------------------------------------------------------------
Next ==
    \/ Start \/ Crash \/ Stop \/ LoadFails \/ CloseStorage
    \/ StreamAccount \/ StreamEnds \/ BatchAccount \/ NativeEnds
    \/ Save \/ SaveFails \/ EndSlot \/ CommitFails
    \/ \E tx \in Txs : Execute(tx)

Spec == Init /\ [][Next]_vars

-----------------------------------------------------------------------------
(* The count is that of the accounts, wherever accounts are created,       *)
(* deleted, overwritten or loaded twice, until an uncommitted count is     *)
(* lost: a crash, and every start that fails, loses it.                    *)
CountExact == (mode # "down" /\ ~lost) => count = Cardinality(Stored)

(* The slot of a snapshot is durable only once its load has completed:     *)
(* neither a crash in the middle nor a load that is refused at its end,    *)
(* after the slot was set, makes the next start take it for loaded.        *)
SlotMeansLoaded == (source.slot > 0 /\ metaSlot >= source.slot) => loaded

(* A node that starts from a snapshot of its own format starts with        *)
(* exactly the accounts of the snapshot, whatever an earlier run, a crash  *)
(* during an earlier load or a damaged file has left.                      *)
NativeLoadExact ==
    [][(mode = "load" /\ mode' = "run" /\ source.kind = "native") =>
          disk' = Hashed(source)]_vars

SignersOf(tx) == {tx.keys[i] : i \in {j \in DOMAIN tx.keys : j <= tx.signers}}
WritableOf(tx) == {tx.keys[i] : i \in {j \in DOMAIN tx.keys : IsAccountWritable(tx, j)}}

(* While the node replays, only saving a transaction changes accounts, and *)
(* only accounts its message declares writable: a failed transaction       *)
(* leaves nothing behind, even if its first instructions succeeded.        *)
OnlyWritableChange ==
    [][(mode \in {"run", "save"}) =>
          \A k \in Keys : disk'[k] # disk[k] => mode = "save" /\ k \in WritableOf(cur)]_vars

(* The authorities of the nonce an account holds or a transaction gives it. *)
NonceAuthorities(acc, k, tx) ==
    {a \in {acc.nonce.auth} : IsNonce(acc)}
    \cup {ins.key : ins \in {i \in Range(tx.instructions) :
            i.program = System /\ i.op = "InitializeNonceAccount" /\ tx.keys[i.at[1]] = k}}

Authorizes(tx, k, acc) ==
    \/ k \in SignersOf(tx)
    \/ NonceAuthorities(acc, k, tx) \cap SignersOf(tx) # {}
    \/ \E b \in SignersOf(tx), o \in Owners : SeedAddress[<<b, o>>] = k

(* Lamports leave an account only with a signature of its key, of the      *)
(* authority of the nonce it holds or is given, or of the base it is       *)
(* derived from.                                                           *)
DebitsAreAuthorized ==
    [][mode = "save" =>
          \A k \in Keys : disk'[k].lamports < disk[k].lamports => Authorizes(cur, k, disk[k])]_vars

(* The lamports there will be once what is being saved is saved.           *)
Balance(k) ==
    LET pending == {i \in DOMAIN saves : cur.keys[i] = k} IN
    IF pending = {} THEN disk[k].lamports
    ELSE saves[CHOOSE i \in pending : TRUE].lamports

Supply == FoldFunction(+, 0, [k \in Keys |-> Balance(k)])

(* What a transaction takes from an account it only reads, or adds to one, *)
(* is not saved.                                                           *)
ChangesReadonly(tx) ==
    LET st == Executed(tx) IN
    \E i \in DOMAIN tx.keys :
        ~st.accts[i].isWritable /\ st.accts[i].lamports # disk[tx.keys[i]].lamports

(* Replay neither creates nor destroys lamports, except that a transaction *)
(* is cut short by a crash or a failing write, or changes the balance of an *)
(* account it may only read, which the system program does not prevent.    *)
SupplyConserved ==
    [][(mode \in {"run", "save"} /\ faults' = faults) =>
          \/ Supply' = Supply
          \/ \E tx \in Txs : Execute(tx) /\ ChangesReadonly(tx)]_vars
=============================================================================
