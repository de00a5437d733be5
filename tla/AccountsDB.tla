----------------------------- MODULE AccountsDB -----------------------------
(***************************************************************************)
(* pkg/accounts: the accounts database, a Badger store of accounts with a  *)
(* slot and an account count cached in memory.  Every account write is a   *)
(* transaction of its own and durable at once; the slot and the count      *)
(* become durable with Commit only.                                        *)
(*                                                                         *)
(* An account is its balance, the class of its data's length, its content  *)
(* if that is a nonce, and its owner; the executable flag and the rent     *)
(* epoch are carried along by the code and never looked at here.           *)
(***************************************************************************)
EXTENDS Integers, Sequences, FiniteSets

CONSTANTS
    Keys,          \* public keys of accounts
    Owners,        \* programs that own accounts
    System,        \* the system program
    Spaces,        \* lengths of account data, 0 among them
    Lamports,      \* 2^64: lamports are kept below it
    CountWrap      \* 2^64 of the account counter

ASSUME DBAssumption ==
    /\ System \in Owners
    /\ Spaces \subseteq Nat /\ 0 \in Spaces
    /\ Lamports \in Nat \ {0} /\ CountWrap \in Nat \ {0}

(* The counter counts further than there will be accounts.                 *)
ASSUME SizeAssumption == IsFiniteSet(Keys) /\ Cardinality(Keys) < CountWrap

(* The content of account data: a nonce with its authority and the         *)
(* blockhash it stores (0 is the zero hash), or nothing of interest.       *)
Nonces == [auth : Keys, hash : {0, 1}]
NoNonce == [auth |-> System, hash |-> 0]

Accounts == [lamports : 0..Lamports - 1, space : Spaces,
             nonce : Nonces \cup {NoNonce}, owner : Owners]

(* A key without an account reads as this one, which is never stored.      *)
Empty == [lamports |-> 0, space |-> 0, nonce |-> NoNonce, owner |-> System]

VARIABLES
    disk,          \* Key -> account, durable
    metaSlot,      \* the slot and the count on disk
    metaCount,
    slot,          \* and in memory
    count

dbVars == <<disk, metaSlot, metaCount, slot, count>>

DBTypeOK ==
    /\ disk \in [Keys -> Accounts]
    /\ metaSlot \in Nat /\ slot \in Nat
    /\ metaCount \in 0..CountWrap - 1 /\ count \in 0..CountWrap - 1

DBInit ==
    /\ disk = [k \in Keys |-> Empty]
    /\ metaSlot = 0 /\ metaCount = 0 /\ slot = 0 /\ count = 0

Stored == {k \in Keys : disk[k] # Empty}

IsZero(acc) == acc.lamports = 0 /\ acc.space = 0

(* The change of the counter by writing accounts: what is created minus    *)
(* what is deleted.                                                        *)
Counted(c, before, after) ==
    (c + Cardinality(after \ before) - Cardinality(before \ after)) % CountWrap

Written(db, k, acc) == [db EXCEPT ![k] = IF IsZero(acc) THEN Empty ELSE acc]

SetAccount_NoDelete(k, acc) ==
    /\ disk' = Written(disk, k, acc)
    /\ count' = Counted(count, Stored, Stored \cup {k})
    /\ UNCHANGED <<metaSlot, metaCount, slot>>

(* A zero account is deleted.                                              *)
SetAccount(k, acc) ==
    /\ disk' = Written(disk, k, acc)
    /\ count' = Counted(count, Stored, IF IsZero(acc) THEN Stored \ {k} ELSE Stored \cup {k})
    /\ UNCHANGED <<metaSlot, metaCount, slot>>

(* The accounts that differ from Empty after a batch.                      *)
StoredIn(db) == {k \in Keys : db[k] # Empty}

(* BatchWriter.Flush: the batch, a function from keys to accounts, is      *)
(* written as one, and its additions and deletions are counted.            *)
Flush(batch) ==
    LET after == [k \in Keys |-> IF k \in DOMAIN batch
                                 THEN Written(disk, k, batch[k])[k] ELSE disk[k]]
    IN /\ disk' = after
       /\ count' = Counted(count, Stored, StoredIn(after))
       /\ UNCHANGED <<metaSlot, metaCount, slot>>

SetSlot(s) ==
    /\ slot' = s
    /\ UNCHANGED <<disk, metaSlot, metaCount, count>>

Commit ==
    /\ metaSlot' = slot /\ metaCount' = count
    /\ UNCHANGED <<disk, slot, count>>

(* The end of a slot: SetSlot, then Commit.                                *)
CommitSlot(s) ==
    /\ slot' = s
    /\ metaSlot' = s /\ metaCount' = count
    /\ UNCHANGED <<disk, count>>

(* NewBadgerDB: what memory holds comes from the disk again.               *)
LoadMetadata ==
    /\ slot' = metaSlot /\ count' = metaCount
    /\ UNCHANGED <<disk, metaSlot, metaCount>>

(* Close marks the database closed before it commits, so that its Commit   *)
(* is refused: only what was committed before stays.                       *)
CloseDB == UNCHANGED dbVars
=============================================================================
