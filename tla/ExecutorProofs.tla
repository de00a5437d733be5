--------------------------- MODULE ExecutorProofs ---------------------------
(***************************************************************************)
(* Proofs about Executor for every set of transactions and sources, with   *)
(* any number of instructions, accounts, slots and faults.                 *)
(***************************************************************************)
EXTENDS Executor, NaturalsInduction, FiniteSetTheorems, SequenceTheorems, TLAPS

(* The accounts a transaction works on.                                    *)
Infos == [key : Keys, lamports : 0..Lamports - 1, space : Spaces,
          nonce : Nonces \cup {NoNonce}, owner : Owners,
          isSigner : BOOLEAN, isWritable : BOOLEAN]

(* What instructions keep true of the i-th account of a transaction tx that *)
(* began with the accounts db: it is still the account of its key, and has *)
(* lost lamports only with an authorization.  For that its nonce must have *)
(* an authority it began with, was given, or got with an authorization.    *)
InfoOK(acc, i, db, tx) ==
    LET k == tx.keys[i] IN
    /\ acc.key = k
    /\ acc.isSigner = (i <= tx.signers) /\ acc.isWritable = IsAccountWritable(tx, i)
    /\ acc.lamports < db[k].lamports => Authorizes(tx, k, db[k])
    /\ acc.nonce # NoNonce =>
          /\ acc.space >= NonceSize
          /\ acc.nonce.auth \in NonceAuthorities(db[k], k, tx) \/ Authorizes(tx, k, db[k])

AcctsOK(accts, db, tx) ==
    /\ accts \in [DOMAIN tx.keys -> Infos]
    /\ \A i \in DOMAIN tx.keys : InfoOK(accts[i], i, db, tx)

StateOK(st, db, tx) ==
    /\ st = [accts |-> st.accts, modified |-> st.modified, ok |-> st.ok]
    /\ AcctsOK(st.accts, db, tx)
    /\ st.modified \subseteq {i \in DOMAIN tx.keys : IsAccountWritable(tx, i)}

-----------------------------------------------------------------------------
(* The invariant.  Between two steps of a process that is down, what counts *)
(* is on the disk.                                                         *)
DBTypes ==
    /\ disk \in [Keys -> SoundAccounts]
    /\ metaSlot \in Nat /\ slot \in Nat
    /\ metaCount \in 0..CountWrap - 1 /\ count \in 0..CountWrap - 1

LoadTypes ==
    /\ source \in Sources
    /\ \E n \in 0..Len(source.entries) :
          todo = SubSeq(source.entries, n + 1, Len(source.entries))
    /\ DOMAIN batch \subseteq Keys /\ \A k \in DOMAIN batch : batch[k] \in SoundAccounts
    /\ batched \in 0..BatchSize

RunTypes ==
    /\ mode \in {"down", "load", "closing", "run", "save"}
    /\ faults \in 0..MaxFaults
    /\ loaded \in BOOLEAN /\ lost \in BOOLEAN
    /\ IF mode = "save" THEN cur \in Txs ELSE cur = NoTx
    /\ DOMAIN saves \subseteq DOMAIN cur.keys /\ \A i \in DOMAIN saves : saves[i] \in SoundAccounts

CountOK ==
    ~lost => (IF mode = "down" THEN metaCount ELSE count) = Cardinality(Stored)

(* A load that has not completed has not moved the slot.                   *)
SlotOK ==
    (source.slot > 0 /\ ~loaded) =>
        /\ metaSlot < source.slot
        /\ mode \in {"down", "load", "closing"}
        /\ mode = "load" => slot = metaSlot

(* What is going to be saved may be.                                       *)
SavesOK ==
    \A i \in DOMAIN saves :
        LET k == cur.keys[i] IN
        /\ IsAccountWritable(cur, i)
        /\ saves[i].lamports < disk[k].lamports => Authorizes(cur, k, disk[k])

Types == DBTypes /\ LoadTypes /\ RunTypes
IInv == Types /\ CountOK /\ SlotOK /\ SavesOK

-----------------------------------------------------------------------------
(* Induction, for the set of numbers that have a property.                 *)
LEMMA Induction ==
    ASSUME NEW S, 0 \in S, \A n \in Nat : n \in S => n + 1 \in S
    PROVE  Nat \subseteq S
<1>. SUFFICES ASSUME Nat \ S # {} PROVE FALSE
  OBVIOUS
<1>1. PICK m \in Nat \ S : \A x \in Nat \ S : ~ (<<x, m>> \in OpToRel(<, Nat))
  BY NatLessThanWellFounded, WFMin
<1>2. \A x \in Nat \ S : ~ (x < m)
  BY <1>1, Zenon DEF OpToRel
<1>3. m \in Nat /\ m # 0
  OBVIOUS
<1>4. m - 1 \in Nat /\ (m - 1) + 1 = m /\ m - 1 < m
  BY <1>3
<1>5. m - 1 \in S
  BY <1>2, <1>4
<1>. QED
  BY <1>4, <1>5

(* The instructions of a transaction are executed one after the other, each *)
(* on what the ones before have left.                                      *)
LEMMA ExecutionUnfolds ==
    ASSUME NEW st, NEW s, Len(s) \in Nat
    PROVE  LET after == Execution(st, s)
           IN /\ after[0] = st
              /\ \A n \in 1..Len(s) : after[n] = ExecuteInstruction(after[n - 1], s[n])
<1>. DEFINE Unfolds(f, n) ==
       f = [i \in 0..n |-> IF i = 0 THEN st ELSE ExecuteInstruction(f[i - 1], s[i])]
<1>. DEFINE S == {n \in Nat : \E f : Unfolds(f, n)}
<1>1. 0 \in S
  <2>1. Unfolds([i \in 0..0 |-> st], 0)
    OBVIOUS
  <2>. QED
    BY <2>1
<1>2. ASSUME NEW n \in Nat, n \in S PROVE n + 1 \in S
  <2>1. PICK f : Unfolds(f, n)
    BY <1>2
  <2>. DEFINE g == [i \in 0..n+1 |-> IF i = 0 THEN st ELSE ExecuteInstruction(f[i - 1], s[i])]
  <2>2. \A i \in 0..n : g[i] = f[i]
    BY <2>1
  <2>3. g = [i \in 0..n+1 |-> IF i = 0 THEN st ELSE ExecuteInstruction(f[i - 1], s[i])]
    OBVIOUS
  <2>. HIDE DEF g
  <2>4. \A i \in 0..n+1 : i # 0 => i - 1 \in 0..n
    OBVIOUS
  <2>5. \A i \in 0..n+1 : i # 0 => g[i - 1] = f[i - 1]
    BY <2>2, <2>4
  <2>6. Unfolds(g, n + 1)
    BY <2>3, <2>5
  <2>7. n + 1 \in Nat
    OBVIOUS
  <2>. HIDE DEF Unfolds
  <2>. QED
    BY <2>6, <2>7
<1>3. Len(s) \in S
  BY <1>1, <1>2, Induction
<1>4. PICK f : Unfolds(f, Len(s))
  BY <1>3
<1>. DEFINE after == Execution(st, s)
<1>5. Unfolds(after, Len(s))
  BY <1>4 DEF Execution
<1>. HIDE DEF after
<1>6. after[0] = st
  BY <1>5
<1>7. \A n \in 1..Len(s) : after[n] = ExecuteInstruction(after[n - 1], s[n])
  BY <1>5
<1>. QED
  BY <1>6, <1>7 DEF after
-----------------------------------------------------------------------------
(* The system program, account by account.  An instruction of tx, given    *)
(* accounts that are there:                                                *)
SystemInstruction(tx, ins) ==
    /\ tx \in Txs /\ ins \in Range(tx.instructions) /\ ins.program = System
    /\ \A n \in DOMAIN ins.at : ins.at[n] \in DOMAIN tx.keys

(* What is authorized for the i-th account.                                *)
Free(tx, db, i) == Authorizes(tx, tx.keys[i], db[tx.keys[i]])

(* The fields of an instruction the loader accepts, and that the accounts  *)
(* it is given are accounts of its transaction.                            *)
LEMMA InstructionFields ==
    ASSUME NEW tx, NEW ins, SystemInstruction(tx, ins)
    PROVE  /\ ins.at \in Seq(Nat) /\ DOMAIN ins.at = 1..Len(ins.at) /\ Len(ins.at) \in Nat
           /\ ins.lamports \in 0..Lamports - 1 /\ ins.space \in Spaces
           /\ ins.owner \in Owners /\ ins.key \in Keys
           /\ \A n \in Nat \ {0} : Given(ins, n) => \A j \in 1..n : ins.at[j] \in DOMAIN tx.keys
<1>1. IsInstruction(ins)
  BY TxsAssumption DEF SystemInstruction, Range
<1>2. ins.at \in Seq(Nat) /\ DOMAIN ins.at = 1..Len(ins.at) /\ Len(ins.at) \in Nat
  BY <1>1, LenProperties DEF IsInstruction
<1>3. ASSUME NEW n \in Nat \ {0}, Given(ins, n), NEW j \in 1..n
      PROVE  ins.at[j] \in DOMAIN tx.keys
  <2>1. j \in DOMAIN ins.at
    BY <1>2, <1>3 DEF Given
  <2>. QED
    BY <2>1 DEF SystemInstruction
<1>. QED
  BY <1>1, <1>2, <1>3 DEF IsInstruction

(* The signature of an account's key frees it.                             *)
LEMMA SignerFrees ==
    ASSUME NEW tx, NEW db, NEW accts, AcctsOK(accts, db, tx), NEW i \in DOMAIN tx.keys,
           accts[i].isSigner
    PROVE  Free(tx, db, i) /\ accts[i].key \in SignersOf(tx)
<1>1. i <= tx.signers /\ accts[i].key = tx.keys[i]
  BY DEF AcctsOK, InfoOK
<1>2. tx.keys[i] \in SignersOf(tx)
  BY <1>1 DEF SignersOf
<1>. QED
  BY <1>1, <1>2 DEF Free, Authorizes

(* So does the signature of the authority of its nonce.                    *)
LEMMA NonceFrees ==
    ASSUME NEW tx, NEW db, NEW accts, AcctsOK(accts, db, tx), NEW i \in DOMAIN tx.keys,
           NEW j \in DOMAIN tx.keys, accts[j].isSigner, accts[i].nonce # NoNonce,
           accts[i].nonce.auth = accts[j].key
    PROVE  Free(tx, db, i)
<1>1. accts[j].key \in SignersOf(tx)
  BY SignerFrees
<1>2. accts[i].nonce.auth \in NonceAuthorities(db[tx.keys[i]], tx.keys[i], tx) \/ Free(tx, db, i)
  BY DEF AcctsOK, InfoOK, Free
<1>. QED
  BY <1>1, <1>2 DEF Free, Authorizes

(* The fields of a loaded account.                                         *)
LEMMA InfoTypes ==
    /\ NonceSize \in Int /\ Lamports \in Int
    /\ \A acc \in Infos : /\ acc.lamports \in 0..Lamports - 1 /\ acc.lamports \in Int
                          /\ acc.space \in Spaces /\ acc.space \in Int
                          /\ acc.isSigner \in BOOLEAN /\ acc.isWritable \in BOOLEAN
                          /\ acc.key \in Keys /\ acc.owner \in Owners
                          /\ acc.nonce \in Nonces \cup {NoNonce}
<1>1. Spaces \subseteq Int /\ 0..Lamports - 1 \subseteq Int
  BY DBAssumption
<1>2. NonceSize \in Int /\ Lamports \in Int
  BY <1>1, DBAssumption, SystemAssumption
<1>. QED
  BY <1>1, <1>2 DEF Infos

(* An account stays sound when it keeps its place, loses lamports only if  *)
(* that is authorized, and its nonce is one it had, was given or may have. *)
LEMMA InfoKept ==
    ASSUME NEW tx, NEW db, NEW i \in DOMAIN tx.keys, NEW acc \in Infos, NEW new \in Infos,
           db[tx.keys[i]].lamports \in Int, InfoOK(acc, i, db, tx),
           new.key = acc.key, new.isSigner = acc.isSigner, new.isWritable = acc.isWritable,
           new.lamports >= acc.lamports \/ Free(tx, db, i),
           \/ new.nonce = NoNonce
           \/ acc.nonce # NoNonce /\ new.space >= acc.space /\ new.nonce.auth = acc.nonce.auth
           \/ /\ new.space >= NonceSize
              /\ \/ new.nonce.auth \in NonceAuthorities(db[tx.keys[i]], tx.keys[i], tx)
                 \/ Free(tx, db, i)
    PROVE  InfoOK(new, i, db, tx)
<1>1. /\ acc.lamports \in Int /\ new.lamports \in Int
      /\ acc.space \in Int /\ new.space \in Int /\ NonceSize \in Int
  BY InfoTypes
<1>2. new.lamports < db[tx.keys[i]].lamports => Free(tx, db, i)
  BY <1>1 DEF InfoOK, Free
<1>3. new.nonce # NoNonce => new.space >= NonceSize
  BY <1>1 DEF InfoOK
<1>4. new.nonce # NoNonce =>
         \/ new.nonce.auth \in NonceAuthorities(db[tx.keys[i]], tx.keys[i], tx)
         \/ Free(tx, db, i)
  BY DEF InfoOK, Free
<1>. QED
  BY <1>2, <1>3, <1>4 DEF InfoOK, Free

(* The accounts a transaction names are keys with a sound account each.    *)
LEMMA DatabaseTypes ==
    ASSUME NEW tx \in Txs, NEW db \in [Keys -> SoundAccounts]
    PROVE  \A i \in DOMAIN tx.keys : /\ tx.keys[i] \in Keys /\ db[tx.keys[i]] \in SoundAccounts
                                     /\ db[tx.keys[i]] \in Accounts
                                     /\ db[tx.keys[i]].lamports \in Int
<1>1. \A i \in DOMAIN tx.keys : tx.keys[i] \in Keys
  BY TxsAssumption, ElementOfSeq, LenProperties
<1>2. \A acc \in Accounts : acc.lamports \in Int
  BY DBAssumption DEF Accounts
<1>. QED
  BY <1>1, <1>2 DEF SoundAccounts

(* The lamports that Transfer, TransferWithSeed and WithdrawNonceAccount   *)
(* move: the sum cannot overflow, and only the first account loses any.    *)
LEMMA MoveOK ==
    ASSUME NEW tx \in Txs, NEW db \in [Keys -> SoundAccounts], NEW accts, AcctsOK(accts, db, tx),
           NEW from \in DOMAIN tx.keys, NEW to \in DOMAIN tx.keys, NEW n \in Nat,
           accts[from].lamports >= n, NoOverflow(accts[to], n), Free(tx, db, from)
    PROVE  AcctsOK(Move(accts, from, to, n), db, tx)
<1>. DEFINE new == Move(accts, from, to, n)
<1>1. accts \in [DOMAIN tx.keys -> Infos]
  BY DEF AcctsOK
<1>2. \A i \in DOMAIN tx.keys : accts[i].lamports \in Int /\ db[tx.keys[i]].lamports \in Int
  BY <1>1, InfoTypes, DatabaseTypes
<1>3. Lamports \in Int
  BY DBAssumption
<1>4. ASSUME NEW i \in DOMAIN tx.keys
      PROVE  new[i] \in Infos /\ InfoOK(new[i], i, db, tx)
  <2>. DEFINE l == IF i = from THEN IF i = to THEN accts[i].lamports ELSE accts[i].lamports - n
                   ELSE IF i = to THEN accts[i].lamports + n ELSE accts[i].lamports
  <2>1. new[i] = [accts[i] EXCEPT !.lamports = l]
    <3>. DEFINE one == [accts EXCEPT ![from].lamports = @ - n]
    <3>1. /\ DOMAIN one = DOMAIN tx.keys
          /\ \A j \in DOMAIN tx.keys : j # from => one[j] = accts[j]
          /\ one[from] = [accts[from] EXCEPT !.lamports = accts[from].lamports - n]
      BY <1>1
    <3>2. new = [one EXCEPT ![to].lamports = one[to].lamports + n]
      BY DEF Move
    <3>. HIDE DEF one, new
    <3>3. i # to => new[i] = one[i]
      BY <3>1, <3>2
    <3>4. new[to] = [one[to] EXCEPT !.lamports = one[to].lamports + n]
      BY <3>1, <3>2
    <3>5. (accts[from].lamports - n) + n = accts[from].lamports
      BY <1>2
    <3>. QED
      BY <1>1, <3>1, <3>3, <3>4, <3>5 DEF Infos
  <2>2. l \in 0..Lamports - 1 /\ (l >= accts[i].lamports \/ Free(tx, db, i))
    BY <1>1, <1>2, <1>3 DEF NoOverflow, Infos
  <2>. HIDE DEF l
  <2>3. new[i] \in Infos /\ new[i].lamports = l
    BY <1>1, <2>1, <2>2 DEF Infos
  <2>4. /\ new[i].key = accts[i].key /\ new[i].nonce = accts[i].nonce /\ new[i].space = accts[i].space
        /\ new[i].isSigner = accts[i].isSigner /\ new[i].isWritable = accts[i].isWritable
    BY <1>1, <2>1 DEF Infos
  <2>5. InfoOK(accts[i], i, db, tx) /\ accts[i] \in Infos /\ accts[i].space \in Int
    BY <1>1, InfoTypes DEF AcctsOK
  <2>. HIDE DEF new
  <2>6. new[i].space >= accts[i].space
    BY <2>4, <2>5
  <2>. QED
    BY <1>2, <2>2, <2>3, <2>4, <2>5, <2>6, InfoKept
<1>5. DOMAIN new = DOMAIN tx.keys /\ new = [i \in DOMAIN new |-> new[i]]
  BY <1>1 DEF Move
<1>. HIDE DEF new
<1>. QED
  BY <1>4, <1>5 DEF AcctsOK, new
(* The other instructions change the accounts one at a time.               *)
LEMMA OneChanged ==
    ASSUME NEW tx, NEW db, NEW accts, AcctsOK(accts, db, tx), NEW i \in DOMAIN tx.keys,
           NEW new \in Infos, InfoOK(new, i, db, tx)
    PROVE  AcctsOK([accts EXCEPT ![i] = new], db, tx)
  BY DEF AcctsOK

(* One that only touches the owner or makes an account larger ...          *)
LEMMA GrowOK ==
    ASSUME NEW tx \in Txs, NEW db \in [Keys -> SoundAccounts], NEW accts, AcctsOK(accts, db, tx),
           NEW i \in DOMAIN tx.keys, NEW space \in Spaces, NEW owner \in Owners
    PROVE  AcctsOK([accts EXCEPT ![i] = [accts[i] EXCEPT !.space = Largest(@, space),
                                                         !.owner = owner]], db, tx)
<1>. DEFINE acc == accts[i]
            new == [acc EXCEPT !.space = Largest(@, space), !.owner = owner]
<1>1. acc \in Infos /\ InfoOK(acc, i, db, tx)
  BY DEF AcctsOK
<1>2. Largest(acc.space, space) \in Spaces /\ Largest(acc.space, space) >= acc.space
  BY <1>1, InfoTypes, DBAssumption DEF Largest
<1>3. /\ new \in Infos /\ new.key = acc.key /\ new.lamports = acc.lamports
      /\ new.isSigner = acc.isSigner /\ new.isWritable = acc.isWritable
      /\ new.nonce = acc.nonce /\ new.space >= acc.space
  BY <1>1, <1>2 DEF Infos
<1>4. db[tx.keys[i]].lamports \in Int
  BY DatabaseTypes
<1>. HIDE DEF acc, new
<1>5. InfoOK(new, i, db, tx)
  BY <1>1, <1>3, <1>4, InfoTypes, InfoKept
<1>. QED
  BY <1>3, <1>5, OneChanged DEF acc, new

(* ... or its nonce.                                                       *)
LEMMA NonceOK ==
    ASSUME NEW tx \in Txs, NEW db \in [Keys -> SoundAccounts], NEW accts, AcctsOK(accts, db, tx),
           NEW i \in DOMAIN tx.keys, NEW nonce \in Nonces \cup {NoNonce},
           \/ nonce = NoNonce
           \/ /\ accts[i].space >= NonceSize
              /\ \/ nonce.auth \in NonceAuthorities(db[tx.keys[i]], tx.keys[i], tx)
                 \/ Free(tx, db, i)
    PROVE  AcctsOK([accts EXCEPT ![i] = [accts[i] EXCEPT !.nonce = nonce]], db, tx)
<1>. DEFINE acc == accts[i]
            new == [acc EXCEPT !.nonce = nonce]
<1>1. acc \in Infos /\ InfoOK(acc, i, db, tx)
  BY DEF AcctsOK
<1>2. /\ new \in Infos /\ new.key = acc.key /\ new.lamports = acc.lamports
      /\ new.isSigner = acc.isSigner /\ new.isWritable = acc.isWritable
      /\ new.nonce = nonce /\ new.space = acc.space
  BY <1>1 DEF Infos
<1>3. db[tx.keys[i]].lamports \in Int
  BY DatabaseTypes
<1>. HIDE DEF new
<1>4. InfoOK(new, i, db, tx)
  <2>1. new.lamports >= acc.lamports
    BY <1>1, <1>2, InfoTypes
  <2>. QED
    BY <1>1, <1>2, <1>3, <2>1, InfoKept
<1>. QED
  BY <1>2, <1>4, OneChanged DEF new

(* CreateAccount and CreateAccountWithSeed: the funder signs, and the new  *)
(* account had nothing to lose.                                            *)
LEMMA CreateOK ==
    ASSUME NEW tx \in Txs, NEW db \in [Keys -> SoundAccounts], NEW accts, AcctsOK(accts, db, tx),
           NEW ins, SystemInstruction(tx, ins), Given(ins, 2),
           At(accts, ins, 1).isSigner, Creates(accts, ins)
    PROVE  AcctsOK(CreateAccount(accts, ins), db, tx)
<1>. DEFINE a == ins.at[1]
            b == ins.at[2]
            n == ins.lamports
            less == [accts[a] EXCEPT !.lamports = accts[a].lamports - n]
            paid == [accts EXCEPT ![a] = less]
            made == [paid[b] EXCEPT !.lamports = n, !.space = ins.space,
                                    !.nonce = NoNonce, !.owner = ins.owner]
<1>1. /\ a \in DOMAIN tx.keys /\ b \in DOMAIN tx.keys
      /\ n \in 0..Lamports - 1 /\ ins.space \in Spaces /\ ins.owner \in Owners
  BY InstructionFields
<1>2. /\ accts[a] \in Infos /\ InfoOK(accts[a], a, db, tx) /\ accts[a].isSigner
      /\ accts[a].lamports >= n /\ accts[b].lamports = 0
  BY <1>1 DEF AcctsOK, At, Creates, Unused
<1>3. AcctsOK(paid, db, tx)
  <2>1. accts[a].lamports - n \in 0..Lamports - 1
    BY <1>1, <1>2, InfoTypes
  <2>2. /\ less \in Infos /\ less.key = accts[a].key
        /\ less.isSigner = accts[a].isSigner /\ less.isWritable = accts[a].isWritable
        /\ less.nonce = accts[a].nonce /\ less.space = accts[a].space
    BY <1>2, <2>1 DEF Infos
  <2>3. Free(tx, db, a)
    BY <1>1, <1>2, SignerFrees
  <2>4. db[tx.keys[a]].lamports \in Int
    BY <1>1, DatabaseTypes
  <2>. HIDE DEF a, less
  <2>5. InfoOK(less, a, db, tx)
    <3>1. less.space >= accts[a].space
      BY <1>2, <2>2, InfoTypes
    <3>. QED
      BY <1>1, <1>2, <2>2, <2>3, <2>4, <3>1, InfoKept
  <2>. QED
    BY <1>1, <2>2, <2>5, OneChanged
<1>4. paid[b] \in Infos /\ InfoOK(paid[b], b, db, tx)
  BY <1>1, <1>3 DEF AcctsOK
<1>5. paid[b].lamports <= n
  <2>1. CASE a = b
    BY <1>1, <1>2, <2>1, InfoTypes DEF AcctsOK, Infos
  <2>2. CASE a # b
    <3>1. paid[b] = accts[b]
      BY <1>1, <2>2 DEF AcctsOK
    <3>. QED
      BY <1>1, <1>2, <3>1
  <2>. QED
    BY <2>1, <2>2
<1>6. CreateAccount(accts, ins) = [paid EXCEPT ![b] = made]
  BY DEF CreateAccount
<1>. HIDE DEF paid, b, n
<1>7. NoNonce \in Nonces \cup {NoNonce}
  OBVIOUS
<1>8. /\ made \in Infos /\ made.key = paid[b].key /\ made.lamports = n
      /\ made.isSigner = paid[b].isSigner /\ made.isWritable = paid[b].isWritable
      /\ made.nonce = NoNonce
  BY <1>1, <1>4, <1>7 DEF Infos
<1>9. db[tx.keys[b]].lamports \in Int
  BY <1>1, DatabaseTypes
<1>. HIDE DEF made
<1>10. InfoOK(made, b, db, tx)
  <2>1. made.lamports >= paid[b].lamports
    BY <1>1, <1>4, <1>5, <1>8, InfoTypes
  <2>. QED
    BY <1>1, <1>4, <1>8, <1>9, <2>1, InfoKept
<1>11. b \in DOMAIN tx.keys /\ made \in Infos
  BY <1>1, <1>8
<1>12. AcctsOK([paid EXCEPT ![b] = made], db, tx)
  BY <1>3, <1>10, <1>11, OneChanged
<1>. QED
  BY <1>6, <1>12
(* Processor.Process, system.go: an instruction that is accepted takes     *)
(* lamports from an account only if a signature allows it.                 *)
LEMMA ProcessKeeps ==
    ASSUME NEW tx \in Txs, NEW db \in [Keys -> SoundAccounts], NEW accts, AcctsOK(accts, db, tx),
           NEW ins, SystemInstruction(tx, ins), ProcessOK(accts, ins)
    PROVE  AcctsOK(Process(accts, ins), db, tx)
<1>. DEFINE a == ins.at[1]
<1>1. /\ ins.lamports \in 0..Lamports - 1 /\ ins.lamports \in Nat
      /\ ins.space \in Spaces /\ 0 \in Spaces /\ ins.owner \in Owners /\ ins.key \in Keys
  BY InstructionFields, DBAssumption
<1>2. /\ Given(ins, 1) => ins.at[1] \in DOMAIN tx.keys
      /\ Given(ins, 2) => ins.at[1] \in DOMAIN tx.keys /\ ins.at[2] \in DOMAIN tx.keys
      /\ Given(ins, 3) => /\ ins.at[1] \in DOMAIN tx.keys /\ ins.at[2] \in DOMAIN tx.keys
                          /\ ins.at[3] \in DOMAIN tx.keys
      /\ Given(ins, 5) => /\ ins.at[1] \in DOMAIN tx.keys /\ ins.at[2] \in DOMAIN tx.keys
                          /\ ins.at[5] \in DOMAIN tx.keys
  BY InstructionFields
<1>3. /\ accts \in [DOMAIN tx.keys -> Infos]
      /\ \A i \in DOMAIN tx.keys : accts[i] \in Infos
      /\ \A i \in DOMAIN tx.keys : /\ accts[i].space \in Spaces /\ accts[i].owner \in Owners
                                   /\ accts[i].nonce \in Nonces \cup {NoNonce}
  BY InfoTypes DEF AcctsOK
<1>4. CASE ins.op \in {"CreateAccount", "CreateAccountWithSeed"}
  <2>1. Given(ins, 2) /\ At(accts, ins, 1).isSigner /\ Creates(accts, ins)
    BY <1>4 DEF ProcessOK, CreateAccountOK, CreateAccountWithSeedOK
  <2>2. Process(accts, ins) = CreateAccount(accts, ins)
    BY <1>4 DEF Process
  <2>. QED
    BY <2>1, <2>2, CreateOK
<1>5. CASE ins.op = "Transfer"
  <2>1. TransferOK(accts, ins) /\ Process(accts, ins) = Transfer(accts, ins)
    BY <1>5 DEF ProcessOK, Process
  <2>2. /\ ins.at[1] \in DOMAIN tx.keys /\ ins.at[2] \in DOMAIN tx.keys
        /\ accts[ins.at[1]].isSigner /\ accts[ins.at[1]].lamports >= ins.lamports
        /\ NoOverflow(accts[ins.at[2]], ins.lamports)
    BY <1>2, <2>1 DEF TransferOK, At
  <2>3. Free(tx, db, ins.at[1])
    BY <2>2, SignerFrees
  <2>4. AcctsOK(Move(accts, ins.at[1], ins.at[2], ins.lamports), db, tx)
    BY <1>1, <2>2, <2>3, MoveOK
  <2>. QED
    BY <2>1, <2>4 DEF Transfer
<1>6. CASE ins.op = "TransferWithSeed"
  <2>1. TransferWithSeedOK(accts, ins) /\ Process(accts, ins) = TransferWithSeed(accts, ins)
    BY <1>6 DEF ProcessOK, Process
  <2>2. /\ ins.at[1] \in DOMAIN tx.keys /\ ins.at[2] \in DOMAIN tx.keys
        /\ ins.at[3] \in DOMAIN tx.keys
        /\ accts[ins.at[2]].isSigner /\ accts[ins.at[1]].lamports >= ins.lamports
        /\ NoOverflow(accts[ins.at[3]], ins.lamports)
        /\ SeedAddress[<<accts[ins.at[2]].key, ins.owner>>] = accts[ins.at[1]].key
    BY <1>2, <2>1 DEF TransferWithSeedOK, At
  <2>3. Free(tx, db, ins.at[1])
    <3>1. accts[ins.at[2]].key \in SignersOf(tx) /\ accts[ins.at[1]].key = tx.keys[ins.at[1]]
      BY <2>2, SignerFrees DEF AcctsOK, InfoOK
    <3>. QED
      BY <1>1, <2>2, <3>1 DEF Free, Authorizes
  <2>4. AcctsOK(Move(accts, ins.at[1], ins.at[3], ins.lamports), db, tx)
    BY <1>1, <2>2, <2>3, MoveOK
  <2>. QED
    BY <2>1, <2>4 DEF TransferWithSeed
<1>7. CASE ins.op \in {"Assign", "AssignWithSeed"}
  <2>1. Process(accts, ins) = Assign(accts, ins)
    BY <1>7 DEF Process
  <2>2. a \in DOMAIN tx.keys
    BY <1>2, <1>7 DEF ProcessOK, AssignOK, AssignWithSeedOK
  <2>3. Largest(accts[a].space, 0) = accts[a].space
    <3>1. accts[a].space \in Nat
      BY <1>3, <2>2, DBAssumption
    <3>. QED
      BY <3>1 DEF Largest
  <2>4. AcctsOK([accts EXCEPT ![a] = [accts[a] EXCEPT !.space = Largest(@, 0),
                                                      !.owner = ins.owner]], db, tx)
    BY <1>1, <2>2, GrowOK
  <2>5. [accts[a] EXCEPT !.space = Largest(@, 0), !.owner = ins.owner]
           = [accts[a] EXCEPT !.owner = ins.owner]
    BY <1>3, <2>2, <2>3 DEF Infos
  <2>. QED
    BY <2>1, <2>4, <2>5 DEF Assign
<1>8. CASE ins.op = "Allocate"
  <2>1. Process(accts, ins) = Allocate(accts, ins)
    BY <1>8 DEF Process
  <2>2. a \in DOMAIN tx.keys
    BY <1>2, <1>8 DEF ProcessOK, AllocateOK, AssignOK
  <2>3. AcctsOK([accts EXCEPT ![a] = [accts[a] EXCEPT !.space = Largest(@, ins.space),
                                                      !.owner = accts[a].owner]], db, tx)
    BY <1>1, <1>3, <2>2, GrowOK
  <2>4. [accts[a] EXCEPT !.space = Largest(@, ins.space), !.owner = accts[a].owner]
           = [accts[a] EXCEPT !.space = Largest(@, ins.space)]
    BY <1>3, <2>2 DEF Infos
  <2>. QED
    BY <2>1, <2>3, <2>4 DEF Allocate
<1>9. CASE ins.op = "AllocateWithSeed"
  <2>1. Process(accts, ins) = AllocateWithSeed(accts, ins)
    BY <1>9 DEF Process
  <2>2. a \in DOMAIN tx.keys
    BY <1>2, <1>9 DEF ProcessOK, AssignWithSeedOK
  <2>3. AcctsOK([accts EXCEPT ![a] = [accts[a] EXCEPT !.space = Largest(@, ins.space),
                                                      !.owner = ins.owner]], db, tx)
    BY <1>1, <2>2, GrowOK
  <2>. QED
    BY <2>1, <2>3 DEF AllocateWithSeed, At
<1>10. CASE ins.op = "InitializeNonceAccount"
  <2>1. InitializeNonceOK(accts, ins) /\ Process(accts, ins) = InitializeNonce(accts, ins)
    BY <1>10 DEF ProcessOK, Process
  <2>2. a \in DOMAIN tx.keys /\ accts[a].space >= NonceSize
    BY <1>2, <2>1 DEF InitializeNonceOK, At
  <2>. DEFINE nonce == [auth |-> ins.key, hash |-> RecentBlockhash]
  <2>3. nonce \in Nonces /\ nonce.auth = ins.key
    BY <1>1 DEF Nonces, RecentBlockhash
  <2>4. ins.key \in NonceAuthorities(db[tx.keys[a]], tx.keys[a], tx)
    BY <1>10 DEF NonceAuthorities, SystemInstruction
  <2>5. AcctsOK([accts EXCEPT ![a] = [accts[a] EXCEPT !.nonce = nonce]], db, tx)
    <3>. HIDE DEF nonce, a
    <3>. QED
      BY <2>2, <2>3, <2>4, NonceOK
  <2>. QED
    BY <2>1, <2>5 DEF InitializeNonce
<1>11. ASSUME NEW n \in {2, 3, 5}, Authorized(accts, ins, n)
       PROVE  /\ a \in DOMAIN tx.keys /\ Free(tx, db, a) /\ accts[a].space >= NonceSize
              /\ accts[a].nonce \in Nonces /\ accts[a].nonce # NoNonce
  <2>1. /\ a \in DOMAIN tx.keys /\ ins.at[n] \in DOMAIN tx.keys
        /\ accts[ins.at[n]].isSigner /\ accts[a].space >= NonceSize /\ accts[a].nonce # NoNonce
        /\ accts[a].nonce.auth = accts[ins.at[n]].key
    BY <1>2, <1>11 DEF Authorized, At, IsNonce
  <2>2. Free(tx, db, a)
    BY <2>1, NonceFrees
  <2>. QED
    BY <1>3, <2>1, <2>2
<1>12. CASE ins.op = "AdvanceNonceAccount"
  <2>1. Authorized(accts, ins, 3) /\ Process(accts, ins) = AdvanceNonce(accts, ins)
    BY <1>12 DEF ProcessOK, AdvanceNonceOK, Process
  <2>2. a \in DOMAIN tx.keys /\ Free(tx, db, a) /\ accts[a].space >= NonceSize /\ accts[a].nonce \in Nonces
    BY <1>11, <2>1
  <2>. DEFINE nonce == [accts[a].nonce EXCEPT !.hash = RecentBlockhash]
  <2>3. nonce \in Nonces
    BY <2>2 DEF Nonces, RecentBlockhash
  <2>4. AcctsOK([accts EXCEPT ![a] = [accts[a] EXCEPT !.nonce = nonce]], db, tx)
    <3>. HIDE DEF nonce, a
    <3>. QED
      BY <2>2, <2>3, NonceOK
  <2>. QED
    BY <2>1, <2>4 DEF AdvanceNonce
<1>13. CASE ins.op = "AuthorizeNonceAccount"
  <2>1. Authorized(accts, ins, 2) /\ Process(accts, ins) = AuthorizeNonce(accts, ins)
    BY <1>13 DEF ProcessOK, Process
  <2>2. a \in DOMAIN tx.keys /\ Free(tx, db, a) /\ accts[a].space >= NonceSize /\ accts[a].nonce \in Nonces
    BY <1>11, <2>1
  <2>. DEFINE nonce == [accts[a].nonce EXCEPT !.auth = ins.key]
  <2>3. nonce \in Nonces
    BY <1>1, <2>2 DEF Nonces
  <2>4. AcctsOK([accts EXCEPT ![a] = [accts[a] EXCEPT !.nonce = nonce]], db, tx)
    <3>. HIDE DEF nonce, a
    <3>. QED
      BY <2>2, <2>3, NonceOK
  <2>. QED
    BY <2>1, <2>4 DEF AuthorizeNonce
<1>14. CASE ins.op = "WithdrawNonceAccount"
  <2>. DEFINE moved == Move(accts, a, ins.at[2], ins.lamports)
  <2>1. /\ Authorized(accts, ins, 5) /\ accts[a].lamports >= ins.lamports
        /\ NoOverflow(accts[ins.at[2]], ins.lamports)
        /\ Process(accts, ins) = WithdrawNonce(accts, ins)
    BY <1>14 DEF ProcessOK, WithdrawNonceOK, Process, At
  <2>2. a \in DOMAIN tx.keys /\ ins.at[2] \in DOMAIN tx.keys /\ Free(tx, db, a)
    BY <1>2, <1>11, <2>1 DEF Authorized
  <2>3. AcctsOK(moved, db, tx)
    BY <1>1, <2>1, <2>2, MoveOK
  <2>4. AcctsOK([moved EXCEPT ![a] = [moved[a] EXCEPT !.nonce = NoNonce]], db, tx)
    <3>. HIDE DEF moved, a
    <3>. QED
      BY <2>2, <2>3, NonceOK
  <2>5. \/ Process(accts, ins) = moved
        \/ Process(accts, ins) = [moved EXCEPT ![a] = [moved[a] EXCEPT !.nonce = NoNonce]]
    BY <2>1 DEF WithdrawNonce
  <2>. QED
    BY <2>3, <2>4, <2>5
<1>. QED
  BY <1>4, <1>5, <1>6, <1>7, <1>8, <1>9, <1>10, <1>12, <1>13, <1>14 DEF ProcessOK
(* executeInstruction: whatever program an instruction is for, and whether *)
(* it fails or not.                                                        *)
LEMMA InstructionKeeps ==
    ASSUME NEW tx \in Txs, NEW db \in [Keys -> SoundAccounts], NEW st, StateOK(st, db, tx),
           NEW ins \in Range(tx.instructions)
    PROVE  StateOK(ExecuteInstruction(st, ins), db, tx)
<1>. DEFINE touched == {ins.at[n] : n \in DOMAIN ins.at}
            marked == st.modified \cup {i \in touched : st.accts[i].isWritable}
            new == ExecuteInstruction(st, ins)
<1>1. /\ st = [accts |-> st.accts, modified |-> st.modified, ok |-> st.ok]
      /\ AcctsOK(st.accts, db, tx) /\ DOMAIN st.accts = DOMAIN tx.keys
      /\ st.modified \subseteq {i \in DOMAIN tx.keys : IsAccountWritable(tx, i)}
  BY DEF StateOK, AcctsOK
<1>2. CASE new = st
  BY <1>2
<1>3. CASE new = [st EXCEPT !.ok = FALSE]
  BY <1>1, <1>3 DEF StateOK
<1>4. CASE touched \subseteq DOMAIN tx.keys
  <2>1. marked \subseteq {i \in DOMAIN tx.keys : IsAccountWritable(tx, i)}
    BY <1>1, <1>4 DEF AcctsOK, InfoOK
  <2>2. CASE /\ ins.program = System /\ ProcessOK(st.accts, ins)
             /\ new = [st EXCEPT !.accts = Process(@, ins), !.modified = marked]
    <3>1. SystemInstruction(tx, ins)
      BY <1>4, <2>2 DEF SystemInstruction
    <3>2. AcctsOK(Process(st.accts, ins), db, tx)
      BY <1>1, <2>2, <3>1, ProcessKeeps
    <3>3. /\ new.accts = Process(st.accts, ins) /\ new.modified = marked
          /\ new = [accts |-> new.accts, modified |-> new.modified, ok |-> new.ok]
      BY <1>1, <2>2
    <3>. QED
      BY <2>1, <3>2, <3>3 DEF StateOK
  <2>3. CASE new = [st EXCEPT !.modified = marked]
    <3>1. /\ new.accts = st.accts /\ new.modified = marked
          /\ new = [accts |-> new.accts, modified |-> new.modified, ok |-> new.ok]
      BY <1>1, <2>3
    <3>. QED
      BY <1>1, <2>1, <3>1 DEF StateOK
  <2>. QED
    BY <1>1, <1>2, <1>3, <1>4, <2>2, <2>3 DEF ExecuteInstruction
<1>5. CASE ~(touched \subseteq DOMAIN tx.keys)
  BY <1>1, <1>2, <1>3, <1>5 DEF ExecuteInstruction
<1>. QED
  BY <1>4, <1>5

(* loadAccounts: a transaction begins with the accounts of the database.   *)
LEMMA LoadOK ==
    ASSUME NEW tx \in Txs, disk \in [Keys -> SoundAccounts]
    PROVE  StateOK([accts |-> Load(tx), modified |-> {}, ok |-> TRUE], disk, tx)
<1>1. Load(tx) = [i \in DOMAIN tx.keys |-> Load(tx)[i]]
  BY DEF Load
<1>2. ASSUME NEW i \in DOMAIN tx.keys
      PROVE  Load(tx)[i] \in Infos /\ InfoOK(Load(tx)[i], i, disk, tx)
  <2>. DEFINE k == tx.keys[i]
              acc == Load(tx)[i]
  <2>1. k \in Keys /\ disk[k] \in Accounts /\ disk[k] \in SoundAccounts /\ disk[k].lamports \in Int
    BY DatabaseTypes
  <2>2. /\ acc.key = k /\ acc.lamports = disk[k].lamports /\ acc.space = disk[k].space
        /\ acc.nonce = disk[k].nonce /\ acc.owner = disk[k].owner
        /\ acc.isSigner = (i <= tx.signers) /\ acc.isWritable = IsAccountWritable(tx, i)
        /\ acc = [key |-> acc.key, lamports |-> acc.lamports, space |-> acc.space,
                  nonce |-> acc.nonce, owner |-> acc.owner,
                  isSigner |-> acc.isSigner, isWritable |-> acc.isWritable]
    BY DEF Load
  <2>3. IsAccountWritable(tx, i) \in BOOLEAN /\ (i <= tx.signers) \in BOOLEAN
    <3>1. i \in Int /\ Len(tx.keys) \in Int
      BY TxsAssumption, LenProperties
    <3>2. tx.signers \in Int /\ tx.roSigned \in Int /\ tx.roUnsigned \in Int
      BY TxsAssumption
    <3>3. \A x, y \in Int : (x <= y) \in BOOLEAN
      OBVIOUS
    <3>4. (i <= tx.signers) \in BOOLEAN
      BY <3>1, <3>2, <3>3
    <3>5. /\ (i <= tx.signers - tx.roSigned) \in BOOLEAN
          /\ (i <= Len(tx.keys) - tx.roUnsigned) \in BOOLEAN
      BY <3>1, <3>2, <3>3
    <3>6. \/ IsAccountWritable(tx, i) = (i <= tx.signers - tx.roSigned)
          \/ IsAccountWritable(tx, i) = (i <= Len(tx.keys) - tx.roUnsigned)
      BY DEF IsAccountWritable
    <3>. QED
      BY <3>4, <3>5, <3>6
  <2>. HIDE DEF acc, k
  <2>4. acc \in Infos
    BY <2>1, <2>2, <2>3 DEF Infos, Accounts
  <2>5. ~ (acc.lamports < disk[k].lamports)
    BY <2>1, <2>2
  <2>6. acc.nonce # NoNonce =>
           acc.space >= NonceSize /\ acc.nonce.auth \in NonceAuthorities(disk[k], k, tx)
    BY <2>1, <2>2 DEF SoundAccounts, NonceAuthorities, IsNonce
  <2>7. InfoOK(acc, i, disk, tx)
    BY <2>2, <2>5, <2>6 DEF InfoOK, k
  <2>. QED
    BY <2>4, <2>7 DEF acc
<1>3. AcctsOK(Load(tx), disk, tx)
  BY <1>1, <1>2 DEF AcctsOK
<1>. QED
  BY <1>3 DEF StateOK

(* So a transaction keeps it, however many instructions it has.            *)
LEMMA ExecutedOK ==
    ASSUME NEW tx \in Txs, disk \in [Keys -> SoundAccounts]
    PROVE  StateOK(Executed(tx), disk, tx)
<1>. DEFINE begin == [accts |-> Load(tx), modified |-> {}, ok |-> TRUE]
            s == tx.instructions
            after == Execution(begin, s)
            S == {n \in Nat : n <= Len(s) => StateOK(after[n], disk, tx)}
<1>1. s \in Seq(Range(s)) /\ Len(s) \in Nat /\ DOMAIN s = 1..Len(s)
  BY TxsAssumption, LenProperties
<1>2. /\ after[0] = begin
      /\ \A n \in 1..Len(s) : after[n] = ExecuteInstruction(after[n - 1], s[n])
  <2>. HIDE DEF begin, s
  <2>. QED
    BY <1>1, ExecutionUnfolds
<1>3. StateOK(begin, disk, tx)
  BY LoadOK
<1>4. Executed(tx) = after[Len(s)]
  BY DEF Executed
<1>. HIDE DEF begin, after
<1>5. 0 \in S
  BY <1>2, <1>3
<1>6. ASSUME NEW n \in Nat, n \in S PROVE n + 1 \in S
  <2>. SUFFICES ASSUME n + 1 <= Len(s) PROVE StateOK(after[n + 1], disk, tx)
    OBVIOUS
  <2>1. StateOK(after[n], disk, tx) /\ n + 1 \in 1..Len(s) /\ (n + 1) - 1 = n
    BY <1>1, <1>6
  <2>2. after[n + 1] = ExecuteInstruction(after[n], s[n + 1])
    BY <1>2, <2>1
  <2>3. s[n + 1] \in Range(tx.instructions)
    BY <1>1, <2>1 DEF Range
  <2>. QED
    BY <2>1, <2>2, <2>3, InstructionKeeps
<1>7. Len(s) \in S
  <2>. HIDE DEF S, s
  <2>. QED
    BY <1>1, <1>5, <1>6, Induction
<1>. QED
  BY <1>1, <1>4, <1>7
-----------------------------------------------------------------------------
(* The size of two sets without a common element.                          *)
LEMMA DisjointSize ==
    ASSUME NEW A, NEW B, IsFiniteSet(A), IsFiniteSet(B), A \cap B = {}
    PROVE  Cardinality(A \cup B) = Cardinality(A) + Cardinality(B)
<1>1. Cardinality(A \cup B) = Cardinality(A) + Cardinality(B) - Cardinality(A \cap B)
  BY FS_Union
<1>2. Cardinality(A \cap B) = 0
  BY FS_EmptySet
<1>3. Cardinality(A) \in Nat /\ Cardinality(B) \in Nat
  BY FS_CardinalityType
<1>4. \A a, b, c, d \in Int : a = b + c - d /\ d = 0 => a = b + c
  OBVIOUS
<1>5. Cardinality(A \cup B) \in Int
  <2>1. IsFiniteSet(A \cup B)
    BY FS_Union
  <2>. QED
    BY <2>1, FS_CardinalityType
<1>. QED
  BY <1>1, <1>2, <1>3, <1>4, <1>5

(* Counting what is created and what is deleted gives the number of what   *)
(* is there after, if it was right before; and always a value of the       *)
(* counter.                                                                *)
LEMMA CountedType ==
    ASSUME NEW c \in Nat, NEW before, before \subseteq Keys, NEW after, after \subseteq Keys
    PROVE  /\ Counted(c, before, after) \in 0..CountWrap - 1
           /\ c = Cardinality(before) => Counted(c, before, after) = Cardinality(after)
<1>. DEFINE both == before \cap after
            new == after \ before
            old == before \ after
<1>1. /\ IsFiniteSet(before) /\ IsFiniteSet(after)
      /\ IsFiniteSet(both) /\ IsFiniteSet(new) /\ IsFiniteSet(old)
  BY SizeAssumption, FS_Subset
<1>2. /\ Cardinality(before) \in Nat /\ Cardinality(after) \in Nat
      /\ Cardinality(both) \in Nat /\ Cardinality(new) \in Nat /\ Cardinality(old) \in Nat
  BY <1>1, FS_CardinalityType
<1>3. Cardinality(after) <= Cardinality(Keys) /\ Cardinality(Keys) \in Nat
  BY SizeAssumption, FS_Subset, FS_CardinalityType
<1>4. Cardinality(before) = Cardinality(both) + Cardinality(old)
  <2>1. both \cup old = before /\ both \cap old = {}
    OBVIOUS
  <2>. HIDE DEF both, old
  <2>2. Cardinality(both \cup old) = Cardinality(both) + Cardinality(old)
    BY <1>1, <2>1, DisjointSize
  <2>. QED
    BY <2>1, <2>2
<1>5. Cardinality(after) = Cardinality(both) + Cardinality(new)
  <2>1. both \cup new = after /\ both \cap new = {}
    OBVIOUS
  <2>. HIDE DEF both, new
  <2>2. Cardinality(both \cup new) = Cardinality(both) + Cardinality(new)
    BY <1>1, <2>1, DisjointSize
  <2>. QED
    BY <2>1, <2>2
<1>6. Counted(c, before, after) = (c + Cardinality(new) - Cardinality(old)) % CountWrap
  BY DEF Counted
<1>. HIDE DEF both, new, old
<1>7. CountWrap \in Nat \ {0} /\ Cardinality(after) < CountWrap
  BY <1>2, <1>3, DBAssumption, SizeAssumption
<1>8. (c + Cardinality(new) - Cardinality(old)) % CountWrap \in 0..CountWrap - 1
  BY <1>2, <1>7
<1>9. c = Cardinality(before) => c + Cardinality(new) - Cardinality(old) = Cardinality(after)
  BY <1>2, <1>4, <1>5
<1>10. Cardinality(after) % CountWrap = Cardinality(after)
  BY <1>2, <1>7
<1>. QED
  BY <1>6, <1>8, <1>9, <1>10

(* The account of a key that is not stored.                                *)
LEMMA EmptyIsSound == Empty \in SoundAccounts /\ IsZero(Empty)
  BY DBAssumption, SystemAssumption DEF Empty, SoundAccounts, Accounts, IsZero

(* Writing an account: a zero account is deleted, any other is stored.     *)
LEMMA WriteOK ==
    ASSUME NEW db \in [Keys -> SoundAccounts], NEW k \in Keys, NEW acc \in SoundAccounts
    PROVE  /\ Written(db, k, acc) \in [Keys -> SoundAccounts]
           /\ StoredIn(Written(db, k, acc)) =
                 IF IsZero(acc) THEN StoredIn(db) \ {k} ELSE StoredIn(db) \cup {k}
           /\ Written(db, k, acc)[k].lamports = acc.lamports
           /\ \A j \in Keys : j # k => Written(db, k, acc)[j] = db[j]
<1>1. Written(db, k, acc) \in [Keys -> SoundAccounts]
  BY EmptyIsSound DEF Written
<1>2. Written(db, k, acc)[k] = IF IsZero(acc) THEN Empty ELSE acc
  BY DEF Written
<1>3. \A j \in Keys : j # k => Written(db, k, acc)[j] = db[j]
  BY DEF Written
<1>4. IsZero(acc) <=> (IF IsZero(acc) THEN Empty ELSE acc) = Empty
  BY EmptyIsSound
<1>5. (IF IsZero(acc) THEN Empty ELSE acc).lamports = acc.lamports
  BY EmptyIsSound DEF IsZero
<1>. QED
  BY <1>1, <1>2, <1>3, <1>4, <1>5 DEF StoredIn

(* What is stored is a set of keys.                                        *)
LEMMA StoredKeys == Stored \subseteq Keys /\ Stored = StoredIn(disk) /\ \A db : StoredIn(db) \subseteq Keys
  BY DEF Stored, StoredIn

(* SetAccount, and a flush of accounts, keep the count exact.              *)
LEMMA SetAccountOK ==
    ASSUME DBTypes, NEW k \in Keys, NEW acc \in SoundAccounts,
           disk' = Written(disk, k, acc),
           \/ count' = Counted(count, Stored, IF IsZero(acc) THEN Stored \ {k} ELSE Stored \cup {k})
           \/ ~IsZero(acc) /\ count' = Counted(count, Stored, Stored \cup {k})
    PROVE  /\ disk' \in [Keys -> SoundAccounts] /\ count' \in 0..CountWrap - 1
           /\ count = Cardinality(Stored) => count' = Cardinality(Stored')
<1>1. /\ disk' \in [Keys -> SoundAccounts]
      /\ StoredIn(disk') = IF IsZero(acc) THEN Stored \ {k} ELSE Stored \cup {k}
  BY WriteOK, StoredKeys DEF DBTypes
<1>2. Stored' = StoredIn(disk')
  BY DEF Stored, StoredIn
<1>3. count' = Counted(count, Stored, Stored')
  BY <1>1, <1>2
<1>4. Stored \subseteq Keys /\ Stored' \subseteq Keys /\ count \in Nat
  BY DBAssumption DEF Stored, DBTypes
<1>. QED
  BY <1>1, <1>3, <1>4, CountedType

(* A batch that reaches the database counts what it stored.                *)
LEMMA FlushOK ==
    ASSUME DBTypes, NEW after \in [Keys -> SoundAccounts], disk' = after,
           count' = Counted(count, Stored, StoredIn(after))
    PROVE  /\ disk' \in [Keys -> SoundAccounts] /\ count' \in 0..CountWrap - 1
           /\ count = Cardinality(Stored) => count' = Cardinality(Stored')
<1>1. Stored' = StoredIn(after)
  BY DEF Stored, StoredIn
<1>2. Stored \subseteq Keys /\ Stored' \subseteq Keys /\ count \in Nat
  BY DBAssumption DEF Stored, DBTypes
<1>. QED
  BY <1>1, <1>2, CountedType
-----------------------------------------------------------------------------
(* What is left of a snapshot is read from its head.                       *)
LEMMA RestOfSnapshot ==
    ASSUME NEW src \in Sources, NEW n \in 0..Len(src.entries), NEW t,
           t = SubSeq(src.entries, n + 1, Len(src.entries)), t # <<>>
    PROVE  /\ Head(t).key \in Keys /\ Head(t).account \in SoundAccounts
           /\ \E m \in 0..Len(src.entries) : Tail(t) = SubSeq(src.entries, m + 1, Len(src.entries))
<1>. DEFINE E == [key : Keys, account : SoundAccounts]
            s == src.entries
<1>1. s \in Seq(E) /\ Len(s) \in Nat /\ n \in 0..Len(s)
  BY SourcesAssumption, LenProperties
<1>2. t = SubSeq(s, n + 1, Len(s)) /\ t # <<>>
  OBVIOUS
<1>3. SUFFICES /\ Head(t) \in E
               /\ \E m \in 0..Len(s) : Tail(t) = SubSeq(s, m + 1, Len(s))
  OBVIOUS
<1>. HIDE DEF E, s
<1>4. n + 1 \in 1..Len(s) /\ Len(s) \in (n + 1)..Len(s)
  <2>1. ~ (Len(s) < n + 1)
    BY <1>1, <1>2, SubSeqEmpty
  <2>. QED
    BY <1>1, <2>1
<1>5. Head(t) = s[n + 1] /\ Tail(t) = SubSeq(s, (n + 1) + 1, Len(s))
  BY <1>1, <1>2, <1>4, HeadTailOfSubSeq
<1>6. s[n + 1] \in E
  BY <1>1, <1>4, ElementOfSeq
<1>7. n + 1 \in 0..Len(s)
  BY <1>1, <1>4
<1>. QED
  BY <1>5, <1>6, <1>7

(* A batch is a part of the entries: loading all or none is a choice of    *)
(* one.                                                                    *)
LEMMA AllOrNothing ==
    ASSUME NEW src \in Sources
    PROVE  LET Rest(n) == SubSeq(src.entries, n + 1, Len(src.entries))
           IN /\ \E n \in 0..Len(src.entries) : <<>> = Rest(n)
              /\ \E n \in 0..Len(src.entries) : src.entries = Rest(n)
<1>. DEFINE s == src.entries
<1>1. s \in Seq([key : Keys, account : SoundAccounts]) /\ Len(s) \in Nat
  BY SourcesAssumption, LenProperties
<1>2. Len(s) \in 0..Len(s) /\ 0 \in 0..Len(s) /\ 0 + 1 = 1
  BY <1>1
<1>3. Len(s) \in Int /\ Len(s) + 1 \in Int /\ Len(s) < Len(s) + 1
  BY <1>1
<1>. HIDE DEF s
<1>4. SubSeq(s, Len(s) + 1, Len(s)) = <<>>
  BY <1>3, SubSeqEmpty
<1>5. SubSeq(s, 1, Len(s)) = s
  BY <1>1, SubSeqFull
<1>. QED
  BY <1>2, <1>4, <1>5 DEF s

(* The invariant holds at first: no accounts are stored.                   *)
LEMMA InvInit == Init => IInv
<1>. SUFFICES ASSUME Init PROVE IInv
  OBVIOUS
<1>1. DBTypes
  BY EmptyIsSound, DBAssumption DEF Init, DBInit, DBTypes
<1>2. LoadTypes
  <2>1. source \in Sources /\ Len(source.entries) \in Nat
    BY SourcesAssumption, LenProperties DEF Init
  <2>2. \E n \in 0..Len(source.entries) :
           <<>> = SubSeq(source.entries, n + 1, Len(source.entries))
    BY <2>1, AllOrNothing
  <2>4. batch = NoAccounts /\ DOMAIN NoAccounts = {} /\ batched \in 0..BatchSize
    BY ExecutorAssumption DEF Init, NoAccounts
  <2>5. todo = <<>>
    BY DEF Init
  <2>. QED
    BY <2>1, <2>2, <2>4, <2>5 DEF LoadTypes
<1>3. RunTypes
  <2>1. saves = NoAccounts /\ DOMAIN NoAccounts = {}
    BY DEF Init, NoAccounts
  <2>2. 0 \in 0..MaxFaults
    BY ExecutorAssumption
  <2>. QED
    BY <2>1, <2>2 DEF Init, RunTypes
<1>4. CountOK
  <2>1. Stored = {}
    BY DEF Stored, Init, DBInit
  <2>. QED
    BY <2>1, FS_EmptySet DEF CountOK, Init, DBInit
<1>5. SlotOK
  BY SourcesAssumption DEF SlotOK, Init, DBInit
<1>6. SavesOK
  BY DEF SavesOK, Init, NoAccounts
<1>. QED
  BY <1>1, <1>2, <1>3, <1>4, <1>5, <1>6 DEF IInv, Types

(* What remains of the types when the process ends.                        *)
LEMMA DownTypes ==
    ASSUME Types, GoDown, DBTypes', faults' \in 0..MaxFaults, loaded' \in BOOLEAN
    PROVE  Types'
<1>1. source' = source /\ source \in Sources
  BY DEF GoDown, Types, LoadTypes
<1>2. LoadTypes'
  <2>1. \E n \in 0..Len(source.entries) :
           <<>> = SubSeq(source.entries, n + 1, Len(source.entries))
    BY <1>1, AllOrNothing
  <2>2. batch' = NoAccounts /\ DOMAIN NoAccounts = {}
    BY DEF GoDown, NoAccounts
  <2>3. batched' \in 0..BatchSize
    BY ExecutorAssumption DEF GoDown
  <2>4. todo' = <<>>
    BY DEF GoDown
  <2>. QED
    BY <1>1, <2>1, <2>2, <2>3, <2>4 DEF LoadTypes
<1>3. RunTypes'
  <2>1. saves' = NoAccounts /\ DOMAIN NoAccounts = {}
    BY DEF GoDown, NoAccounts
  <2>2. lost' \in BOOLEAN
    BY DEF GoDown, Types, RunTypes
  <2>. QED
    BY <2>1, <2>2 DEF GoDown, RunTypes
<1>. QED
  BY <1>2, <1>3 DEF Types

(* A load that goes on: an entry of the snapshot is set, or put in a batch *)
(* that may be flushed.                                                    *)
LEMMA LoadTypesStep ==
    ASSUME Types, StreamAccount \/ StreamEnds \/ BatchAccount \/ NativeEnds
    PROVE  Types'
<1>. DEFINE after == [k \in Keys |-> IF k \in DOMAIN batch THEN batch[k] ELSE disk[k]]
<1>1. /\ source \in Sources /\ source' = source /\ faults' = faults
      /\ lost' = lost /\ cur' = cur /\ saves' = saves /\ mode = "load" /\ cur = NoTx
  BY DEF StreamAccount, StreamEnds, BatchAccount, NativeEnds, loadFrame, Types, LoadTypes, RunTypes
<1>2. PICK n \in 0..Len(source.entries) : todo = SubSeq(source.entries, n + 1, Len(source.entries))
  BY DEF Types, LoadTypes
<1>3. todo # <<>> =>
         /\ Head(todo).key \in Keys /\ Head(todo).account \in SoundAccounts
         /\ \E m \in 0..Len(source.entries) :
               Tail(todo) = SubSeq(source.entries, m + 1, Len(source.entries))
  BY <1>1, <1>2, RestOfSnapshot
<1>4. /\ BatchSize \in Nat \ {0} /\ batched \in 0..BatchSize /\ 0 \in 0..BatchSize
      /\ ~(batched + 1 >= BatchSize) => batched + 1 \in 0..BatchSize
  BY ExecutorAssumption DEF Types, LoadTypes
<1>5. RunTypes'
  <2>1. mode' \in {"load", "run", "closing"} /\ loaded' \in BOOLEAN
    BY <1>1 DEF StreamAccount, StreamEnds, BatchAccount, NativeEnds, Types, RunTypes
  <2>. QED
    BY <1>1, <2>1 DEF Types, RunTypes
<1>6. CASE StreamAccount
  <2>1. DBTypes'
    <3>1. CASE IsZero(Head(todo).account)
      BY <1>6, <3>1 DEF StreamAccount, dbVars, Types, DBTypes
    <3>2. CASE ~IsZero(Head(todo).account)
      <4>1. /\ disk' = Written(disk, Head(todo).key, Head(todo).account)
            /\ \/ count' = Counted(count, Stored, Stored \cup {Head(todo).key})
               \/ SetAccount(Head(todo).key, Head(todo).account)
            /\ \/ metaSlot' = slot /\ metaCount' = count' /\ slot' = slot
               \/ UNCHANGED <<metaSlot, metaCount, slot>>
        BY <1>6, <3>2 DEF StreamAccount, SetAccount
      <4>2. disk' \in [Keys -> SoundAccounts] /\ count' \in 0..CountWrap - 1
        BY <1>3, <1>6, <3>2, <4>1, SetAccountOK DEF StreamAccount, SetAccount, Types
      <4>. QED
        BY <4>1, <4>2 DEF Types, DBTypes
    <3>. QED
      BY <3>1, <3>2
  <2>2. LoadTypes'
    <3>1. batched' \in 0..BatchSize
      BY <1>4, <1>6 DEF StreamAccount
    <3>2. batch' = batch /\ todo' = Tail(todo) /\ todo # <<>>
      BY <1>6 DEF StreamAccount
    <3>. QED
      BY <1>1, <1>3, <3>1, <3>2 DEF Types, LoadTypes
  <2>. QED
    BY <1>5, <2>1, <2>2 DEF Types
<1>7. CASE StreamEnds
  <2>1. DBTypes'
    BY <1>1, <1>7, SourcesAssumption DEF StreamEnds, Types, DBTypes
  <2>2. LoadTypes'
    BY <1>1, <1>4, <1>7 DEF StreamEnds, Types, LoadTypes
  <2>. QED
    BY <1>5, <2>1, <2>2 DEF Types
<1>8. CASE BatchAccount
  <2>. DEFINE more == [k \in DOMAIN batch \cup {Head(todo).key} |->
                          IF k = Head(todo).key THEN Head(todo).account ELSE batch[k]]
              flushed == [k \in Keys |-> IF k \in DOMAIN more
                                         THEN Written(disk, k, more[k])[k] ELSE disk[k]]
  <2>1. /\ todo # <<>> /\ todo' = Tail(todo)
        /\ \/ Flush(more) /\ batch' = NoAccounts /\ batched' = 0
           \/ UNCHANGED dbVars /\ batch' = more /\ batched' = batched + 1 /\ ~(batched + 1 >= BatchSize)
    BY <1>8 DEF BatchAccount
  <2>2. DOMAIN more \subseteq Keys /\ \A k \in DOMAIN more : more[k] \in SoundAccounts
    BY <1>3, <2>1 DEF Types, LoadTypes
  <2>3. flushed \in [Keys -> SoundAccounts]
    <3>. HIDE DEF more
    <3>1. \A k \in DOMAIN more : Written(disk, k, more[k]) \in [Keys -> SoundAccounts]
      BY <2>2, WriteOK DEF Types, DBTypes
    <3>. QED
      BY <2>2, <3>1 DEF Types, DBTypes
  <2>4. DBTypes'
    <3>1. CASE UNCHANGED dbVars
      BY <3>1 DEF dbVars, Types, DBTypes
    <3>2. CASE Flush(more)
      <4>. HIDE DEF more
      <4>1. /\ disk' = flushed /\ count' = Counted(count, Stored, StoredIn(flushed))
            /\ UNCHANGED <<metaSlot, metaCount, slot>>
        BY <3>2 DEF Flush
      <4>. HIDE DEF flushed
      <4>2. disk' \in [Keys -> SoundAccounts] /\ count' \in 0..CountWrap - 1
        BY <2>3, <4>1, FlushOK DEF Types
      <4>. QED
        BY <4>1, <4>2 DEF Types, DBTypes
    <3>. QED
      BY <2>1, <3>1, <3>2
  <2>5. LoadTypes'
    <3>1. DOMAIN batch' \subseteq Keys /\ \A k \in DOMAIN batch' : batch'[k] \in SoundAccounts
      <4>1. DOMAIN NoAccounts = {}
        BY DEF NoAccounts
      <4>. HIDE DEF more
      <4>. QED
        BY <2>1, <2>2, <4>1
    <3>2. batched' \in 0..BatchSize
      BY <1>4, <2>1
    <3>. QED
      BY <1>1, <1>3, <2>1, <3>1, <3>2 DEF LoadTypes
  <2>. QED
    BY <1>5, <2>4, <2>5 DEF Types
<1>9. CASE NativeEnds
  <2>1. after \in [Keys -> SoundAccounts]
    BY DEF Types, DBTypes, LoadTypes
  <2>2. /\ disk' = after /\ count' = Counted(count, Stored, StoredIn(after))
        /\ slot' = source.slot /\ UNCHANGED <<metaSlot, metaCount, todo>>
        /\ batch' = NoAccounts /\ batched' = 0
    BY <1>9 DEF NativeEnds
  <2>. HIDE DEF after
  <2>3. disk' \in [Keys -> SoundAccounts] /\ count' \in 0..CountWrap - 1
    BY <2>1, <2>2, FlushOK DEF Types
  <2>4. DBTypes'
    BY <1>1, <2>2, <2>3, SourcesAssumption DEF Types, DBTypes
  <2>5. LoadTypes'
    BY <1>1, <1>4, <2>2 DEF Types, LoadTypes, NoAccounts
  <2>. QED
    BY <1>5, <2>4, <2>5 DEF Types
<1>. QED
  BY <1>6, <1>7, <1>8, <1>9

(* What is saved is what the executor has computed: accounts that are      *)
(* writable, and have lost lamports only with an authorization.            *)
LEMMA ExecutePrepares ==
    ASSUME Types, NEW tx \in Txs, Execute(tx)
    PROVE  /\ cur' = tx
           /\ DOMAIN saves' \subseteq DOMAIN tx.keys
           /\ \A i \in DOMAIN saves' :
                 LET k == tx.keys[i] IN
                 /\ saves'[i] \in SoundAccounts
                 /\ IsAccountWritable(tx, i)
                 /\ saves'[i].lamports < disk[k].lamports => Authorizes(tx, k, disk[k])
<1>. DEFINE st == Executed(tx)
<1>1. StateOK(st, disk, tx)
  BY ExecutedOK DEF Types, DBTypes
<1>2. cur' = tx /\ saves' = [i \in st.modified |-> AccountOf(st.accts[i])]
  BY DEF Execute
<1>. HIDE DEF st
<1>3. st.modified \subseteq {i \in DOMAIN tx.keys : IsAccountWritable(tx, i)}
  BY <1>1 DEF StateOK
<1>4. ASSUME NEW i \in st.modified
      PROVE  LET k == tx.keys[i] IN
             /\ AccountOf(st.accts[i]) \in SoundAccounts
             /\ AccountOf(st.accts[i]).lamports < disk[k].lamports => Authorizes(tx, k, disk[k])
  <2>1. st.accts[i] \in Infos /\ InfoOK(st.accts[i], i, disk, tx)
    BY <1>1, <1>3 DEF StateOK, AcctsOK
  <2>2. AccountOf(st.accts[i]) \in Accounts
    BY <2>1 DEF AccountOf, Accounts, Infos
  <2>. QED
    BY <2>1, <2>2 DEF InfoOK, AccountOf, SoundAccounts
<1>. QED
  BY <1>2, <1>3, <1>4

(* Saving an account sets it, and leaves the others to be saved.           *)
LEMMA SaveSets ==
    ASSUME Types, Save
    PROVE  \E i \in DOMAIN saves :
              /\ i \in DOMAIN cur.keys /\ cur.keys[i] \in Keys /\ saves[i] \in SoundAccounts
              /\ cur \in Txs
              /\ SetAccount(cur.keys[i], saves[i])
              /\ \/ mode' = "run" /\ cur' = NoTx /\ saves' = NoAccounts
                 \/ /\ saves' = [j \in DOMAIN saves \ {i} |-> saves[j]]
                    /\ UNCHANGED <<mode, cur>>
<1>1. PICK i \in DOMAIN saves :
         /\ SetAccount(cur.keys[i], saves[i])
         /\ \/ mode' = "run" /\ cur' = NoTx /\ saves' = NoAccounts
            \/ /\ saves' = [j \in DOMAIN saves \ {i} |-> saves[j]]
               /\ UNCHANGED <<mode, cur>>
  BY DEF Save
<1>2. cur \in Txs /\ i \in DOMAIN cur.keys /\ saves[i] \in SoundAccounts
  BY DEF Save, Types, RunTypes
<1>3. cur.keys[i] \in Keys
  BY <1>2, TxsAssumption, ElementOfSeq, LenProperties
<1>. QED
  BY <1>1, <1>2, <1>3

(* The other steps keep the types.                                         *)
LEMMA TypesStep == Types /\ [Next]_vars => Types'
<1>. SUFFICES ASSUME Types, [Next]_vars PROVE Types'
  OBVIOUS
<1>1. /\ faults < MaxFaults => faults + 1 \in 0..MaxFaults
      /\ slot + 1 \in Nat
  BY ExecutorAssumption DEF Types, RunTypes, DBTypes
<1>2. CASE Start
  <2>1. \E n \in 0..Len(source.entries) :
           source.entries = SubSeq(source.entries, n + 1, Len(source.entries))
    BY AllOrNothing DEF Types, LoadTypes
  <2>2. LoadTypes'
    BY <1>2, <2>1 DEF Start, Types, LoadTypes
  <2>3. DBTypes' /\ RunTypes'
    BY <1>2 DEF Start, LoadMetadata, Types, DBTypes, RunTypes
  <2>. QED
    BY <2>2, <2>3 DEF Types
<1>3. CASE Crash \/ LoadFails \/ CloseStorage \/ Stop
  <2>1. DBTypes'
    BY <1>3 DEF Crash, LoadFails, CloseStorage, Stop, Closed, CloseDB, Commit, dbVars, Types, DBTypes
  <2>2. GoDown /\ faults' \in 0..MaxFaults /\ loaded' \in BOOLEAN
    BY <1>1, <1>3 DEF Crash, LoadFails, CloseStorage, Stop, Types, RunTypes
  <2>. QED
    BY <2>1, <2>2, DownTypes
<1>4. CASE StreamAccount \/ StreamEnds \/ BatchAccount \/ NativeEnds
  BY <1>4, LoadTypesStep
<1>5. ASSUME NEW tx \in Txs, Execute(tx) PROVE Types'
  <2>1. DBTypes' /\ LoadTypes'
    BY <1>5 DEF Execute, dbVars, execFrame, Types, DBTypes, LoadTypes
  <2>2. RunTypes'
    <3>1. mode' = "save" /\ cur' \in Txs
      BY <1>5 DEF Execute
    <3>2. DOMAIN saves' \subseteq DOMAIN cur'.keys /\ \A i \in DOMAIN saves' : saves'[i] \in SoundAccounts
      BY <1>5, ExecutePrepares
    <3>3. UNCHANGED <<faults, loaded, lost>>
      BY <1>5 DEF Execute, execFrame
    <3>. QED
      BY <3>1, <3>2, <3>3 DEF Types, RunTypes
  <2>. QED
    BY <2>1, <2>2 DEF Types
<1>6. CASE Save
  <2>1. PICK i \in DOMAIN saves :
           /\ i \in DOMAIN cur.keys /\ cur.keys[i] \in Keys /\ saves[i] \in SoundAccounts
           /\ SetAccount(cur.keys[i], saves[i])
           /\ \/ mode' = "run" /\ cur' = NoTx /\ saves' = NoAccounts
              \/ /\ saves' = [j \in DOMAIN saves \ {i} |-> saves[j]]
                 /\ UNCHANGED <<mode, cur>>
    BY <1>6, SaveSets
  <2>2. disk' \in [Keys -> SoundAccounts] /\ count' \in 0..CountWrap - 1
    BY <2>1, SetAccountOK DEF SetAccount, Types
  <2>3. DBTypes'
    BY <2>1, <2>2 DEF SetAccount, Types, DBTypes
  <2>4. LoadTypes'
    BY <1>6 DEF Save, execFrame, Types, LoadTypes
  <2>5. RunTypes'
    <3>1. UNCHANGED <<faults, loaded, lost>> /\ mode = "save"
      BY <1>6 DEF Save, execFrame
    <3>. QED
      BY <2>1, <3>1 DEF Types, RunTypes, NoAccounts
  <2>. QED
    BY <2>3, <2>4, <2>5 DEF Types
<1>7. CASE SaveFails
  <2>1. DBTypes' /\ LoadTypes'
    BY <1>7 DEF SaveFails, dbVars, execFrame, Types, DBTypes, LoadTypes
  <2>2. RunTypes'
    BY <1>1, <1>7 DEF SaveFails, execFrame, NoAccounts, Types, RunTypes
  <2>. QED
    BY <2>1, <2>2 DEF Types
<1>8. CASE EndSlot \/ CommitFails
  <2>1. DBTypes'
    BY <1>1, <1>8 DEF EndSlot, CommitFails, CommitSlot, SetSlot, Types, DBTypes
  <2>2. LoadTypes' /\ RunTypes'
    BY <1>1, <1>8 DEF EndSlot, CommitFails, execFrame, Types, LoadTypes, RunTypes
  <2>. QED
    BY <2>1, <2>2 DEF Types
<1>9. CASE UNCHANGED vars
  BY <1>9 DEF vars, dbVars, Types, DBTypes, LoadTypes, RunTypes
<1>. QED
  BY <1>2, <1>3, <1>4, <1>5, <1>6, <1>7, <1>8, <1>9 DEF Next

(* The count stays exact, on the disk too when it is there that it is kept. *)
LEMMA CountStep == Types /\ CountOK /\ [Next]_vars => CountOK'
<1>. SUFFICES ASSUME Types, CountOK, [Next]_vars PROVE CountOK'
  OBVIOUS
<1>1. disk' = disk => Stored' = Stored
  BY DEF Stored
<1>2. CASE Start
  BY <1>1, <1>2 DEF Start, LoadMetadata, CountOK, Types, RunTypes
<1>3. CASE Crash \/ LoadFails \/ CloseStorage \/ Stop
  <2>1. mode # "down" /\ disk' = disk /\ count' = count /\ GoDown
    BY <1>3 DEF Crash, LoadFails, CloseStorage, Stop, Closed, CloseDB, Commit, dbVars
  <2>. QED
    BY <1>1, <2>1 DEF GoDown, CountOK
<1>4. CASE StreamAccount
  <2>1. /\ mode = "load" /\ mode' = mode /\ lost' = lost /\ todo # <<>>
        /\ Head(todo).key \in Keys /\ Head(todo).account \in SoundAccounts
    BY <1>4, RestOfSnapshot DEF StreamAccount, loadFrame, Types, LoadTypes
  <2>2. CASE IsZero(Head(todo).account)
    BY <1>1, <1>4, <2>1, <2>2 DEF StreamAccount, dbVars, CountOK
  <2>3. CASE ~IsZero(Head(todo).account)
    <3>1. /\ disk' = Written(disk, Head(todo).key, Head(todo).account)
          /\ \/ count' = Counted(count, Stored, Stored \cup {Head(todo).key})
             \/ SetAccount(Head(todo).key, Head(todo).account)
      BY <1>4, <2>3 DEF StreamAccount, SetAccount
    <3>2. count = Cardinality(Stored) => count' = Cardinality(Stored')
      BY <2>1, <2>3, <3>1, SetAccountOK DEF SetAccount, Types
    <3>. QED
      BY <2>1, <3>2 DEF CountOK
  <2>. QED
    BY <2>2, <2>3
<1>5. CASE BatchAccount
  <2>. DEFINE more == [k \in DOMAIN batch \cup {Head(todo).key} |->
                          IF k = Head(todo).key THEN Head(todo).account ELSE batch[k]]
              flushed == [k \in Keys |-> IF k \in DOMAIN more
                                         THEN Written(disk, k, more[k])[k] ELSE disk[k]]
  <2>1. /\ mode = "load" /\ mode' = mode /\ lost' = lost
        /\ Flush(more) \/ UNCHANGED dbVars
    BY <1>5 DEF BatchAccount, loadFrame
  <2>2. CASE UNCHANGED dbVars
    BY <1>1, <2>1, <2>2 DEF dbVars, CountOK
  <2>3. CASE Flush(more)
    <3>. HIDE DEF more
    <3>1. disk' = flushed /\ count' = Counted(count, Stored, StoredIn(flushed))
      BY <2>3 DEF Flush
    <3>2. flushed \in [Keys -> SoundAccounts]
      <4>1. Types'
        BY <1>5, LoadTypesStep
      <4>. QED
        BY <3>1, <4>1 DEF Types, DBTypes
    <3>. HIDE DEF flushed
    <3>3. count = Cardinality(Stored) => count' = Cardinality(Stored')
      BY <3>1, <3>2, FlushOK DEF Types
    <3>. QED
      BY <2>1, <3>3 DEF CountOK
  <2>. QED
    BY <2>1, <2>2, <2>3
<1>6. CASE NativeEnds
  <2>. DEFINE after == [k \in Keys |-> IF k \in DOMAIN batch THEN batch[k] ELSE disk[k]]
  <2>1. /\ disk' = after /\ count' = Counted(count, Stored, StoredIn(after))
        /\ mode = "load" /\ mode' # "down" /\ lost' = lost
    BY <1>6 DEF NativeEnds, loadFrame
  <2>2. after \in [Keys -> SoundAccounts]
    BY DEF Types, DBTypes, LoadTypes
  <2>. HIDE DEF after
  <2>3. count = Cardinality(Stored) => count' = Cardinality(Stored')
    BY <2>1, <2>2, FlushOK DEF Types
  <2>. QED
    BY <2>1, <2>3 DEF CountOK
<1>7. CASE Save
  <2>1. mode = "save" /\ lost' = lost /\ mode' # "down"
    BY <1>7 DEF Save, execFrame
  <2>2. PICK i \in DOMAIN saves :
           /\ cur.keys[i] \in Keys /\ saves[i] \in SoundAccounts
           /\ SetAccount(cur.keys[i], saves[i])
    BY <1>7, SaveSets
  <2>3. count = Cardinality(Stored) => count' = Cardinality(Stored')
    BY <2>2, SetAccountOK DEF SetAccount, Types
  <2>. QED
    BY <2>1, <2>3 DEF CountOK
<1>8. CASE StreamEnds \/ SaveFails \/ EndSlot \/ CommitFails \/ (\E tx \in Txs : Execute(tx))
  <2>1. disk' = disk /\ count' = count /\ lost' = lost /\ mode # "down" /\ mode' # "down"
    BY <1>8 DEF StreamEnds, loadFrame, SaveFails, EndSlot, CommitFails, CommitSlot, SetSlot,
                Execute, execFrame, dbVars
  <2>. QED
    BY <1>1, <2>1 DEF CountOK
<1>9. CASE UNCHANGED vars
  BY <1>1, <1>9 DEF vars, dbVars, CountOK
<1>. QED
  BY <1>2, <1>3, <1>4, <1>5, <1>6, <1>7, <1>8, <1>9 DEF Next

(* The slot stays below the snapshot's until its load completes.           *)
LEMMA SlotStep == Types /\ SlotOK /\ [Next]_vars => SlotOK'
<1>. SUFFICES ASSUME Types, SlotOK, [Next]_vars PROVE SlotOK'
  OBVIOUS
<1>. SUFFICES ASSUME source'.slot > 0, ~loaded'
              PROVE  /\ metaSlot' < source'.slot
                     /\ mode' \in {"down", "load", "closing"}
                     /\ mode' = "load" => slot' = metaSlot'
  BY DEF SlotOK
<1>1. /\ source' = source /\ source \in Sources /\ source.kind # "none"
      /\ loaded \in BOOLEAN /\ (loaded => loaded')
  <2>1. source' = source /\ (loaded => loaded')
    <3>1. CASE Start \/ UNCHANGED vars
      BY <3>1 DEF Start, vars
    <3>2. CASE Crash \/ Stop \/ LoadFails \/ CloseStorage
      BY <3>2 DEF Crash, Stop, LoadFails, CloseStorage, GoDown
    <3>3. CASE StreamAccount \/ StreamEnds \/ BatchAccount
      BY <3>3 DEF StreamAccount, StreamEnds, BatchAccount, loadFrame
    <3>4. CASE NativeEnds
      <4>1. source' = source
        BY <3>4 DEF NativeEnds, loadFrame
      <4>2. loaded => loaded'
        BY <3>4, Zenon DEF NativeEnds
      <4>. QED
        BY <4>1, <4>2
    <3>5. CASE Save \/ SaveFails \/ EndSlot \/ CommitFails \/ \E tx \in Txs : Execute(tx)
      BY <3>5 DEF Save, SaveFails, EndSlot, CommitFails, Execute, execFrame
    <3>. QED
      BY <3>1, <3>2, <3>3, <3>4, <3>5 DEF Next
  <2>2. source \in Sources /\ loaded \in BOOLEAN
    BY DEF Types, LoadTypes, RunTypes
  <2>3. source.kind = "none" => source.slot = 0
    BY <2>2, SourcesAssumption, Zenon
  <2>. QED
    BY <2>1, <2>2, <2>3
<1>2. /\ metaSlot < source.slot /\ mode \in {"down", "load", "closing"}
      /\ mode = "load" => slot = metaSlot
  BY <1>1 DEF SlotOK
<1>3. CASE Start
  BY <1>1, <1>2, <1>3 DEF Start, LoadMetadata
<1>4. CASE Crash \/ LoadFails \/ CloseStorage
  BY <1>1, <1>2, <1>4 DEF Crash, LoadFails, CloseStorage, Closed, CloseDB, dbVars, GoDown
<1>5. CASE StreamAccount
  BY <1>1, <1>2, <1>5 DEF StreamAccount, SetAccount, dbVars
<1>6. CASE BatchAccount
  BY <1>1, <1>2, <1>6 DEF BatchAccount, Flush, dbVars
<1>7. CASE NativeEnds
  BY <1>1, <1>2, <1>7 DEF NativeEnds
<1>8. CASE StreamEnds
  BY <1>8 DEF StreamEnds
<1>9. CASE UNCHANGED vars
  BY <1>1, <1>2, <1>9 DEF vars, dbVars
<1>10. ~ (Stop \/ Save \/ SaveFails \/ EndSlot \/ CommitFails \/ \E tx \in Txs : Execute(tx))
  BY <1>2 DEF Stop, Save, SaveFails, EndSlot, CommitFails, Execute
<1>. QED
  BY <1>3, <1>4, <1>5, <1>6, <1>7, <1>8, <1>9, <1>10 DEF Next

(* Nor does saving one account of a transaction make saving another wrong. *)
LEMMA SavesStep == Types /\ SavesOK /\ [Next]_vars => SavesOK'
<1>. SUFFICES ASSUME Types, SavesOK, [Next]_vars PROVE SavesOK'
  OBVIOUS
<1>1. CASE DOMAIN saves' = {}
  BY <1>1 DEF SavesOK
<1>2. CASE UNCHANGED <<saves, cur, disk>>
  BY <1>2 DEF SavesOK
<1>3. CASE \E tx \in Txs : Execute(tx)
  <2>1. PICK tx \in Txs : Execute(tx)
    BY <1>3
  <2>2. disk' = disk
    BY <2>1 DEF Execute, dbVars
  <2>. QED
    BY <2>1, <2>2, ExecutePrepares DEF SavesOK
<1>4. CASE Save
  <2>1. PICK i \in DOMAIN saves :
           /\ i \in DOMAIN cur.keys /\ cur.keys[i] \in Keys /\ saves[i] \in SoundAccounts
           /\ cur \in Txs
           /\ SetAccount(cur.keys[i], saves[i])
           /\ \/ mode' = "run" /\ cur' = NoTx /\ saves' = NoAccounts
              \/ /\ saves' = [j \in DOMAIN saves \ {i} |-> saves[j]]
                 /\ UNCHANGED <<mode, cur>>
    BY <1>4, SaveSets
  <2>2. CASE saves' = NoAccounts
    BY <1>1, <2>2 DEF NoAccounts
  <2>3. CASE saves' = [j \in DOMAIN saves \ {i} |-> saves[j]] /\ cur' = cur
    <3>1. ASSUME NEW j \in DOMAIN saves \ {i}
          PROVE  disk'[cur.keys[j]] = disk[cur.keys[j]]
      <4>1. j \in DOMAIN cur.keys /\ j # i /\ cur.keys[j] \in Keys
        <5>1. j \in DOMAIN cur.keys
          BY DEF Types, RunTypes
        <5>. QED
          BY <2>1, <3>1, <5>1, DatabaseTypes DEF Types, DBTypes
      <4>2. cur.keys[j] # cur.keys[i]
        BY <2>1, <4>1, TxsAssumption DEF IsInjective
      <4>. QED
        BY <2>1, <4>1, <4>2, WriteOK DEF SetAccount, Types, DBTypes
    <3>. QED
      BY <2>3, <3>1 DEF SavesOK
  <2>. QED
    BY <2>1, <2>2, <2>3
<1>5. CASE ~Save /\ ~(\E tx \in Txs : Execute(tx))
  <2>1. mode = "load" => DOMAIN saves = {}
    <3>1. DOMAIN NoTx.keys = {}
      BY DEF NoTx
    <3>. QED
      BY <3>1 DEF Types, RunTypes
  <2>2. CASE StreamAccount \/ StreamEnds \/ BatchAccount \/ NativeEnds
    <3>1. mode = "load" /\ saves' = saves
      BY <2>2 DEF StreamAccount, StreamEnds, BatchAccount, NativeEnds, loadFrame
    <3>. QED
      BY <1>1, <2>1, <3>1
  <2>3. CASE Crash \/ Stop \/ LoadFails \/ CloseStorage \/ SaveFails
    <3>1. saves' = NoAccounts
      BY <2>3 DEF Crash, Stop, LoadFails, CloseStorage, GoDown, SaveFails
    <3>. QED
      BY <1>1, <3>1 DEF NoAccounts
  <2>4. CASE Start \/ EndSlot \/ CommitFails \/ UNCHANGED vars
    BY <1>2, <2>4 DEF Start, LoadMetadata, EndSlot, CommitSlot, CommitFails, SetSlot,
                      execFrame, vars, dbVars, SavesOK
  <2>. QED
    BY <1>5, <2>2, <2>3, <2>4 DEF Next
<1>. QED
  BY <1>3, <1>4, <1>5

(* The invariant holds in every reachable state.                           *)
LEMMA InvHolds == Spec => []IInv
<1>1. IInv /\ [Next]_vars => IInv'
  BY TypesStep, CountStep, SlotStep, SavesStep DEF IInv
<1>. QED
  BY <1>1, InvInit, PTL DEF Spec

-----------------------------------------------------------------------------
(* Balances stay below 2^64 and counts below theirs, with every            *)
(* transaction, snapshot and fault.                                        *)
THEOREM TypeCorrect == Spec => []TypeOK
<1>1. IInv => TypeOK
  <2>. SUFFICES ASSUME IInv PROVE TypeOK
    OBVIOUS
  <2>1. SoundAccounts \subseteq Accounts
    BY DEF SoundAccounts
  <2>2. DBTypeOK
    BY <2>1 DEF IInv, Types, DBTypes, DBTypeOK
  <2>3. cur \in Txs \cup {NoTx}
    BY DEF IInv, Types, RunTypes
  <2>. QED
    BY <2>1, <2>2, <2>3 DEF IInv, Types, LoadTypes, RunTypes, TypeOK
<1>. QED
  BY <1>1, InvHolds, PTL

(* The account count of store.go is exact until an uncommitted one is lost. *)
THEOREM CountCorrect == Spec => []CountExact
<1>1. IInv => CountExact
  BY DEF IInv, CountOK, CountExact
<1>. QED
  BY <1>1, InvHolds, PTL

(* What node.go's start takes for a loaded snapshot has been loaded.       *)
THEOREM SlotIsLoaded == Spec => []SlotMeansLoaded
<1>1. IInv => SlotMeansLoaded
  <2>. SUFFICES ASSUME IInv, source.slot > 0, metaSlot >= source.slot PROVE loaded
    BY DEF SlotMeansLoaded
  <2>1. source.slot \in Int /\ metaSlot \in Int /\ loaded \in BOOLEAN
    <3>1. source \in Sources /\ metaSlot \in Nat /\ loaded \in BOOLEAN
      BY DEF IInv, Types, DBTypes, LoadTypes, RunTypes
    <3>2. source.slot \in Nat
      BY <3>1, SourcesAssumption, Zenon
    <3>. QED
      BY <3>1, <3>2
  <2>2. ~loaded => metaSlot < source.slot
    BY DEF IInv, SlotOK
  <2>. QED
    BY <2>1, <2>2
<1>. QED
  BY <1>1, InvHolds, PTL

(* BadgerDB.LoadSnapshot succeeds with the accounts of the snapshot only.  *)
THEOREM NativeLoadIsExact == Spec => NativeLoadExact
<1>1. [Next]_vars => [(mode = "load" /\ mode' = "run" /\ source.kind = "native") =>
                         disk' = Hashed(source)]_vars
  <2>. SUFFICES ASSUME [Next]_vars, mode = "load", mode' = "run", source.kind = "native"
                PROVE  disk' = Hashed(source)
    OBVIOUS
  <2>1. CASE NativeEnds
    <3>. DEFINE after == [k \in Keys |-> IF k \in DOMAIN batch THEN batch[k] ELSE disk[k]]
    <3>1. disk' = after /\ mode' = (IF after = Hashed(source) THEN "run" ELSE "closing")
      BY <2>1 DEF NativeEnds
    <3>. QED
      BY <3>1
  <2>2. ~ (Start \/ Crash \/ Stop \/ LoadFails \/ CloseStorage \/ StreamAccount \/ StreamEnds)
    BY DEF Start, Crash, Stop, LoadFails, CloseStorage, GoDown, StreamAccount, StreamEnds
  <2>3. ~ (BatchAccount \/ UNCHANGED vars)
    BY DEF BatchAccount, vars
  <2>4. ~ (Save \/ SaveFails \/ EndSlot \/ CommitFails \/ \E tx \in Txs : Execute(tx))
    BY DEF Save, SaveFails, EndSlot, CommitFails, Execute
  <2>. QED
    BY <2>1, <2>2, <2>3, <2>4 DEF Next
<1>. QED
  BY <1>1, PTL DEF Spec, NativeLoadExact

(* The change that saving the i-th account of a transaction makes.         *)
LEMMA SaveChanges ==
    ASSUME IInv, [Next]_vars, mode \in {"run", "save"}, NEW k \in Keys, disk'[k] # disk[k]
    PROVE  /\ mode = "save" /\ k \in WritableOf(cur)
           /\ disk'[k].lamports < disk[k].lamports => Authorizes(cur, k, disk[k])
<1>1. Save
  <2>1. ~ (Start \/ LoadFails \/ CloseStorage \/ StreamAccount \/ StreamEnds \/ BatchAccount \/ NativeEnds)
    BY DEF Start, LoadFails, CloseStorage, StreamAccount, StreamEnds, BatchAccount, NativeEnds
  <2>2. ~ (Crash \/ Stop \/ SaveFails \/ EndSlot \/ CommitFails \/ UNCHANGED vars)
    BY DEF Crash, Stop, Commit, SaveFails, EndSlot, CommitSlot, CommitFails, SetSlot, vars, dbVars
  <2>3. ~ \E tx \in Txs : Execute(tx)
    BY DEF Execute, dbVars
  <2>. QED
    BY <2>1, <2>2, <2>3 DEF Next
<1>2. PICK i \in DOMAIN saves :
         /\ i \in DOMAIN cur.keys /\ cur.keys[i] \in Keys /\ saves[i] \in SoundAccounts
         /\ SetAccount(cur.keys[i], saves[i])
  BY <1>1, SaveSets DEF IInv
<1>3. /\ disk'[cur.keys[i]].lamports = saves[i].lamports
      /\ \A j \in Keys : j # cur.keys[i] => disk'[j] = disk[j]
  BY <1>2, WriteOK DEF SetAccount, IInv, Types, DBTypes
<1>4. k = cur.keys[i]
  BY <1>3
<1>5. /\ IsAccountWritable(cur, i)
      /\ saves[i].lamports < disk[k].lamports => Authorizes(cur, k, disk[k])
  BY <1>4 DEF IInv, SavesOK
<1>6. mode = "save"
  BY <1>1 DEF Save
<1>. QED
  BY <1>2, <1>3, <1>4, <1>5, <1>6 DEF WritableOf

(* Replay changes an account only to save a transaction that declares it   *)
(* writable.                                                               *)
THEOREM WritesAreDeclared == Spec => OnlyWritableChange
<1>1. IInv /\ [Next]_vars =>
         [(mode \in {"run", "save"}) =>
            \A k \in Keys : disk'[k] # disk[k] => mode = "save" /\ k \in WritableOf(cur)]_vars
  BY SaveChanges
<1>. QED
  BY <1>1, InvHolds, PTL DEF Spec, OnlyWritableChange

(* It debits an account only with an authorization, whatever instructions  *)
(* of the system program a transaction combines.                           *)
THEOREM DebitsAuthorized == Spec => DebitsAreAuthorized
<1>1. IInv /\ [Next]_vars =>
         [mode = "save" =>
            \A k \in Keys : disk'[k].lamports < disk[k].lamports => Authorizes(cur, k, disk[k])]_vars
  <2>. SUFFICES ASSUME IInv, [Next]_vars, mode = "save", NEW k \in Keys,
                       disk'[k].lamports < disk[k].lamports
                PROVE  Authorizes(cur, k, disk[k])
    OBVIOUS
  <2>1. disk[k].lamports \in Int
    <3>1. disk[k] \in Accounts
      BY DEF IInv, Types, DBTypes, SoundAccounts
    <3>2. \A acc \in Accounts : acc.lamports \in Int
      BY DBAssumption DEF Accounts
    <3>. QED
      BY <3>1, <3>2
  <2>2. disk'[k] # disk[k]
    BY <2>1
  <2>. QED
    BY <2>2, SaveChanges, Zenon
<1>. QED
  BY <1>1, InvHolds, PTL DEF Spec, DebitsAreAuthorized
=============================================================================
