---------------------------- MODULE SupplyProofs ----------------------------
(***************************************************************************)
(* Executor conserves lamports: the sum over all accounts is changed only  *)
(* where SupplyConserved says so, whatever the transactions.               *)
(***************************************************************************)
EXTENDS ExecutorProofs

-----------------------------------------------------------------------------
(* Sums over finite sets                                                   *)

Pick(T) == CHOOSE x \in T : TRUE

(* sum adds the values of f up over each of some subsets of K.             *)
Adds(sum, f, D) ==
    sum = [T \in D |-> IF T = {} THEN 0 ELSE f[Pick(T)] + sum[T \ {Pick(T)}]]

(* There is such a function for all subsets of a finite set.               *)
LEMMA SumExists ==
    ASSUME NEW K, IsFiniteSet(K), NEW f
    PROVE  \E sum : Adds(sum, f, SUBSET K)
<1>. DEFINE Small(n) == {T \in SUBSET K : Cardinality(T) <= n}
            S == {n \in Nat : \E sum : Adds(sum, f, Small(n))}
<1>1. \A T \in SUBSET K : IsFiniteSet(T) /\ Cardinality(T) \in Nat
  BY FS_Subset, FS_CardinalityType
<1>2. \A T \in SUBSET K : T # {} =>
         /\ Pick(T) \in T /\ T \ {Pick(T)} \in SUBSET K
         /\ Cardinality(T \ {Pick(T)}) = Cardinality(T) - 1
  <2>. SUFFICES ASSUME NEW T \in SUBSET K, T # {}
                PROVE  /\ Pick(T) \in T /\ T \ {Pick(T)} \in SUBSET K
                       /\ Cardinality(T \ {Pick(T)}) = Cardinality(T) - 1
    OBVIOUS
  <2>1. Pick(T) \in T
    BY DEF Pick
  <2>. QED
    BY <1>1, <2>1, FS_RemoveElement
<1>3. 0 \in S
  <2>1. \A T \in Small(0) : T = {}
    BY <1>1, FS_EmptySet
  <2>2. Adds([T \in Small(0) |-> 0], f, Small(0))
    BY <2>1 DEF Adds
  <2>. QED
    BY <2>2
<1>4. ASSUME NEW n \in Nat, n \in S PROVE n + 1 \in S
  <2>1. PICK sum : Adds(sum, f, Small(n))
    BY <1>4
  <2>. DEFINE next == [T \in Small(n + 1) |->
                          IF T = {} THEN 0 ELSE f[Pick(T)] + sum[T \ {Pick(T)}]]
  <2>2. \A T \in Small(n) : T \in Small(n + 1) /\ next[T] = sum[T]
    <3>1. \A T \in Small(n) : T \in Small(n + 1)
      BY <1>1
    <3>2. \A T \in Small(n) : sum[T] = IF T = {} THEN 0 ELSE f[Pick(T)] + sum[T \ {Pick(T)}]
      BY <2>1 DEF Adds
    <3>. QED
      BY <3>1, <3>2
  <2>3. next = [T \in Small(n + 1) |-> IF T = {} THEN 0 ELSE f[Pick(T)] + sum[T \ {Pick(T)}]]
    OBVIOUS
  <2>4. \A T \in Small(n + 1) : T # {} => T \ {Pick(T)} \in Small(n)
    <3>1. \A c \in Nat : c <= n + 1 => c - 1 <= n
      OBVIOUS
    <3>. QED
      BY <1>1, <1>2, <3>1
  <2>. HIDE DEF next, Small
  <2>5. \A T \in Small(n + 1) : T # {} => next[T \ {Pick(T)}] = sum[T \ {Pick(T)}]
    BY <2>2, <2>4
  <2>6. Adds(next, f, Small(n + 1))
    BY <2>3, <2>5 DEF Adds
  <2>. QED
    BY <2>6
<1>5. Cardinality(K) \in Nat /\ Small(Cardinality(K)) = SUBSET K
  BY FS_Subset, FS_CardinalityType
<1>6. Cardinality(K) \in S
  <2>. HIDE DEF S
  <2>. QED
    BY <1>3, <1>4, <1>5, Induction
<1>. QED
  BY <1>5, <1>6

(* The sum of a function, as the model folds it.                           *)
Total(f) == FoldFunction(+, 0, f)

(* It unfolds at the element that CHOOSE picks.                            *)
LEMMA SumUnfolds ==
    ASSUME NEW f, IsFiniteSet(DOMAIN f)
    PROVE  \E sum : Adds(sum, f, SUBSET DOMAIN f) /\ Total(f) = sum[DOMAIN f]
<1>. DEFINE iter == CHOOSE sum : Adds(sum, f, SUBSET DOMAIN f)
<1>1. Adds(iter, f, SUBSET DOMAIN f)
  BY SumExists
<1>2. Total(f) = iter[DOMAIN f]
  BY DEF Total, FoldFunction, FoldFunctionOnSet, MapThenFoldSet, Adds, Pick
<1>. QED
  BY <1>1, <1>2

(* Two functions on K that differ by d at k.                               *)
Grown(f, g, K, k, d) ==
    /\ f \in [K -> Int] /\ g \in [K -> Int] /\ k \in K /\ d \in Int
    /\ \A x \in K : g[x] = IF x = k THEN f[x] + d ELSE f[x]

(* A finite function with integer values has an integer sum, and when one  *)
(* value grows by d, so does the sum: Pick chooses the same way through    *)
(* the domain for both functions.                                          *)
LEMMA SumGrows ==
    ASSUME NEW K, IsFiniteSet(K), NEW f, NEW g, NEW k, NEW d, Grown(f, g, K, k, d)
    PROVE  Total(f) \in Int /\ Total(g) = Total(f) + d
<1>. USE DEF Grown
<1>1. DOMAIN f = K /\ DOMAIN g = K
  OBVIOUS
<1>2. PICK sf : Adds(sf, f, SUBSET K) /\ Total(f) = sf[K]
  BY <1>1, SumUnfolds
<1>3. PICK sg : Adds(sg, g, SUBSET K) /\ Total(g) = sg[K]
  BY <1>1, SumUnfolds
<1>4. \A T \in SUBSET K :
         /\ sf[T] = IF T = {} THEN 0 ELSE f[Pick(T)] + sf[T \ {Pick(T)}]
         /\ sg[T] = IF T = {} THEN 0 ELSE g[Pick(T)] + sg[T \ {Pick(T)}]
  BY <1>2, <1>3 DEF Adds
<1>. DEFINE Right(T) == sf[T] \in Int /\ sg[T] = sf[T] + (IF k \in T THEN d ELSE 0)
            S == {n \in Nat : \A T \in SUBSET K : Cardinality(T) = n => Right(T)}
<1>5. \A T \in SUBSET K : IsFiniteSet(T) /\ Cardinality(T) \in Nat
  BY FS_Subset, FS_CardinalityType
<1>6. 0 \in S
  <2>1. \A T \in SUBSET K : Cardinality(T) = 0 => T = {}
    BY <1>5, FS_EmptySet
  <2>2. \A T \in SUBSET K : Cardinality(T) = 0 => Right(T)
    BY <1>4, <2>1
  <2>. QED
    BY <2>2
<1>7. ASSUME NEW n \in Nat, n \in S PROVE n + 1 \in S
  <2>. SUFFICES ASSUME NEW T \in SUBSET K, Cardinality(T) = n + 1 PROVE Right(T)
    OBVIOUS
  <2>. DEFINE x == Pick(T)
              R == T \ {x}
  <2>1. T # {}
    <3>1. n + 1 # 0
      OBVIOUS
    <3>. QED
      BY <3>1, FS_EmptySet
  <2>2. x \in T /\ x \in K /\ R \in SUBSET K
    BY <2>1 DEF Pick
  <2>3. Cardinality(R) = n
    BY <1>5, <2>2, FS_RemoveElement
  <2>4. Right(R)
    BY <1>7, <2>2, <2>3
  <2>5. sf[T] = f[x] + sf[R] /\ sg[T] = g[x] + sg[R]
    BY <1>4, <2>1
  <2>6. f[x] \in Int /\ g[x] = f[x] + (IF x = k THEN d ELSE 0)
    BY <2>2
  <2>7. k \in T <=> x = k \/ k \in R
    BY <2>2
  <2>8. x = k => k \notin R
    OBVIOUS
  <2>. HIDE DEF x, R
  <2>. QED
    BY <2>4, <2>5, <2>6, <2>7, <2>8
<1>8. Cardinality(K) \in S /\ Cardinality(K) \in Nat
  <2>. HIDE DEF S
  <2>. QED
    BY <1>5, <1>6, <1>7, Induction
<1>9. Right(K)
  BY <1>8
<1>. QED
  BY <1>2, <1>3, <1>9

-----------------------------------------------------------------------------
(* Instructions move lamports between the accounts of a transaction        *)

Less(i, from, n) == IF i = from THEN n ELSE 0

(* One account has given another what it lost, and no other has changed.   *)
MovedBetween(old, new, D, from, to, n) ==
    \A i \in D : new[i].lamports = (old[i].lamports - Less(i, from, n)) + Less(i, to, n)

Moved(old, new, D, touched) ==
    \E from \in touched, to \in touched, n \in Nat : MovedBetween(old, new, D, from, to, n)

(* Transfer, TransferWithSeed and WithdrawNonceAccount move.               *)
LEMMA MoveMoves ==
    ASSUME NEW D, NEW accts \in [D -> Infos], NEW from \in D, NEW to \in D, NEW n \in Nat
    PROVE  MovedBetween(accts, Move(accts, from, to, n), D, from, to, n)
<1>. SUFFICES ASSUME NEW i \in D
              PROVE  Move(accts, from, to, n)[i].lamports
                        = (accts[i].lamports - Less(i, from, n)) + Less(i, to, n)
  BY DEF MovedBetween
<1>. DEFINE taken == [accts EXCEPT ![from].lamports = @ - n]
            new == [taken EXCEPT ![to].lamports = @ + n]
<1>1. \A j \in D : accts[j].lamports \in Int /\ "lamports" \in DOMAIN accts[j]
  BY InfoTypes DEF Infos
<1>2. /\ DOMAIN taken = D
      /\ \A j \in D : taken[j].lamports = accts[j].lamports - Less(j, from, n)
      /\ \A j \in D : "lamports" \in DOMAIN taken[j]
  BY <1>1 DEF Less
<1>. HIDE DEF taken
<1>3. new[i].lamports = taken[i].lamports + Less(i, to, n)
  <2>1. taken[i].lamports \in Int
    BY <1>1, <1>2 DEF Less
  <2>. QED
    BY <1>2, <2>1 DEF Less
<1>4. Move(accts, from, to, n) = new
  BY DEF Move, taken
<1>. QED
  BY <1>2, <1>3, <1>4

(* What any other instruction of the system program does to one account    *)
(* leaves its lamports.                                                    *)
LEMMA NoneMoved ==
    ASSUME NEW old, NEW new, NEW D, NEW touched, NEW a \in touched,
           \A i \in D : old[i].lamports \in Int /\ new[i].lamports = old[i].lamports
    PROVE  Moved(old, new, D, touched)
<1>1. MovedBetween(old, new, D, a, a, 0)
  BY DEF MovedBetween, Less
<1>. QED
  BY <1>1 DEF Moved

(* CreateAccount: the new account had none, and gets what the funder loses. *)
LEMMA CreateMoves ==
    ASSUME NEW D, NEW accts \in [D -> Infos], NEW ins, ins.at[1] \in D, ins.at[2] \in D,
           ins.lamports \in Nat, Creates(accts, ins)
    PROVE  MovedBetween(accts, CreateAccount(accts, ins), D, ins.at[1], ins.at[2], ins.lamports)
<1>. DEFINE a == ins.at[1]
            b == ins.at[2]
            n == ins.lamports
            paid == [accts EXCEPT ![a].lamports = @ - n]
            new == CreateAccount(accts, ins)
<1>. SUFFICES ASSUME NEW i \in D
              PROVE  new[i].lamports = (accts[i].lamports - Less(i, a, n)) + Less(i, b, n)
  BY DEF MovedBetween
<1>1. \A j \in D : accts[j].lamports \in Int /\ "lamports" \in DOMAIN accts[j]
  BY InfoTypes DEF Infos
<1>2. accts[b].lamports = 0 /\ accts[a].lamports >= n
  BY DEF Creates, Unused, At
<1>3. /\ DOMAIN paid = D
      /\ \A j \in D : paid[j].lamports = accts[j].lamports - Less(j, a, n)
      /\ \A j \in D : DOMAIN paid[j] = {"key", "lamports", "space", "nonce", "owner",
                                        "isSigner", "isWritable"}
  BY <1>1 DEF Less, Infos
<1>4. new = [paid EXCEPT ![b] = [@ EXCEPT !.lamports = n, !.space = ins.space,
                                          !.nonce = NoNonce, !.owner = ins.owner]]
  BY DEF CreateAccount
<1>. HIDE DEF paid, new
<1>5. new[b].lamports = n /\ \A j \in D : j # b => new[j] = paid[j]
  BY <1>3, <1>4
<1>6. CASE i = b
  <2>1. a = b => n = 0
    BY <1>1, <1>2
  <2>. QED
    BY <1>1, <1>2, <1>5, <1>6, <2>1 DEF Less
<1>7. CASE i # b
  BY <1>1, <1>3, <1>5, <1>7 DEF Less
<1>. QED
  BY <1>6, <1>7

(* Process: whatever the instruction, lamports are moved, if at all.       *)
LEMMA ProcessMoves ==
    ASSUME NEW tx \in Txs, NEW accts \in [DOMAIN tx.keys -> Infos],
           NEW ins, SystemInstruction(tx, ins), ProcessOK(accts, ins)
    PROVE  Moved(accts, Process(accts, ins), DOMAIN tx.keys, {ins.at[n] : n \in DOMAIN ins.at})
<1>. DEFINE D == DOMAIN tx.keys
            touched == {ins.at[n] : n \in DOMAIN ins.at}
            a == ins.at[1]
            new == Process(accts, ins)
<1>. SUFFICES Moved(accts, new, D, touched)
  OBVIOUS
<1>1. ins.lamports \in Nat
  BY InstructionFields, DBAssumption
<1>2. \A n \in {1, 2, 3, 5} : Given(ins, n) => \A j \in 1..n : ins.at[j] \in touched /\ ins.at[j] \in D
  <2>1. DOMAIN ins.at = 1..Len(ins.at) /\ Len(ins.at) \in Nat
    BY InstructionFields
  <2>. QED
    BY <2>1, InstructionFields DEF Given
<1>3. /\ DOMAIN accts = D
      /\ \A i \in D : accts[i].lamports \in Int /\ "lamports" \in DOMAIN accts[i]
  BY InfoTypes DEF Infos
<1>4. Given(ins, 1)
  <2>1. \A n \in {2, 3, 5} : Given(ins, n) => Given(ins, 1)
    <3>1. Len(ins.at) \in Nat
      BY InstructionFields
    <3>. QED
      BY <3>1 DEF Given
  <2>. QED
    BY <2>1 DEF ProcessOK, CreateAccountOK, CreateAccountWithSeedOK, TransferOK, TransferWithSeedOK,
       AssignOK, AssignWithSeedOK, AllocateOK, InitializeNonceOK, AdvanceNonceOK, Authorized,
       WithdrawNonceOK
<1>5. a \in touched /\ a \in D
  BY <1>2, <1>4
<1>6. CASE ins.op \in {"CreateAccount", "CreateAccountWithSeed"}
  <2>1. Given(ins, 2) /\ Creates(accts, ins) /\ new = CreateAccount(accts, ins)
    BY <1>6 DEF ProcessOK, Process, CreateAccountOK, CreateAccountWithSeedOK
  <2>2. ins.at[2] \in touched /\ ins.at[2] \in D
    BY <1>2, <2>1
  <2>. HIDE DEF touched, new
  <2>. QED
    BY <1>1, <1>5, <2>1, <2>2, CreateMoves DEF Moved
<1>7. CASE ins.op = "Transfer"
  <2>1. Given(ins, 2) /\ new = Move(accts, a, ins.at[2], ins.lamports)
    BY <1>7 DEF ProcessOK, Process, TransferOK, Transfer
  <2>2. ins.at[2] \in touched /\ ins.at[2] \in D
    BY <1>2, <2>1
  <2>. HIDE DEF touched, new, a
  <2>. QED
    BY <1>1, <1>5, <2>1, <2>2, MoveMoves DEF Moved
<1>8. CASE ins.op = "TransferWithSeed"
  <2>1. Given(ins, 3) /\ new = Move(accts, a, ins.at[3], ins.lamports)
    BY <1>8 DEF ProcessOK, Process, TransferWithSeedOK, TransferWithSeed
  <2>2. ins.at[3] \in touched /\ ins.at[3] \in D
    BY <1>2, <2>1
  <2>. HIDE DEF touched, new, a
  <2>. QED
    BY <1>1, <1>5, <2>1, <2>2, MoveMoves DEF Moved
<1>9. CASE ins.op = "WithdrawNonceAccount"
  <2>. DEFINE moved == Move(accts, a, ins.at[2], ins.lamports)
  <2>1. /\ Given(ins, 5)
        /\ \/ new = moved
           \/ new = [moved EXCEPT ![a].nonce = NoNonce]
    BY <1>9 DEF ProcessOK, Process, WithdrawNonceOK, Authorized, WithdrawNonce
  <2>2. ins.at[2] \in touched /\ ins.at[2] \in D
    BY <1>2, <2>1
  <2>3. MovedBetween(accts, moved, D, a, ins.at[2], ins.lamports)
    <3>. HIDE DEF a
    <3>. QED
      BY <1>1, <1>5, <2>2, MoveMoves
  <2>4. DOMAIN moved = D /\ \A i \in D : "lamports" \in DOMAIN moved[i]
    BY <1>3 DEF Move
  <2>. HIDE DEF moved, new, touched, a
  <2>6. \A i \in D : new[i].lamports = moved[i].lamports
    BY <1>5, <2>1, <2>4
  <2>5. MovedBetween(accts, new, D, a, ins.at[2], ins.lamports)
    BY <2>3, <2>6 DEF MovedBetween
  <2>. QED
    BY <1>1, <1>5, <2>2, <2>5 DEF Moved
<1>10. CASE ins.op \in {"Assign", "AssignWithSeed", "Allocate", "AllocateWithSeed"}
  <2>1. \A i \in D : new[i].lamports = accts[i].lamports
    <3>1. \/ new = [accts EXCEPT ![a].owner = ins.owner]
          \/ new = [accts EXCEPT ![a].space = Largest(@, ins.space)]
          \/ new = [accts EXCEPT ![a] = [accts[a] EXCEPT !.space = Largest(@, ins.space),
                                                         !.owner = ins.owner]]
      BY <1>10 DEF Process, Assign, Allocate, AllocateWithSeed, At
    <3>. HIDE DEF new, a
    <3>. QED
      BY ZenonT(30), <1>3, <1>5, <3>1
  <2>. QED
    BY <1>3, <1>5, <2>1, NoneMoved
<1>11. CASE ins.op \in {"InitializeNonceAccount", "AdvanceNonceAccount", "AuthorizeNonceAccount"}
  <2>1. \A i \in D : new[i].lamports = accts[i].lamports
    <3>1. \/ new = [accts EXCEPT ![a].nonce = [auth |-> ins.key, hash |-> RecentBlockhash]]
          \/ new = [accts EXCEPT ![a].nonce.hash = RecentBlockhash]
          \/ new = [accts EXCEPT ![a].nonce.auth = ins.key]
      BY <1>11 DEF Process, InitializeNonce, AdvanceNonce, AuthorizeNonce
    <3>. HIDE DEF new, a
    <3>. QED
      BY <1>3, <1>5, <3>1
  <2>. QED
    BY <1>3, <1>5, <2>1, NoneMoved
<1>. QED
  BY <1>6, <1>7, <1>8, <1>9, <1>10, <1>11 DEF ProcessOK

-----------------------------------------------------------------------------
(* The balances of all keys if the loaded accounts of a transaction were    *)
(* the accounts of the database.                                           *)
PlaceOf(tx, k) == CHOOSE i \in DOMAIN tx.keys : tx.keys[i] = k
Used(tx) == {tx.keys[i] : i \in DOMAIN tx.keys}

BalancesOf(tx, accts) ==
    [k \in Keys |-> IF k \in Used(tx) THEN accts[PlaceOf(tx, k)].lamports ELSE disk[k].lamports]

InDatabase == [k \in Keys |-> disk[k].lamports]

(* A key has one place in a transaction.                                   *)
LEMMA Places ==
    ASSUME NEW tx \in Txs
    PROVE  /\ \A i \in DOMAIN tx.keys : /\ tx.keys[i] \in Keys /\ tx.keys[i] \in Used(tx)
                                        /\ PlaceOf(tx, tx.keys[i]) = i
           /\ \A k \in Used(tx) : PlaceOf(tx, k) \in DOMAIN tx.keys /\ tx.keys[PlaceOf(tx, k)] = k
<1>1. \A i, j \in DOMAIN tx.keys : tx.keys[i] = tx.keys[j] => i = j
  BY TxsAssumption DEF IsInjective
<1>2. \A i \in DOMAIN tx.keys : tx.keys[i] \in Keys
  BY TxsAssumption, ElementOfSeq, LenProperties
<1>. QED
  BY <1>1, <1>2 DEF PlaceOf, Used

(* Moving lamports between two accounts leaves the sum over all keys.      *)
LEMMA MovedConserves ==
    ASSUME NEW tx \in Txs, disk \in [Keys -> SoundAccounts],
           NEW old \in [DOMAIN tx.keys -> Infos], NEW new \in [DOMAIN tx.keys -> Infos],
           NEW touched, touched \subseteq DOMAIN tx.keys, Moved(old, new, DOMAIN tx.keys, touched)
    PROVE  Total(BalancesOf(tx, new)) = Total(BalancesOf(tx, old))
<1>1. PICK from \in DOMAIN tx.keys, to \in DOMAIN tx.keys, n \in Nat :
         MovedBetween(old, new, DOMAIN tx.keys, from, to, n)
  BY DEF Moved
<1>. DEFINE f == BalancesOf(tx, old)
            k == tx.keys[from]
            l == tx.keys[to]
            g == [f EXCEPT ![k] = @ + (0 - n)]
            h == [g EXCEPT ![l] = @ + n]
<1>2. /\ \A i \in DOMAIN tx.keys : old[i].lamports \in Int /\ new[i].lamports \in Int
      /\ \A x \in Keys : disk[x].lamports \in Int
  BY InfoTypes, DBAssumption DEF SoundAccounts, Accounts
<1>3. f \in [Keys -> Int] /\ BalancesOf(tx, new) \in [Keys -> Int]
  BY <1>2, Places DEF BalancesOf
<1>4. k \in Keys /\ l \in Keys /\ 0 - n \in Int /\ n \in Int
  BY Places
<1>5. g \in [Keys -> Int] /\ h \in [Keys -> Int]
  <2>. HIDE DEF f, k, l
  <2>. QED
    BY <1>3, <1>4
<1>6. ASSUME NEW x \in Keys PROVE BalancesOf(tx, new)[x] = h[x]
  <2>1. h[x] = (f[x] - (IF x = k THEN n ELSE 0)) + (IF x = l THEN n ELSE 0)
    <3>. HIDE DEF f, k, l
    <3>. QED
      BY <1>3, <1>4
  <2>2. CASE x \in Used(tx)
    <3>. DEFINE i == PlaceOf(tx, x)
    <3>1. i \in DOMAIN tx.keys /\ (x = k <=> i = from) /\ (x = l <=> i = to)
      BY <2>2, Places
    <3>2. f[x] = old[i].lamports /\ BalancesOf(tx, new)[x] = new[i].lamports
      BY <2>2 DEF BalancesOf
    <3>3. new[i].lamports = (old[i].lamports - Less(i, from, n)) + Less(i, to, n)
      BY <1>1, <3>1 DEF MovedBetween
    <3>. HIDE DEF f, h, i, k, l
    <3>. QED
      BY <2>1, <3>1, <3>2, <3>3 DEF Less
  <2>3. CASE x \notin Used(tx)
    <3>1. x # k /\ x # l
      BY <2>3, Places
    <3>2. f[x] = disk[x].lamports /\ BalancesOf(tx, new)[x] = disk[x].lamports
      BY <2>3 DEF BalancesOf
    <3>. HIDE DEF f, h, k, l
    <3>. QED
      BY <1>2, <2>1, <3>1, <3>2
  <2>. QED
    BY <2>2, <2>3
<1>7. BalancesOf(tx, new) = h
  <2>. HIDE DEF h
  <2>. QED
    BY <1>3, <1>5, <1>6
<1>8. Total(f) \in Int /\ Total(g) = Total(f) + (0 - n) /\ Total(h) = Total(g) + n
  <2>1. IsFiniteSet(Keys)
    BY SizeAssumption
  <2>2. \A x \in Keys : g[x] = IF x = k THEN f[x] + (0 - n) ELSE f[x]
    BY <1>3
  <2>3. \A x \in Keys : h[x] = IF x = l THEN g[x] + n ELSE g[x]
    BY <1>5
  <2>. HIDE DEF f, g, h, k, l
  <2>4. Total(f) \in Int /\ Total(g) = Total(f) + (0 - n)
    <3>1. Grown(f, g, Keys, k, 0 - n)
      BY <1>3, <1>4, <1>5, <2>2 DEF Grown
    <3>. QED
      BY <2>1, <3>1, SumGrows
  <2>5. Total(h) = Total(g) + n
    <3>1. Grown(g, h, Keys, l, n)
      BY <1>4, <1>5, <2>3 DEF Grown
    <3>. QED
      BY <2>1, <3>1, SumGrows
  <2>. QED
    BY <2>4, <2>5
<1>. HIDE DEF f, g, h
<1>9. Total(h) = Total(f)
  BY <1>4, <1>8
<1>. QED
  BY <1>7, <1>9 DEF f

(* What is true of a transaction after each instruction: no lamports came  *)
(* or went, and those of writable accounts that changed will be saved.     *)
Conserving(st, tx) ==
    /\ Total(BalancesOf(tx, st.accts)) = Total(InDatabase)
    /\ \A i \in DOMAIN tx.keys :
          st.accts[i].lamports # disk[tx.keys[i]].lamports =>
             i \in st.modified \/ ~IsAccountWritable(tx, i)

(* An instruction, that of another program included, leaves that so.       *)
LEMMA InstructionConserves ==
    ASSUME NEW tx \in Txs, disk \in [Keys -> SoundAccounts], NEW st, StateOK(st, disk, tx),
           NEW ins \in Range(tx.instructions), Conserving(st, tx)
    PROVE  Conserving(ExecuteInstruction(st, ins), tx)
<1>. DEFINE touched == {ins.at[n] : n \in DOMAIN ins.at}
            marked == st.modified \cup {i \in touched : st.accts[i].isWritable}
            new == ExecuteInstruction(st, ins)
<1>. SUFFICES Conserving(new, tx)
  OBVIOUS
<1>1. /\ st = [accts |-> st.accts, modified |-> st.modified, ok |-> st.ok]
      /\ AcctsOK(st.accts, disk, tx) /\ st.accts \in [DOMAIN tx.keys -> Infos]
      /\ DOMAIN st.accts = DOMAIN tx.keys
      /\ \A i \in DOMAIN tx.keys : st.accts[i].isWritable = IsAccountWritable(tx, i)
  BY DEF StateOK, AcctsOK, InfoOK
<1>2. CASE new = st
  BY <1>2
<1>3. CASE new = [st EXCEPT !.ok = FALSE]
  BY <1>1, <1>3 DEF Conserving
<1>4. CASE new = [st EXCEPT !.modified = marked]
  <2>1. new.accts = st.accts /\ st.modified \subseteq new.modified
    BY <1>1, <1>4
  <2>. HIDE DEF new
  <2>. QED
    BY <2>1 DEF Conserving
<1>5. CASE /\ touched \subseteq DOMAIN tx.keys /\ ins.program = System /\ ProcessOK(st.accts, ins)
           /\ new = [st EXCEPT !.accts = Process(@, ins), !.modified = marked]
  <2>1. SystemInstruction(tx, ins)
    BY <1>5 DEF SystemInstruction
  <2>2. /\ Process(st.accts, ins) \in [DOMAIN tx.keys -> Infos]
        /\ Moved(st.accts, Process(st.accts, ins), DOMAIN tx.keys, touched)
    <3>1. AcctsOK(Process(st.accts, ins), disk, tx)
      BY <1>1, <1>5, <2>1, ProcessKeeps
    <3>2. Moved(st.accts, Process(st.accts, ins), DOMAIN tx.keys, touched)
      <4>1. /\ st.accts \in [DOMAIN tx.keys -> Infos] /\ SystemInstruction(tx, ins)
            /\ ProcessOK(st.accts, ins)
        BY <1>1, <1>5, <2>1
      <4>. QED
        BY <4>1, ProcessMoves
    <3>. QED
      BY <3>1, <3>2 DEF AcctsOK
  <2>3. new.accts = Process(st.accts, ins) /\ new.modified = marked
    BY <1>1, <1>5
  <2>4. Total(BalancesOf(tx, new.accts)) = Total(BalancesOf(tx, st.accts))
    <3>. HIDE DEF new, touched
    <3>. QED
      BY <1>1, <1>5, <2>2, <2>3, MovedConserves
  <2>5. ASSUME NEW i \in DOMAIN tx.keys, new.accts[i].lamports # disk[tx.keys[i]].lamports,
               i \notin new.modified, IsAccountWritable(tx, i)
        PROVE  FALSE
    <3>1. i \notin touched /\ i \notin st.modified
      BY <1>1, <2>3, <2>5
    <3>2. st.accts[i].lamports \in Int
      BY <1>1, InfoTypes
    <3>3. new.accts[i].lamports = st.accts[i].lamports
      <4>. HIDE DEF touched, new
      <4>. QED
        BY <2>2, <2>3, <3>1, <3>2 DEF Moved, MovedBetween, Less
    <3>. QED
      BY <2>5, <3>1, <3>3 DEF Conserving
  <2>. HIDE DEF new
  <2>. QED
    BY <2>4, <2>5 DEF Conserving
<1>. QED
  BY <1>1, <1>2, <1>3, <1>4, <1>5 DEF ExecuteInstruction

(* A transaction begins with what is in the database ...                   *)
LEMMA LoadConserves ==
    ASSUME NEW tx \in Txs
    PROVE  Conserving([accts |-> Load(tx), modified |-> {}, ok |-> TRUE], tx)
<1>1. \A i \in DOMAIN tx.keys : Load(tx)[i].lamports = disk[tx.keys[i]].lamports
  BY DEF Load
<1>2. ASSUME NEW k \in Keys PROVE BalancesOf(tx, Load(tx))[k] = InDatabase[k]
  <2>1. CASE k \in Used(tx)
    BY <1>1, <2>1, Places DEF BalancesOf, InDatabase
  <2>2. CASE k \notin Used(tx)
    BY <2>2 DEF BalancesOf, InDatabase
  <2>. QED
    BY <2>1, <2>2
<1>3. BalancesOf(tx, Load(tx)) = InDatabase
  BY <1>2 DEF BalancesOf, InDatabase
<1>. QED
  BY <1>1, <1>3 DEF Conserving

(* ... and keeps it, however many instructions it has.                     *)
LEMMA ExecutedConserves ==
    ASSUME NEW tx \in Txs, disk \in [Keys -> SoundAccounts]
    PROVE  Conserving(Executed(tx), tx)
<1>. DEFINE begin == [accts |-> Load(tx), modified |-> {}, ok |-> TRUE]
            s == tx.instructions
            after == Execution(begin, s)
            S == {n \in Nat : n <= Len(s) => StateOK(after[n], disk, tx) /\ Conserving(after[n], tx)}
<1>1. s \in Seq(Range(s)) /\ Len(s) \in Nat /\ DOMAIN s = 1..Len(s)
  BY TxsAssumption, LenProperties
<1>2. /\ after[0] = begin
      /\ \A n \in 1..Len(s) : after[n] = ExecuteInstruction(after[n - 1], s[n])
  <2>. HIDE DEF begin, s
  <2>. QED
    BY <1>1, ExecutionUnfolds
<1>3. StateOK(begin, disk, tx) /\ Conserving(begin, tx)
  BY LoadOK, LoadConserves
<1>4. Executed(tx) = after[Len(s)]
  BY DEF Executed
<1>. HIDE DEF begin, after
<1>5. 0 \in S
  BY <1>2, <1>3
<1>6. ASSUME NEW n \in Nat, n \in S PROVE n + 1 \in S
  <2>. SUFFICES ASSUME n + 1 <= Len(s)
                PROVE  StateOK(after[n + 1], disk, tx) /\ Conserving(after[n + 1], tx)
    OBVIOUS
  <2>1. /\ StateOK(after[n], disk, tx) /\ Conserving(after[n], tx)
        /\ n + 1 \in 1..Len(s) /\ (n + 1) - 1 = n
    BY <1>1, <1>6
  <2>2. after[n + 1] = ExecuteInstruction(after[n], s[n + 1])
    BY <1>2, <2>1
  <2>3. s[n + 1] \in Range(tx.instructions)
    BY <1>1, <2>1 DEF Range
  <2>. QED
    BY <2>1, <2>2, <2>3, InstructionKeeps, InstructionConserves
<1>7. Len(s) \in S
  <2>. HIDE DEF S, s
  <2>. QED
    BY <1>1, <1>5, <1>6, Induction
<1>. QED
  BY <1>1, <1>4, <1>7

-----------------------------------------------------------------------------
(* The lamports there will be: the balance of k once the accounts all of   *)
(* tx are saved to db.                                                     *)
Afterwards(db, all, tx, k) ==
    LET pending == {i \in DOMAIN all : tx.keys[i] = k} IN
    IF pending = {} THEN db[k].lamports ELSE all[CHOOSE i \in pending : TRUE].lamports

Supplied(db, all, tx) == [k \in Keys |-> Afterwards(db, all, tx, k)]

(* It adds up to the supply of the model, before a step and after it.      *)
LEMMA SupplyIsTotal ==
    Supply = Total(Supplied(disk, saves, cur)) /\ Supply' = Total(Supplied(disk', saves', cur'))
<1>1. Supply = Total(Supplied(disk, saves, cur))
  BY DEF Supply, Total, Supplied, Afterwards, Balance
<1>2. (Supply = Total(Supplied(disk, saves, cur)))'
  BY <1>1, PTL
<1>. QED
  BY <1>1, <1>2

\* The i-th account of tx, which is that of k, is one of all.
SavedAs(all, tx, i, k) ==
    tx \in Txs /\ DOMAIN all \subseteq DOMAIN tx.keys /\ i \in DOMAIN all /\ tx.keys[i] = k

(* An account to be saved gives its key the balance it will have.          *)
LEMMA SavedBalance ==
    ASSUME NEW tx, NEW db, NEW all, NEW k, NEW i, SavedAs(all, tx, i, k)
    PROVE  Afterwards(db, all, tx, k) = all[i].lamports
<1>1. \A j \in DOMAIN tx.keys : tx.keys[j] = k => i = j
  BY TxsAssumption DEF IsInjective, SavedAs
<1>2. {j \in DOMAIN all : tx.keys[j] = k} = {i}
  BY <1>1 DEF SavedAs
<1>3. (CHOOSE j \in {i} : TRUE) = i
  OBVIOUS
<1>. QED
  BY <1>2, <1>3 DEF Afterwards

(* A key without one keeps the balance it has.                             *)
LEMMA OtherBalance ==
    ASSUME NEW tx, NEW db, NEW all, NEW k, \A i \in DOMAIN all : tx.keys[i] # k
    PROVE  Afterwards(db, all, tx, k) = db[k].lamports
  BY DEF Afterwards

(* Execute: what is to be saved adds up to what there was, unless a        *)
(* read-only account has changed.                                          *)
LEMMA ExecuteConserves ==
    ASSUME IInv, NEW tx \in Txs, Execute(tx), ~ChangesReadonly(tx)
    PROVE  Supply' = Supply
<1>. DEFINE st == Executed(tx)
<1>1. /\ DOMAIN saves = {} /\ disk' = disk /\ cur' = tx
      /\ saves' = [i \in st.modified |-> AccountOf(st.accts[i])]
  <2>1. mode = "run" /\ disk' = disk /\ cur' = tx
        /\ saves' = [i \in st.modified |-> AccountOf(st.accts[i])]
    BY DEF Execute, dbVars
  <2>2. cur.keys = <<>> /\ DOMAIN saves \subseteq DOMAIN cur.keys
    BY <2>1 DEF IInv, Types, RunTypes, NoTx
  <2>3. DOMAIN <<>> = {}
    OBVIOUS
  <2>4. DOMAIN saves = {}
    BY <2>2, <2>3
  <2>. QED
    BY <2>1, <2>4
<1>2. disk \in [Keys -> SoundAccounts]
  BY DEF IInv, Types, DBTypes
<1>3. StateOK(st, disk, tx) /\ Conserving(st, tx)
  BY <1>2, ExecutedOK, ExecutedConserves
<1>4. /\ st.modified \subseteq DOMAIN tx.keys
      /\ \A i \in DOMAIN tx.keys : st.accts[i].isWritable = IsAccountWritable(tx, i)
  BY <1>3 DEF StateOK, AcctsOK, InfoOK
<1>5. \A i \in DOMAIN tx.keys : i \notin st.modified =>
         st.accts[i].lamports = disk[tx.keys[i]].lamports
  BY <1>3, <1>4 DEF Conserving, ChangesReadonly
<1>. HIDE DEF st
<1>. DEFINE all == [i \in st.modified |-> AccountOf(st.accts[i])]
<1>6. DOMAIN all = st.modified /\ \A i \in st.modified : all[i].lamports = st.accts[i].lamports
  BY DEF AccountOf
<1>. HIDE DEF all
<1>7. ASSUME NEW k \in Keys PROVE Afterwards(disk, all, tx, k) = BalancesOf(tx, st.accts)[k]
  <2>1. ASSUME NEW i \in st.modified, tx.keys[i] = k
        PROVE  Afterwards(disk, all, tx, k) = BalancesOf(tx, st.accts)[k]
    <3>1. Afterwards(disk, all, tx, k) = st.accts[i].lamports
      <4>1. SavedAs(all, tx, i, k)
        BY <1>4, <1>6, <2>1 DEF SavedAs
      <4>. QED
        BY <1>6, <4>1, SavedBalance
    <3>2. k \in Used(tx) /\ PlaceOf(tx, k) = i
      BY <1>4, <2>1, Places
    <3>. QED
      BY <3>1, <3>2 DEF BalancesOf
  <2>2. ASSUME \A i \in st.modified : tx.keys[i] # k
        PROVE  Afterwards(disk, all, tx, k) = BalancesOf(tx, st.accts)[k]
    <3>1. Afterwards(disk, all, tx, k) = disk[k].lamports
      BY <1>6, <2>2, OtherBalance
    <3>2. k \in Used(tx) => st.accts[PlaceOf(tx, k)].lamports = disk[k].lamports
      BY <1>5, <2>2, Places
    <3>. QED
      BY <3>1, <3>2 DEF BalancesOf
  <2>. QED
    BY <2>1, <2>2
<1>8. Supplied(disk, all, tx) = BalancesOf(tx, st.accts)
  BY <1>7 DEF BalancesOf, Supplied
<1>9. Supplied(disk, saves, cur) = InDatabase
  BY <1>1, OtherBalance DEF InDatabase, Supplied
<1>10. Supply' = Total(Supplied(disk, all, tx)) /\ Supply = Total(Supplied(disk, saves, cur))
  BY <1>1, SupplyIsTotal DEF all
<1>. QED
  BY <1>3, <1>8, <1>9, <1>10 DEF Conserving

(* Save: an account that is saved has the balance it was to have.          *)
LEMMA SaveConserves ==
    ASSUME IInv, Save
    PROVE  Supply' = Supply
<1>1. PICK i \in DOMAIN saves :
         /\ SetAccount(cur.keys[i], saves[i])
         /\ IF DOMAIN saves = {i}
            THEN cur' = NoTx /\ saves' = NoAccounts
            ELSE saves' = [j \in DOMAIN saves \ {i} |-> saves[j]] /\ cur' = cur
  BY DEF Save
<1>2. /\ cur \in Txs /\ DOMAIN saves \subseteq DOMAIN cur.keys
      /\ saves[i] \in SoundAccounts /\ disk \in [Keys -> SoundAccounts]
  BY DEF Save, IInv, Types, RunTypes, DBTypes
<1>3. PICK l \in Keys : l = cur.keys[i] /\ \A j \in DOMAIN saves : cur.keys[j] = l => j = i
  BY <1>2, Places
<1>4. disk'[l].lamports = saves[i].lamports /\ \A k \in Keys : k # l => disk'[k] = disk[k]
  BY <1>1, <1>2, <1>3, WriteOK DEF SetAccount
<1>5. /\ DOMAIN saves' = DOMAIN saves \ {i}
      /\ \A j \in DOMAIN saves' : saves'[j] = saves[j] /\ cur' = cur
  BY <1>1 DEF NoAccounts
<1>6. Afterwards(disk', saves', cur', l) = Afterwards(disk, saves, cur, l)
  <2>1. Afterwards(disk, saves, cur, l) = saves[i].lamports
    <3>1. SavedAs(saves, cur, i, l)
      BY <1>2, <1>3 DEF SavedAs
    <3>. QED
      BY <3>1, SavedBalance
  <2>2. \A j \in DOMAIN saves' : cur'.keys[j] # l
    BY <1>3, <1>5
  <2>3. Afterwards(disk', saves', cur', l) = disk'[l].lamports
    BY <2>2, OtherBalance
  <2>. QED
    BY <1>4, <2>1, <2>3
<1>7. ASSUME NEW k \in Keys, k # l
      PROVE  Afterwards(disk', saves', cur', k) = Afterwards(disk, saves, cur, k)
  <2>1. ASSUME NEW j \in DOMAIN saves, cur.keys[j] = k
        PROVE  Afterwards(disk', saves', cur', k) = Afterwards(disk, saves, cur, k)
    <3>1. j # i /\ j \in DOMAIN saves'
      BY <1>3, <1>5, <1>7, <2>1
    <3>2. cur' = cur /\ saves'[j] = saves[j] /\ DOMAIN saves' \subseteq DOMAIN cur.keys
      BY <1>2, <1>5, <3>1
    <3>3. Afterwards(disk', saves', cur, k) = saves'[j].lamports
      <4>1. SavedAs(saves', cur, j, k)
        BY <1>2, <2>1, <3>1, <3>2 DEF SavedAs
      <4>. QED
        BY <4>1, SavedBalance
    <3>4. Afterwards(disk, saves, cur, k) = saves[j].lamports
      <4>1. SavedAs(saves, cur, j, k)
        BY <1>2, <2>1 DEF SavedAs
      <4>. QED
        BY <4>1, SavedBalance
    <3>. QED
      BY <3>2, <3>3, <3>4
  <2>2. ASSUME \A j \in DOMAIN saves : cur.keys[j] # k
        PROVE  Afterwards(disk', saves', cur', k) = Afterwards(disk, saves, cur, k)
    <3>1. \A j \in DOMAIN saves' : cur'.keys[j] # k
      BY <1>5, <2>2
    <3>2. Afterwards(disk', saves', cur', k) = disk'[k].lamports
      BY <3>1, OtherBalance
    <3>3. Afterwards(disk, saves, cur, k) = disk[k].lamports
      BY <2>2, OtherBalance
    <3>. QED
      BY <1>4, <1>7, <3>2, <3>3
  <2>. QED
    BY <2>1, <2>2
<1>8. Supplied(disk', saves', cur') = Supplied(disk, saves, cur)
  BY <1>6, <1>7 DEF Supplied
<1>. QED
  BY <1>8, SupplyIsTotal

(* Replay neither creates nor destroys lamports, whatever the transactions *)
(* and their instructions: the sum over all accounts stays, with what is   *)
(* about to be saved, unless a fault cuts a transaction short or it        *)
(* changes an account it only reads.                                       *)
THEOREM LamportsConserved == Spec => SupplyConserved
<1>1. IInv /\ [Next]_vars =>
         [(mode \in {"run", "save"} /\ faults' = faults) =>
             \/ Supply' = Supply
             \/ \E tx \in Txs : Execute(tx) /\ ChangesReadonly(tx)]_vars
  <2>. SUFFICES ASSUME IInv, Next, mode \in {"run", "save"}, faults' = faults,
                       ~ \E tx \in Txs : Execute(tx) /\ ChangesReadonly(tx)
                PROVE  Supply' = Supply
    OBVIOUS
  <2>1. CASE Save
    BY <2>1, SaveConserves
  <2>2. CASE \E tx \in Txs : Execute(tx)
    BY <2>2, ExecuteConserves
  <2>3. CASE Stop \/ EndSlot
    <3>1. disk' = disk /\ DOMAIN saves = {} /\ DOMAIN saves' = {}
      <4>1. DOMAIN NoAccounts = {} /\ DOMAIN saves = {}
        <5>1. DOMAIN NoAccounts = {}
          BY DEF NoAccounts
        <5>2. mode = "run"
          BY <2>3 DEF Stop, EndSlot
        <5>3. DOMAIN saves \subseteq DOMAIN NoTx.keys
          BY <5>2 DEF IInv, Types, RunTypes
        <5>. QED
          <6>1. NoTx.keys = <<>>
            BY DEF NoTx
          <6>. QED
            BY <5>1, <5>3, <6>1
      <4>. QED
        BY <2>3, <4>1 DEF Stop, EndSlot, Commit, CommitSlot, GoDown
    <3>2. \A k : /\ Afterwards(disk', saves', cur', k) = disk'[k].lamports
                 /\ Afterwards(disk, saves, cur, k) = disk[k].lamports
      BY <3>1, OtherBalance
    <3>3. Supplied(disk', saves', cur') = Supplied(disk, saves, cur)
      BY <3>1, <3>2 DEF Supplied
    <3>. QED
      BY <3>3, SupplyIsTotal
  <2>4. ~ (Start \/ LoadFails \/ CloseStorage \/ StreamAccount \/ StreamEnds \/ BatchAccount \/ NativeEnds)
    BY DEF Start, LoadFails, CloseStorage, StreamAccount, StreamEnds, BatchAccount, NativeEnds
  <2>5. ~ (Crash \/ SaveFails \/ CommitFails)
    <3>1. faults + 1 # faults
      BY ExecutorAssumption DEF IInv, Types, RunTypes
    <3>. QED
      BY <3>1 DEF Crash, SaveFails, CommitFails
  <2>. QED
    BY <2>1, <2>2, <2>3, <2>4, <2>5 DEF Next
<1>. QED
  BY <1>1, InvHolds, PTL DEF Spec, SupplyConserved
=============================================================================
