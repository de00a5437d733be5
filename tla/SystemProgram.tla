--------------------------- MODULE SystemProgram ----------------------------
(***************************************************************************)
(* pkg/svm/programs/system: the system program.  An instruction works on   *)
(* the accounts a transaction has loaded: accts maps an index of the       *)
(* transaction's account keys to a loaded account, and ins.at lists the    *)
(* indexes the instruction was given.  For every instruction there is the  *)
(* condition under which the processor accepts it, and the accounts it     *)
(* leaves; a refused instruction fails the transaction.                    *)
(*                                                                         *)
(* An instruction is [op, at, lamports, space, owner, key]: key is the     *)
(* authority, or the base of a seed-derived address.  Seeds are left out:  *)
(* SeedAddress gives the address that base and owner derive.               *)
(***************************************************************************)
EXTENDS AccountsDB

CONSTANTS
    NonceSize,       \* the length of a nonce account's data
    Rent,            \* Rent[space]: the rent-exempt minimum
    SeedAddress      \* <<base, owner>> -> the derived key

ASSUME SystemAssumption ==
    /\ NonceSize \in Spaces \ {0}
    /\ Rent \in [Spaces -> Nat]
    /\ SeedAddress \in [Keys \X Owners -> Keys]

RecentBlockhash == 0     \* the executor's context answers the zero hash

At(accts, ins, i) == accts[ins.at[i]]
Given(ins, n) == Len(ins.at) >= n
IsNonce(acc) == acc.space >= NonceSize /\ acc.nonce # NoNonce

(* A new account: the system program's, without data and lamports.         *)
Unused(acc) == acc.owner = System /\ acc.space = 0 /\ acc.lamports = 0

NoOverflow_OffByOne(acc, n) == acc.lamports <= Lamports - n

NoOverflow(acc, n) == acc.lamports <= Lamports - 1 - n

Move_Stale(accts, from, to, n) ==
    [accts EXCEPT ![from].lamports = @ - n, ![to].lamports = accts[to].lamports + n]

(* Taken from one account and then added to the other, which may be the    *)
(* same one.                                                               *)
Move(accts, from, to, n) ==
    LET taken == [accts EXCEPT ![from].lamports = @ - n]
    IN [taken EXCEPT ![to].lamports = @ + n]

-----------------------------------------------------------------------------
(* CreateAccount: funder, new account.  Neither has to be writable.        *)

Creates(accts, ins) ==
    /\ At(accts, ins, 1).lamports >= ins.lamports
    /\ Unused(At(accts, ins, 2))
    /\ ins.lamports >= Rent[ins.space]

CreateAccountOK(accts, ins) ==
    /\ Given(ins, 2)
    /\ At(accts, ins, 1).isSigner /\ At(accts, ins, 2).isSigner
    /\ Creates(accts, ins)

CreateAccount(accts, ins) ==
    LET paid == [accts EXCEPT ![ins.at[1]].lamports = @ - ins.lamports]
    IN [paid EXCEPT ![ins.at[2]] = [@ EXCEPT !.lamports = ins.lamports, !.space = ins.space,
                                             !.nonce = NoNonce, !.owner = ins.owner]]

CreateAccountWithSeedOK(accts, ins) ==
    /\ Given(ins, 2)
    /\ At(accts, ins, 1).isSigner
    /\ SeedAddress[<<ins.key, ins.owner>>] = At(accts, ins, 2).key
    /\ Creates(accts, ins)

-----------------------------------------------------------------------------
(* Transfer: from, to.                                                     *)

TransferOK_NoSigner(accts, ins) ==
    /\ Given(ins, 2)
    /\ At(accts, ins, 1).isWritable /\ At(accts, ins, 2).isWritable
    /\ At(accts, ins, 1).lamports >= ins.lamports
    /\ NoOverflow(At(accts, ins, 2), ins.lamports)

TransferOK(accts, ins) ==
    /\ Given(ins, 2)
    /\ At(accts, ins, 1).isSigner
    /\ At(accts, ins, 1).isWritable /\ At(accts, ins, 2).isWritable
    /\ At(accts, ins, 1).lamports >= ins.lamports
    /\ NoOverflow(At(accts, ins, 2), ins.lamports)

Transfer(accts, ins) == Move(accts, ins.at[1], ins.at[2], ins.lamports)

(* From, base, to.  The accounts need not be writable.                     *)
TransferWithSeedOK(accts, ins) ==
    /\ Given(ins, 3)
    /\ At(accts, ins, 2).isSigner
    /\ SeedAddress[<<At(accts, ins, 2).key, ins.owner>>] = At(accts, ins, 1).key
    /\ At(accts, ins, 1).lamports >= ins.lamports
    /\ NoOverflow(At(accts, ins, 3), ins.lamports)

TransferWithSeed(accts, ins) == Move(accts, ins.at[1], ins.at[3], ins.lamports)

-----------------------------------------------------------------------------
(* Assign and Allocate, for an account that signs or is derived.           *)

Largest(a, b) == IF a > b THEN a ELSE b

AssignOK(accts, ins) ==
    /\ Given(ins, 1)
    /\ At(accts, ins, 1).isSigner /\ At(accts, ins, 1).owner = System

Assign(accts, ins) == [accts EXCEPT ![ins.at[1]].owner = ins.owner]

AssignWithSeedOK(accts, ins) ==
    /\ Given(ins, 1)
    /\ SeedAddress[<<ins.key, ins.owner>>] = At(accts, ins, 1).key
    /\ At(accts, ins, 1).owner = System

AllocateOK(accts, ins) ==
    /\ AssignOK(accts, ins)
    /\ At(accts, ins, 1).space <= ins.space

Allocate(accts, ins) == [accts EXCEPT ![ins.at[1]].space = Largest(@, ins.space)]

AllocateWithSeed(accts, ins) ==
    LET acc == At(accts, ins, 1)
    IN [accts EXCEPT ![ins.at[1]] = [acc EXCEPT !.space = Largest(@, ins.space),
                                                !.owner = ins.owner]]

-----------------------------------------------------------------------------
(* Nonce accounts                                                          *)

InitializeNonceOK(accts, ins) ==
    /\ Given(ins, 1)
    /\ LET acc == At(accts, ins, 1) IN
          /\ acc.isWritable /\ acc.owner = System
          /\ acc.nonce = NoNonce /\ acc.space >= NonceSize
          /\ acc.lamports >= Rent[NonceSize]

InitializeNonce(accts, ins) ==
    [accts EXCEPT ![ins.at[1]].nonce = [auth |-> ins.key, hash |-> RecentBlockhash]]

(* The nonce account is the first, its authority the i-th and a signer.    *)
Authorized(accts, ins, i) ==
    /\ Given(ins, i)
    /\ At(accts, ins, i).isSigner /\ At(accts, ins, 1).isWritable
    /\ IsNonce(At(accts, ins, 1))
    /\ At(accts, ins, 1).nonce.auth = At(accts, ins, i).key

AdvanceNonceOK(accts, ins) ==
    Authorized(accts, ins, 3) /\ At(accts, ins, 1).nonce.hash # RecentBlockhash

AdvanceNonce(accts, ins) == [accts EXCEPT ![ins.at[1]].nonce.hash = RecentBlockhash]

AuthorizeNonce(accts, ins) == [accts EXCEPT ![ins.at[1]].nonce.auth = ins.key]

(* Destination second, authority fifth; what remains is nothing or rent    *)
(* exempt.                                                                 *)
WithdrawNonceOK(accts, ins) ==
    LET acc == At(accts, ins, 1) IN
    /\ Authorized(accts, ins, 5)
    /\ At(accts, ins, 2).isWritable
    /\ acc.lamports >= ins.lamports
    /\ \/ acc.lamports = ins.lamports
       \/ acc.lamports - ins.lamports >= Rent[NonceSize]
    /\ NoOverflow(At(accts, ins, 2), ins.lamports)

WithdrawNonce(accts, ins) ==
    LET moved == Move(accts, ins.at[1], ins.at[2], ins.lamports) IN
    IF moved[ins.at[1]].lamports = 0 THEN [moved EXCEPT ![ins.at[1]].nonce = NoNonce]
    ELSE moved

-----------------------------------------------------------------------------
(* Process: anything else is invalid instruction data.                     *)
ProcessOK(accts, ins) ==
    CASE ins.op = "CreateAccount" -> CreateAccountOK(accts, ins)
      [] ins.op = "CreateAccountWithSeed" -> CreateAccountWithSeedOK(accts, ins)
      [] ins.op = "Transfer" -> TransferOK(accts, ins)
      [] ins.op = "TransferWithSeed" -> TransferWithSeedOK(accts, ins)
      [] ins.op = "Assign" -> AssignOK(accts, ins)
      [] ins.op \in {"AssignWithSeed", "AllocateWithSeed"} -> AssignWithSeedOK(accts, ins)
      [] ins.op = "Allocate" -> AllocateOK(accts, ins)
      [] ins.op = "InitializeNonceAccount" -> InitializeNonceOK(accts, ins)
      [] ins.op = "AdvanceNonceAccount" -> AdvanceNonceOK(accts, ins)
      [] ins.op = "AuthorizeNonceAccount" -> Authorized(accts, ins, 2)
      [] ins.op = "WithdrawNonceAccount" -> WithdrawNonceOK(accts, ins)
      [] OTHER -> FALSE

Process(accts, ins) ==
    CASE ins.op \in {"CreateAccount", "CreateAccountWithSeed"} -> CreateAccount(accts, ins)
      [] ins.op = "Transfer" -> Transfer(accts, ins)
      [] ins.op = "TransferWithSeed" -> TransferWithSeed(accts, ins)
      [] ins.op \in {"Assign", "AssignWithSeed"} -> Assign(accts, ins)
      [] ins.op = "Allocate" -> Allocate(accts, ins)
      [] ins.op = "AllocateWithSeed" -> AllocateWithSeed(accts, ins)
      [] ins.op = "InitializeNonceAccount" -> InitializeNonce(accts, ins)
      [] ins.op = "AdvanceNonceAccount" -> AdvanceNonce(accts, ins)
      [] ins.op = "AuthorizeNonceAccount" -> AuthorizeNonce(accts, ins)
      [] ins.op = "WithdrawNonceAccount" -> WithdrawNonce(accts, ins)
=============================================================================
