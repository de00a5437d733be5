----------------------------- MODULE MCExecutor -----------------------------
(***************************************************************************)
(* An instance of Executor for TLC: a payer, a second account, and an      *)
(* account derived from the payer.                                         *)
(***************************************************************************)
EXTENDS Executor

MCKeys == {"alice", "bob", "derived"}
MCRent == 0 :> 1 @@ 1 :> 1 @@ 2 :> 2
MCSeedAddress ==
    [p \in MCKeys \X Owners |-> IF p[1] = "alice" THEN "derived" ELSE p[1]]

Ins(program, op, at, lamports, space, owner, key) ==
    [program |-> program, op |-> op, at |-> at, lamports |-> lamports,
     space |-> space, owner |-> owner, key |-> key]

Sys(op, at, lamports, key) == Ins(System, op, at, lamports, 2, System, key)

Tx(keys, signers, roSigned, roUnsigned, instructions) ==
    [keys |-> keys, signers |-> signers, roSigned |-> roSigned,
     roUnsigned |-> roUnsigned, instructions |-> instructions]

TransferTxs ==
    { Tx(<<"alice", "bob">>, 1, 0, 0, <<Sys("Transfer", <<1, 2>>, 1, "bob")>>),
      Tx(<<"alice", "bob">>, 1, 0, 0, <<Sys("Transfer", <<2, 1>>, 1, "bob")>>),
      Tx(<<"alice">>, 1, 0, 0, <<Sys("Transfer", <<1, 1>>, 1, "bob")>>),
      \* the second instruction fails, or is for a program that is not run
      Tx(<<"bob", "alice">>, 1, 0, 0, <<Sys("Transfer", <<1, 2>>, 1, "bob"),
                                        Sys("Transfer", <<1, 2>>, 5, "bob")>>),
      Tx(<<"bob", "alice">>, 1, 0, 0, <<Sys("Transfer", <<1, 2>>, 1, "bob"),
                                        Ins("token", "Burn", <<1, 2>>, 1, 0, System, "bob"),
                                        Ins("budget", "SetLimit", <<>>, 0, 0, System, "bob")>>),
      Tx(<<"bob", "alice">>, 1, 0, 0, <<Sys("Transfer", <<1, 3>>, 1, "bob")>>) }

CreateTxs ==
    { Tx(<<"alice", "bob">>, 2, 0, 0, <<Sys("CreateAccount", <<1, 2>>, 2, "bob")>>),
      \* the account that funds is only read
      Tx(<<"bob", "alice">>, 2, 1, 0, <<Sys("CreateAccount", <<2, 1>>, 2, "bob")>>),
      \* the account that is created is only read
      Tx(<<"alice", "bob">>, 2, 1, 0, <<Sys("CreateAccount", <<1, 2>>, 2, "bob")>>),
      Tx(<<"alice", "derived">>, 1, 0, 0,
         <<Ins(System, "CreateAccountWithSeed", <<1, 2>>, 2, 1, "prog", "alice")>>),
      Tx(<<"alice", "derived", "bob">>, 1, 0, 0,
         <<Ins(System, "TransferWithSeed", <<2, 1, 3>>, 1, 0, "prog", "alice")>>),
      Tx(<<"alice", "derived">>, 1, 0, 0,
         <<Ins(System, "AllocateWithSeed", <<2>>, 0, 1, "prog", "alice")>>),
      Tx(<<"alice", "derived">>, 1, 0, 0,
         <<Ins(System, "AssignWithSeed", <<2>>, 0, 1, "prog", "alice")>>),
      Tx(<<"bob">>, 1, 0, 0, <<Sys("Allocate", <<1>>, 0, "bob")>>),
      Tx(<<"bob">>, 1, 0, 0, <<Ins(System, "Assign", <<1>>, 0, 0, "prog", "bob")>>) }

NonceTxs ==
    { Tx(<<"alice", "bob">>, 1, 0, 0, <<Sys("InitializeNonceAccount", <<2>>, 0, "alice")>>),
      Tx(<<"alice", "bob">>, 1, 0, 0, <<Sys("AdvanceNonceAccount", <<2, 1, 1>>, 0, "alice")>>),
      Tx(<<"alice", "bob">>, 1, 0, 0, <<Sys("AuthorizeNonceAccount", <<2, 1>>, 0, "bob")>>),
      Tx(<<"alice", "bob">>, 1, 0, 0,
         <<Sys("WithdrawNonceAccount", <<2, 1, 1, 1, 1>>, 2, "alice")>>),
      \* an account that the transaction makes a nonce account first
      Tx(<<"alice", "bob">>, 1, 0, 0,
         <<Sys("InitializeNonceAccount", <<2>>, 0, "alice"),
           Sys("WithdrawNonceAccount", <<2, 1, 1, 1, 1>>, 2, "alice")>>) }

MCTxs == TransferTxs \cup CreateTxs \cup NonceTxs

Acc(lamports) == [lamports |-> lamports, space |-> 0, nonce |-> NoNonce, owner |-> System]
NonceAcc == [lamports |-> 2, space |-> 2, nonce |-> [auth |-> "alice", hash |-> 1],
             owner |-> System]

Source(kind, n, entries, sound) ==
    [kind |-> kind, slot |-> n, entries |-> entries, sound |-> sound]

(* An archive may hold several versions of an account, and deleted ones.   *)
MCArchive == << [key |-> "alice", account |-> Acc(2)], [key |-> "bob", account |-> NonceAcc],
                [key |-> "derived", account |-> Acc(0)],
                [key |-> "alice", account |-> Acc(3)] >>
MCSnapshot == << [key |-> "alice", account |-> Acc(3)], [key |-> "bob", account |-> Acc(1)] >>

MCSources == { Source("solana", 1, MCArchive, TRUE),
               Source("native", 1, MCSnapshot, TRUE),
               Source("native", 1, MCSnapshot, FALSE) }
=============================================================================
