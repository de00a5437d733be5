----------------------------- MODULE RpcBlock -----------------------------
(***************************************************************************)
(* pkg/rpcfetch/client.go: how the answer to getBlock becomes the block    *)
(* that is handed on.  A text of the answer is the value it stands for,    *)
(* None when absent or empty, Garbled when it does not decode (and then not*)
(* even in its first bytes).  Of instruction data the answer has both      *)
(* readings, base58 and base64.                                            *)
(***************************************************************************)
EXTENDS Integers, Sequences, FiniteSets

CONSTANTS None, Failed,
    Garbled,      \* a text that does not decode
    Zero,         \* the key or hash of zero bytes
    VoteProgram

(* A field that was not set stays zero. *)
Value(text) == IF text = None THEN Zero ELSE text

(* Where an error is dropped, a text that does not decode leaves zero too. *)
Lenient(text) == IF text \in {None, Garbled} THEN Zero ELSE text

Map(Op(_), s) == [i \in DOMAIN s |-> Op(s[i])]
Count(s, Test(_)) == Cardinality({i \in DOMAIN s : Test(s[i])})

(* Instruction data is base58, or else base64. *)
Data(d) == IF d = None THEN <<>> ELSE IF d.base58 # Garbled THEN d.base58 ELSE d.base64

(* A missing program index is 0. *)
Instruction(ix) ==
    [program |-> IF ix.program = None THEN 0 ELSE ix.program,
     accounts |-> ix.accounts, data |-> Data(ix.data)]

(* An inner instruction is converted even when its data does not decode. *)
InnerInstruction(ix) ==
    [program |-> ix.program, accounts |-> ix.accounts,
     data |-> IF Data(ix.data) = Garbled THEN <<>> ELSE Data(ix.data)]

Header_NoFallback(tx) ==
    LET signs(k) == k.object /\ k.signer
    IN [signers |-> Count(tx.keys, signs), readonlySigned |-> 0, readonlyUnsigned |-> 0]

(* The header is counted from the account keys when they are objects.  Plain *)
(* keys say nothing: then every signature needs a signer, and no account is  *)
(* read-only.                                                                *)
Header(tx) ==
    LET signs(k) == k.object /\ k.signer
        fixed(k) == k.object /\ k.writable = FALSE
        signers == Count(tx.keys, signs)
    IN [signers |-> IF signers = 0 THEN Len(tx.sigs) ELSE signers,
        readonlySigned |-> Count(tx.keys, LAMBDA k : signs(k) /\ fixed(k)),
        readonlyUnsigned |-> Count(tx.keys, LAMBDA k : ~signs(k) /\ fixed(k))]

(* convertTokenBalance. *)
TokenBalance(b) ==
    [b EXCEPT !.mint = Lenient(@), !.owner = Lenient(@), !.program = Lenient(@)]

(* The return data is kept when it came with data, whatever its program. *)
ReturnData(r) ==
    IF r = None \/ r.data = <<>> THEN None
    ELSE [program |-> Lenient(r.program),
          data |-> IF r.data[1] = Garbled THEN <<>> ELSE r.data[1]]

(* convertMeta never fails. *)
Meta(m) ==
    [m EXCEPT !.units = IF @ = None THEN 0 ELSE @,
              !.inner = Map(LAMBDA g : [g EXCEPT !.ixs = Map(InnerInstruction, @)], @),
              !.preTokens = Map(TokenBalance, @), !.postTokens = Map(TokenBalance, @),
              !.writable = Map(Lenient, @), !.readonly = Map(Lenient, @),
              !.returned = ReturnData(@)]

(* isVoteTransaction: some instruction calls the vote program. *)
IsVote(keys, ixs) ==
    \E i \in DOMAIN ixs : /\ ixs[i].program < Len(keys)
                          /\ keys[ixs[i].program + 1] = VoteProgram

(* convertTransaction fails on what does not decode, the metadata excepted. *)
Converts(tx) ==
    /\ Garbled \notin {tx.sigs[i] : i \in DOMAIN tx.sigs}
    /\ Garbled \notin {tx.keys[i].pubkey : i \in DOMAIN tx.keys}
    /\ tx.blockhash # Garbled
    /\ \A i \in DOMAIN tx.ixs : Data(tx.ixs[i].data) # Garbled
    /\ \A i \in DOMAIN tx.lookups : tx.lookups[i].key # Garbled

Transaction(tx) ==
    LET keys == Map(LAMBDA k : Value(k.pubkey), tx.keys)
        ixs == Map(Instruction, tx.ixs)
    IN [sigs |-> tx.sigs, header |-> Header(tx), keys |-> keys,
        blockhash |-> Value(tx.blockhash), ixs |-> ixs,
        lookups |-> Map(LAMBDA l : [l EXCEPT !.key = Value(@)], tx.lookups),
        legacy |-> tx.version \in {None, "legacy"},
        meta |-> IF tx.meta = None THEN None ELSE Meta(tx.meta),
        vote |-> IsVote(keys, ixs)]

(* convertReward; a kind it does not know is unspecified. *)
RewardKind(kind) ==
    CASE kind \in {"fee", "Fee"} -> "fee"
      [] kind \in {"rent", "Rent"} -> "rent"
      [] kind \in {"staking", "Staking"} -> "staking"
      [] kind \in {"voting", "Voting"} -> "voting"
      [] OTHER -> "unspecified"

Reward(r) == [r EXCEPT !.pubkey = Value(@), !.kind = RewardKind(@)]

(* convertBlockResponse. *)
Block(slot, resp) ==
    IF /\ resp.hash # Garbled /\ resp.parent # Garbled
       /\ \A i \in DOMAIN resp.txs : Converts(resp.txs[i])
       /\ \A i \in DOMAIN resp.rewards : resp.rewards[i].pubkey # Garbled
    THEN [slot |-> slot, hash |-> Value(resp.hash), parent |-> Value(resp.parent),
          txs |-> Map(Transaction, resp.txs), rewards |-> Map(Reward, resp.rewards)]
    ELSE Failed
=============================================================================
