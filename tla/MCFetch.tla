------------------------------ MODULE MCFetch ------------------------------
(* Two URLs, one of which never answers; the other is the reference and one *)
(* node's contact info names first the one, then the other.                 *)
EXTENDS Fetcher

CONSTANTS Good, Dead, N1, N2, SigA, SigB, Payer, Friend, HashA, HashB

Node(id, clock, url) == [id |-> id, clock |-> clock, shred |-> 1, url |-> url]

MCInfos == {Node(N1, 1, Dead), Node(N1, 2, Good)}
MCViews == {<<Node(N1, 0, Dead), Node(None, 0, Good)>>,
            <<Node(N1, 0, Good), Node(N2, 0, Dead)>>,
            <<Node(N2, 0, None)>>}
MCDown == {Dead}
MCReferences == <<Dead, Good>>

Key(k) == [object |-> FALSE, pubkey |-> k, signer |-> None, writable |-> None]
KeyObject(k, signer, writable) == [object |-> TRUE, pubkey |-> k, signer |-> signer, writable |-> writable]
Ix(program, data) == [program |-> program, accounts |-> <<0>>, data |-> data]
Either58 == [base58 |-> <<1>>, base64 |-> <<2>>]
Only64 == [base58 |-> Garbled, base64 |-> <<2>>]
Neither == [base58 |-> Garbled, base64 |-> Garbled]

SomeMeta ==
    [err |-> None, fee |-> 1, units |-> None,
     inner |-> <<[index |-> 0, ixs |-> <<Ix(1, Neither)>>]>>,
     preTokens |-> <<[account |-> 0, mint |-> Garbled, owner |-> Payer, program |-> None]>>,
     postTokens |-> <<>>, writable |-> <<Garbled>>, readonly |-> <<Friend>>,
     returned |-> [program |-> Garbled, data |-> <<Garbled>>]]

Tx(sigs, keys, ixs, meta) ==
    [sigs |-> sigs, keys |-> keys, blockhash |-> HashA, ixs |-> ixs, lookups |-> <<[key |-> Friend]>>,
     version |-> None, meta |-> meta]

Resp(txs) ==
    [hash |-> HashB, parent |-> HashA, txs |-> txs, rewards |-> <<[pubkey |-> Payer, kind |-> "Fee"]>>]

Vote == Tx(<<SigA>>, <<Key(Payer), Key(VoteProgram)>>, <<Ix(1, Either58)>>, SomeMeta)
Pay == Tx(<<SigA, SigB>>,
          <<KeyObject(Payer, TRUE, TRUE), KeyObject(Friend, TRUE, FALSE), KeyObject(Zero, FALSE, FALSE)>>,
          <<Ix(2, Only64), Ix(None, None)>>, None)
Undecodable == Tx(<<SigA>>, <<Key(Payer)>>, <<Ix(0, Neither)>>, None)

MCBlockAt == (1 :> Resp(<<Vote>>)) @@ (3 :> Resp(<<Pay>>))
MCBadAnswers == {Resp(<<Undecodable>>)}
=============================================================================
