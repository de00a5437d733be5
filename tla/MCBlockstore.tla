---------------------------- MODULE MCBlockstore ----------------------------
(***************************************************************************)
(* An instance of Blockstore for TLC: slot 2 has no block, the block of    *)
(* slot 4 two transactions; all touch the same account.                    *)
(***************************************************************************)
EXTENDS Blockstore

CONSTANTS t1, t2, t3, t4, a1, a2

MCSlots == {1, 3, 4}
MCMarks == {<<1, "finalized">>}
MCTxs == {t1, t2, t3, t4}
MCTxsOf == [s \in MCSlots |-> IF s = 1 THEN {t1} ELSE IF s = 3 THEN {t2} ELSE {t3, t4}]
MCAddrs == {a1, a2}
MCAddrsOf == [t \in MCTxs |-> IF t = t4 THEN {a1, a2} ELSE {a1}]
=============================================================================
