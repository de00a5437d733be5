------------------------------- MODULE MCNode -------------------------------
(***************************************************************************)
(* Instances of Node for TLC.  The chain is a line: each block names the   *)
(* produced slot before it.                                                *)
(***************************************************************************)
EXTENDS Node

MCChain == 1..3               \* every slot has a block
MCLongChain == 1..4
MCSkipChain == {1, 2, 4}      \* slot 3 was skipped by its leader
MCHighChain == 3..5           \* a chain joined above the pending window

PreviousIn(chain) ==
    [s \in chain |-> IF \E t \in chain : t < s
                     THEN CHOOSE t \in chain :
                             t < s /\ \A u \in chain : u < s => u <= t
                     ELSE s - 1]

MCParent == PreviousIn(Produced)
=============================================================================
