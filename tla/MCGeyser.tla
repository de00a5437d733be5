------------------------------ MODULE MCGeyser ------------------------------
(***************************************************************************)
(* An instance of GeyserClient for TLC: a client that never gives up, which*)
(* is the default.                                                         *)
(***************************************************************************)
EXTENDS GeyserClient

MCMaxReconnects == {0}
=============================================================================
