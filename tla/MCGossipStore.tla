--------------------------- MODULE MCGossipStore ---------------------------
(***************************************************************************)
(* Small instances of GossipStore; the handler goroutines are alike.       *)
(***************************************************************************)
EXTENDS GossipStore, TLC

Symmetry == Permutations(Handlers)
=============================================================================
