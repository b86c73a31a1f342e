---------------------------- MODULE MCGossipNet ----------------------------
(***************************************************************************)
(* Small instances of GossipNet.                                           *)
(***************************************************************************)
EXTENDS GossipNet

CONSTANTS a, b, c

\* A cycle of bootstrap peers, and a node that enters it and that no list names.
Ring == [n \in Nodes |-> CASE n = a -> {b} [] n = b -> {a} [] OTHER -> {a}]
=============================================================================
