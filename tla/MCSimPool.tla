----------------------------- MODULE MCSimPool -----------------------------
(***************************************************************************)
(* Small instances of SimPool. SIMs and tokens are interchangeable: no     *)
(* action and no safety property names one.                                *)
(***************************************************************************)
EXTENDS SimPool, TLC

Symmetry == Permutations(SIMs) \cup Permutations(Tokens)
=============================================================================
