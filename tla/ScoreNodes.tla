----------------------------- MODULE ScoreNodes -----------------------------
(***************************************************************************)
(* camo-circuit, constructor.go: the sort of scoreNodes, one step per      *)
(* iteration of its inner loop. It never leaves that loop early, unlike    *)
(* the textbook insertion sort. A node is its uptime, in percent, its SIM  *)
(* pool size and its place in the input; indices start at 1.               *)
(***************************************************************************)
EXTENDS Naturals, Sequences

CONSTANTS
  MaxLen,       \* bound: nodes in the list
  Uptimes,      \* bound: the values of Uptime30d * 100
  SIMPoolSizes  \* bound: the values of SIMPoolSize

\* What the proofs take the constants to be.
ScoreConstants ==
  MaxLen \in Nat /\ Uptimes \subseteq 0 .. 100 /\ SIMPoolSizes \subseteq Nat

VARIABLES
  nodes,  \* the argument
  out,    \* the copy being sorted
  i, j    \* the loop variables

vars == <<nodes, out, i, j>>

Score(n) == n.uptime + n.simPoolSize

Init ==
  /\ \E n \in 0 .. MaxLen : \E u \in [1 .. n -> Uptimes], p \in [1 .. n -> SIMPoolSizes] :
       nodes = [k \in 1 .. n |-> [uptime |-> u[k], simPoolSize |-> p[k], pos |-> k]]
  /\ out = nodes
  /\ i = 2 /\ j = 2

Compare ==
  /\ i <= Len(out) /\ j > 1
  /\ out' = IF Score(out[j]) > Score(out[j - 1])
            THEN [out EXCEPT ![j] = out[j - 1], ![j - 1] = out[j]]
            ELSE out
  /\ j' = j - 1
  /\ UNCHANGED <<nodes, i>>

NextNode ==
  /\ i <= Len(out) /\ j = 1
  /\ i' = i + 1 /\ j' = i + 1
  /\ UNCHANGED <<nodes, out>>

Next == Compare \/ NextNode

Spec == Init /\ [][Next]_vars

-----------------------------------------------------------------------------
(***************************************************************************)
(* Properties.                                                             *)
(***************************************************************************)

\* What the code does: scoreNodes returns the nodes it was given, each once, by
\* descending score; nodes of equal score stay in the order of the input.
SortsByScore ==
  i > Len(out) =>
    /\ Len(out) = Len(nodes)
    /\ \A k \in DOMAIN nodes : \E l \in DOMAIN out : out[l] = nodes[k]
    /\ \A k, l \in DOMAIN out : k < l =>
         \/ Score(out[k]) > Score(out[l])
         \/ Score(out[k]) = Score(out[l]) /\ out[k].pos < out[l].pos

\* A statement of the documentation that the code breaks. constructor.go, above
\* scoreNodes: "sorted by uptime then SIM pool size descending". The pool size
\* decides between nodes of the same uptime only.
SortedByUptimeThenPool ==
  i > Len(out) =>
    \A k, l \in DOMAIN out : k < l =>
      \/ out[k].uptime > out[l].uptime
      \/ out[k].uptime = out[l].uptime /\ out[k].simPoolSize >= out[l].simPoolSize
=============================================================================
