-------------------------- MODULE ScoreNodesProofs --------------------------
(***************************************************************************)
(* Proofs about ScoreNodes, for lists of every length and every score.     *)
(***************************************************************************)
EXTENDS ScoreNodes, TLAPS

Node == [uptime : Nat, simPoolSize : Nat, pos : Nat]

\* a is to come before b in the result.
Before(a, b) == Score(a) > Score(b) \/ (Score(a) = Score(b) /\ a.pos < b.pos)

\* The loop variables and the two lists.
LoopInv ==
  /\ nodes \in Seq(Node) /\ out \in Seq(Node)
  /\ Len(out) = Len(nodes)
  /\ i \in Nat /\ j \in Nat /\ 2 <= i /\ 1 <= j /\ j <= i
  /\ i > Len(out) => j = i
  /\ \A k \in DOMAIN nodes : nodes[k].pos = k

\* out is a permutation of nodes that has not touched the nodes after i.
PermInv ==
  /\ \A k \in DOMAIN nodes : \E l \in DOMAIN out : out[l] = nodes[k]
  /\ \A k, l \in DOMAIN out : out[k].pos = out[l].pos => k = l
  /\ \A k \in DOMAIN out : k > i => out[k] = nodes[k]
  /\ \A k \in DOMAIN out : k <= i => out[k].pos <= i

\* The first i nodes are in order but for the one at j, which is in order with
\* those behind it; if it is not yet in order with those before it, then it is
\* the one that the outer loop inserts.
SortInv ==
  /\ \A k, l \in DOMAIN out : k < l /\ l <= i /\ l # j => Before(out[k], out[l])
  /\ \/ \A k, l \in DOMAIN out : k < l /\ l <= i => Before(out[k], out[l])
     \/ j \in DOMAIN out /\ out[j].pos = i

IInv == LoopInv /\ PermInv /\ SortInv

\* A node has a natural score and place.
LEMMA NodeType ==
  ASSUME NEW a \in Node
  PROVE  Score(a) \in Nat /\ a.pos \in Nat
BY DEF Node, Score

\* The order of the result is transitive.
LEMMA BeforeTransitive ==
  ASSUME NEW a \in Node, NEW b \in Node, NEW c \in Node, Before(a, b), Before(b, c)
  PROVE  Before(a, c)
<1>1. /\ Score(a) \in Nat /\ Score(b) \in Nat /\ Score(c) \in Nat
      /\ a.pos \in Nat /\ b.pos \in Nat /\ c.pos \in Nat
  BY NodeType
<1> QED BY <1>1 DEF Before

\* The domain of out, which no step changes.
LEMMA OutDomain ==
  ASSUME LoopInv
  PROVE  /\ Len(out) \in Nat
         /\ DOMAIN out = 1 .. Len(out) /\ DOMAIN nodes = 1 .. Len(out)
         /\ \A k \in DOMAIN out : out[k] \in Node
BY DEF LoopInv

\* The copy is in place before the first comparison.
LEMMA InitInv ==
  ASSUME ScoreConstants, Init
  PROVE  IInv
<1>1. PICK n \in 0 .. MaxLen :
        \E u \in [1 .. n -> Uptimes], p \in [1 .. n -> SIMPoolSizes] :
          nodes = [k \in 1 .. n |-> [uptime |-> u[k], simPoolSize |-> p[k], pos |-> k]]
  BY DEF Init
<1>2. PICK u \in [1 .. n -> Uptimes], p \in [1 .. n -> SIMPoolSizes] :
        nodes = [k \in 1 .. n |-> [uptime |-> u[k], simPoolSize |-> p[k], pos |-> k]]
  BY <1>1
<1>3. n \in Nat /\ Uptimes \subseteq Nat /\ SIMPoolSizes \subseteq Nat
  BY DEF ScoreConstants
<1>4. nodes \in [1 .. n -> Node]
  <2>1. ASSUME NEW k \in 1 .. n
        PROVE  [uptime |-> u[k], simPoolSize |-> p[k], pos |-> k] \in Node
    <3>1. u[k] \in Uptimes /\ p[k] \in SIMPoolSizes
      OBVIOUS
    <3>2. k \in Nat
      BY <1>3
    <3> QED BY <1>3, <3>1, <3>2 DEF Node
  <2> QED BY <1>2, <2>1
<1>5. nodes \in Seq(Node) /\ Len(nodes) = n /\ DOMAIN nodes = 1 .. n
  BY <1>3, <1>4
<1>6. \A k \in 1 .. n : nodes[k].pos = k
  BY <1>2
<1>7. out = nodes /\ i = 2 /\ j = 2
  BY DEF Init
<1>8. LoopInv
  BY <1>5, <1>6, <1>7 DEF LoopInv
<1>9. PermInv
  BY <1>3, <1>5, <1>6, <1>7 DEF PermInv
<1>10. SortInv
  <2>1. CASE n >= 2
    BY <1>3, <1>5, <1>6, <1>7, <2>1 DEF SortInv
  <2>2. CASE n < 2
    <3>1. \A k, l \in DOMAIN out : ~(k < l)
      BY <1>3, <1>5, <1>7, <2>2
    <3> QED BY <3>1 DEF SortInv
  <2> QED BY <1>3, <2>1, <2>2
<1> QED BY <1>8, <1>9, <1>10 DEF IInv

\* The outer loop takes up the next node: those before it are in order.
LEMMA NextNodeStep ==
  ASSUME IInv, NextNode
  PROVE  IInv'
<1>1. i <= Len(out) /\ j = 1 /\ i' = i + 1 /\ j' = i + 1 /\ nodes' = nodes /\ out' = out
  BY DEF NextNode
<1>2. PICK n \in Nat : n = Len(out)
  BY OutDomain DEF IInv
<1>3. /\ DOMAIN out = 1 .. n /\ DOMAIN nodes = 1 .. n /\ i \in Nat /\ 2 <= i /\ i <= n
      /\ DOMAIN out' = 1 .. n /\ DOMAIN nodes' = 1 .. n /\ Len(out') = n
  BY <1>1, <1>2, OutDomain DEF IInv, LoopInv
<1>4. LoopInv'
  BY <1>1, <1>2, <1>3 DEF IInv, LoopInv
<1>5. \A k \in 1 .. n : k > i => out[k] = nodes[k] /\ out[k].pos = k
  <2>1. \A k \in 1 .. n : k > i => out[k] = nodes[k]
    BY <1>3 DEF IInv, PermInv
  <2>2. \A k \in 1 .. n : nodes[k].pos = k
    BY <1>3 DEF IInv, LoopInv
  <2> QED BY <2>1, <2>2
<1>6. PermInv'
  <2>1. \A k \in DOMAIN out' : k <= i' => out'[k].pos <= i'
    <3> SUFFICES ASSUME NEW k \in 1 .. n, k <= i + 1 PROVE out[k].pos <= i + 1
      BY <1>1, <1>3
    <3>1. CASE k <= i
      <4>1. out[k].pos \in Nat /\ out[k].pos <= i
        BY <1>3, <3>1, OutDomain, NodeType DEF IInv, PermInv
      <4> QED BY <1>3, <4>1
    <3>2. CASE k > i
      BY <1>3, <1>5, <3>2
    <3> QED BY <1>3, <3>1, <3>2
  <2> QED BY <1>1, <1>3, <2>1 DEF IInv, PermInv
<1>7. SortInv'
  <2>1. \A k, l \in 1 .. n : k < l /\ l <= i => Before(out[k], out[l])
    <3> SUFFICES ASSUME NEW k \in 1 .. n, NEW l \in 1 .. n, k < l, l <= i
                 PROVE  Before(out[k], out[l])
      OBVIOUS
    <3>1. l # j
      BY <1>1
    <3> QED BY <1>3, <3>1 DEF IInv, SortInv
  <2>2. \A k, l \in DOMAIN out' : k < l /\ l <= i' /\ l # j' => Before(out'[k], out'[l])
    BY <1>1, <1>3, <2>1
  <2>3. CASE i + 1 <= n
    BY <1>1, <1>3, <1>5, <2>2, <2>3 DEF SortInv
  <2>4. CASE i + 1 > n
    <3>1. \A k, l \in DOMAIN out' : k < l /\ l <= i' => Before(out'[k], out'[l])
      BY <1>1, <1>3, <2>1, <2>4
    <3> QED BY <2>2, <3>1 DEF SortInv
  <2> QED BY <1>3, <2>3, <2>4
<1> QED BY <1>4, <1>6, <1>7 DEF IInv

\* A comparison that swaps moves the node being inserted one place forward.
LEMMA SwapStep ==
  ASSUME IInv, Compare, Score(out[j]) > Score(out[j - 1])
  PROVE  IInv'
<1>1. /\ i <= Len(out) /\ j > 1 /\ j' = j - 1 /\ i' = i /\ nodes' = nodes
      /\ out' = [out EXCEPT ![j] = out[j - 1], ![j - 1] = out[j]]
  BY DEF Compare
<1>2. PICK n \in Nat : n = Len(out)
  BY OutDomain DEF IInv
<1>3. /\ DOMAIN out = 1 .. n /\ DOMAIN nodes = 1 .. n
      /\ i \in Nat /\ j \in Nat /\ 2 <= i /\ i <= n /\ 2 <= j /\ j <= i
      /\ j \in 1 .. n /\ j - 1 \in 1 .. n
      /\ \A k \in 1 .. n : out[k] \in Node /\ Score(out[k]) \in Nat /\ out[k].pos \in Nat
  <2>1. DOMAIN out = 1 .. n /\ DOMAIN nodes = 1 .. n /\ i \in Nat /\ j \in Nat /\ 2 <= i /\ j <= i
    BY <1>2, OutDomain DEF IInv, LoopInv
  <2>2. \A k \in 1 .. n : out[k] \in Node
    BY <2>1, OutDomain DEF IInv
  <2>3. \A k \in 1 .. n : Score(out[k]) \in Nat /\ out[k].pos \in Nat
    BY <2>2, NodeType
  <2>4. i <= n /\ 2 <= j
    BY <1>1, <1>2, <2>1
  <2>5. j \in 1 .. n /\ j - 1 \in 1 .. n
    BY <2>1, <2>4
  <2> QED BY <2>1, <2>2, <2>3, <2>4, <2>5
<1>4. /\ DOMAIN out' = 1 .. n
      /\ out'[j] = out[j - 1] /\ out'[j - 1] = out[j]
      /\ \A k \in 1 .. n : k # j /\ k # j - 1 => out'[k] = out[k]
  BY <1>1, <1>3
<1>5. out' \in Seq(Node) /\ Len(out') = n
  <2>1. out' \in [1 .. n -> Node]
    BY <1>1, <1>3
  <2> QED BY <1>2, <2>1
<1>6. LoopInv'
  BY <1>1, <1>2, <1>3, <1>5 DEF IInv, LoopInv
<1>7. PermInv'
  <2>1. ASSUME NEW k \in 1 .. n PROVE \E l \in 1 .. n : out'[l] = nodes[k]
    <3>1. PICK l \in 1 .. n : out[l] = nodes[k]
      BY <1>3 DEF IInv, PermInv
    <3>2. CASE l = j
      BY <1>3, <1>4, <3>1, <3>2
    <3>3. CASE l = j - 1
      BY <1>3, <1>4, <3>1, <3>3
    <3>4. CASE l # j /\ l # j - 1
      BY <1>3, <1>4, <3>1, <3>4
    <3> QED BY <3>2, <3>3, <3>4
  <2>2. ASSUME NEW k \in 1 .. n, NEW l \in 1 .. n, out'[k].pos = out'[l].pos PROVE k = l
    <3> DEFINE from(m) == IF m = j THEN j - 1 ELSE IF m = j - 1 THEN j ELSE m
    <3>1. \A m \in 1 .. n : from(m) \in 1 .. n /\ out'[m] = out[from(m)]
      BY <1>3, <1>4
    <3>2. \A m, q \in 1 .. n : out[m].pos = out[q].pos => m = q
      BY <1>3 DEF IInv, PermInv
    <3>3. from(k) = from(l)
      BY <2>2, <3>1, <3>2
    <3> QED BY <1>3, <3>3
  <2>3. ASSUME NEW k \in 1 .. n, k > i PROVE out'[k] = nodes[k]
    <3>1. out'[k] = out[k]
      BY <1>3, <1>4, <2>3
    <3> QED BY <1>3, <2>3, <3>1 DEF IInv, PermInv
  <2>4. ASSUME NEW k \in 1 .. n, k <= i PROVE out'[k].pos <= i
    <3>1. \A m \in 1 .. n : m <= i => out[m].pos <= i
      BY <1>3 DEF IInv, PermInv
    <3>2. out[j].pos <= i /\ out[j - 1].pos <= i /\ out[k].pos <= i
      BY <1>3, <2>4, <3>1
    <3>3. out'[k] \in {out[j], out[j - 1], out[k]}
      BY <1>4
    <3> QED BY <3>2, <3>3
  <2>5. DOMAIN out' = 1 .. n /\ DOMAIN nodes' = 1 .. n /\ nodes' = nodes /\ i' = i
    BY <1>1, <1>3, <1>4
  <2> QED BY <2>1, <2>2, <2>3, <2>4, <2>5 DEF PermInv
<1>8. SortInv'
  <2>1. ~Before(out[j - 1], out[j])
    BY <1>3 DEF Before
  <2>2. out[j].pos = i
    <3>1. \/ \A k, l \in 1 .. n : k < l /\ l <= i => Before(out[k], out[l])
          \/ out[j].pos = i
      BY <1>3 DEF IInv, SortInv
    <3>2. j - 1 < j /\ j <= i /\ j \in 1 .. n /\ j - 1 \in 1 .. n
      BY <1>3
    <3>3. ~ \A k, l \in 1 .. n : k < l /\ l <= i => Before(out[k], out[l])
      BY <2>1, <3>2
    <3> QED BY <3>1, <3>3, Zenon
  <2>3. Before(out[j], out[j - 1])
    BY DEF Before
  <2>4. \A k, l \in 1 .. n : k < l /\ l <= i /\ l # j => Before(out[k], out[l])
    BY <1>3 DEF IInv, SortInv
  <2>5. ASSUME NEW k \in 1 .. n, NEW l \in 1 .. n, k < l, l <= i, l # j - 1
        PROVE  Before(out'[k], out'[l])
    <3>1. CASE l = j
      <4>1. CASE k = j - 1
        BY <1>4, <2>3, <3>1, <4>1
      <4>2. CASE k # j - 1
        BY <1>3, <1>4, <2>4, <2>5, <3>1, <4>2
      <4> QED BY <4>1, <4>2
    <3>2. CASE l # j /\ k = j - 1
      BY <1>3, <1>4, <2>4, <2>5, <3>2
    <3>3. CASE l # j /\ k = j
      BY <1>3, <1>4, <2>4, <2>5, <3>3
    <3>4. CASE l # j /\ k # j /\ k # j - 1
      BY <1>4, <2>4, <2>5, <3>4
    <3> QED BY <3>1, <3>2, <3>3, <3>4
  <2>6. j' \in DOMAIN out' /\ out'[j'].pos = i'
    BY <1>1, <1>3, <1>4, <2>2
  <2> QED BY <1>1, <1>4, <2>5, <2>6 DEF SortInv
<1> QED BY <1>6, <1>7, <1>8 DEF IInv

\* A comparison that does not swap: the first i nodes are in order.
LEMMA KeepStep ==
  ASSUME IInv, Compare, ~(Score(out[j]) > Score(out[j - 1]))
  PROVE  IInv'
<1>1. i <= Len(out) /\ j > 1 /\ j' = j - 1 /\ i' = i /\ nodes' = nodes /\ out' = out
  BY DEF Compare
<1>2. PICK n \in Nat : n = Len(out)
  BY OutDomain DEF IInv
<1>3. /\ DOMAIN out = 1 .. n /\ DOMAIN nodes = 1 .. n
      /\ i \in Nat /\ j \in Nat /\ 2 <= i /\ i <= n /\ 2 <= j /\ j <= i
      /\ j \in 1 .. n /\ j - 1 \in 1 .. n
      /\ \A k \in 1 .. n : out[k] \in Node /\ Score(out[k]) \in Nat /\ out[k].pos \in Nat
  <2>1. DOMAIN out = 1 .. n /\ DOMAIN nodes = 1 .. n /\ i \in Nat /\ j \in Nat /\ 2 <= i /\ j <= i
    BY <1>2, OutDomain DEF IInv, LoopInv
  <2>2. \A k \in 1 .. n : out[k] \in Node
    BY <2>1, OutDomain DEF IInv
  <2>3. \A k \in 1 .. n : Score(out[k]) \in Nat /\ out[k].pos \in Nat
    BY <2>2, NodeType
  <2>4. i <= n /\ 2 <= j
    BY <1>1, <1>2, <2>1
  <2>5. j \in 1 .. n /\ j - 1 \in 1 .. n
    BY <2>1, <2>4
  <2> QED BY <2>1, <2>2, <2>3, <2>4, <2>5
<1>4. LoopInv'
  BY <1>1, <1>2, <1>3 DEF IInv, LoopInv
<1>5. PermInv'
  BY <1>1 DEF IInv, PermInv
<1>6. \A k, l \in 1 .. n : k < l /\ l <= i => Before(out[k], out[l])
  <2>1. CASE \A k, l \in DOMAIN out : k < l /\ l <= i => Before(out[k], out[l])
    BY <1>3, <2>1
  <2>2. CASE out[j].pos = i
    <3>1. out[j - 1].pos < out[j].pos
      <4>1. \A k \in 1 .. n : k <= i => out[k].pos <= i
        BY <1>3 DEF IInv, PermInv
      <4>2. \A k, l \in 1 .. n : out[k].pos = out[l].pos => k = l
        BY <1>3 DEF IInv, PermInv
      <4>3. out[j - 1].pos # out[j].pos
        BY <1>3, <4>2
      <4>4. out[j - 1].pos <= i
        BY <1>3, <4>1
      <4> QED BY <1>3, <2>2, <4>3, <4>4
    <3>2. Before(out[j - 1], out[j])
      BY <1>3, <3>1 DEF Before
    <3>3. \A k, l \in 1 .. n : k < l /\ l <= i /\ l # j => Before(out[k], out[l])
      BY <1>3 DEF IInv, SortInv
    <3>4. ASSUME NEW k \in 1 .. n, k < j PROVE Before(out[k], out[j])
      <4>1. CASE k = j - 1
        BY <3>2, <4>1
      <4>2. CASE k < j - 1
        <5>1. Before(out[k], out[j - 1])
          BY <1>3, <3>3, <4>2
        <5> QED BY <1>3, <3>2, <5>1, BeforeTransitive
      <4> QED BY <1>3, <3>4, <4>1, <4>2
    <3> QED BY <3>3, <3>4
  <2> QED BY <2>1, <2>2 DEF IInv, SortInv
<1>7. SortInv'
  BY <1>1, <1>3, <1>6 DEF SortInv
<1> QED BY <1>4, <1>5, <1>7 DEF IInv

\* scoreNodes sorts: for a list of any length and any scores, once the outer loop
\* has ended the result holds every node, by descending score, nodes of equal
\* score in the order of the argument. The hand-written sort is stable although
\* its inner loop never stops early.
THEOREM Sorts ==
  ASSUME ScoreConstants
  PROVE  Spec => []SortsByScore
<1>1. Init => IInv
  BY InitInv
<1>2. IInv /\ [Next]_vars => IInv'
  <2> SUFFICES ASSUME IInv, [Next]_vars PROVE IInv'
    OBVIOUS
  <2>1. CASE Compare
    BY <2>1, SwapStep, KeepStep
  <2>2. CASE NextNode
    BY <2>2, NextNodeStep
  <2>3. CASE UNCHANGED vars
    BY <2>3 DEF vars, IInv, LoopInv, PermInv, SortInv
  <2> QED BY <2>1, <2>2, <2>3 DEF Next
<1>3. IInv => SortsByScore
  <2> SUFFICES ASSUME IInv, i > Len(out)
               PROVE  /\ Len(out) = Len(nodes)
                      /\ \A k \in DOMAIN nodes : \E l \in DOMAIN out : out[l] = nodes[k]
                      /\ \A k, l \in DOMAIN out : k < l => Before(out[k], out[l])
    BY DEF SortsByScore, Before
  <2>1. ASSUME NEW k \in DOMAIN out, NEW l \in DOMAIN out, k < l
        PROVE  Before(out[k], out[l])
    <3>1. l <= i /\ l # j
      BY OutDomain DEF IInv, LoopInv
    <3> QED BY <2>1, <3>1 DEF IInv, SortInv
  <2> QED BY <2>1 DEF IInv, LoopInv, PermInv
<1> QED BY <1>1, <1>2, <1>3, PTL DEF Spec
=============================================================================
