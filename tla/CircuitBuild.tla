---------------------------- MODULE CircuitBuild ----------------------------
(***************************************************************************)
(* camo-circuit, constructor.go: one run of constructor.build.             *)
(*                                                                         *)
(* build is sequential; what makes it hard to test is that every choice is *)
(* random. A network is a record of what list_peers returned (distinct     *)
(* server ids, the gossip store being keyed by them) and of the order that *)
(* scoreNodes gave the nodes; ScoreNodes checks that sort on its own.      *)
(***************************************************************************)
EXTENDS Integers, FiniteSets, Sequences

CONSTANTS
  Servers,           \* server ids
  Own,               \* constructor.ownServerID
  Jurisdictions,     \* values of primaryJurisdiction
  NoJurisdiction,    \* "": no jurisdiction announced, and lastJurisdiction at first
  Networks,          \* the networks build is run on
  MinHops,           \* minHops (3)
  MaxHops,           \* maxHops (5)
  MinNetworkSize,    \* minNetworkSize (3)
  MinJurisdictions,  \* minJurisdictions (3)
  PoolSize           \* poolSize in selectMiddleHops (3)

Network ==
  [nodes        : SUBSET Servers,
   jurisdiction : [Servers -> Jurisdictions \cup {NoJurisdiction}],
   exitNode     : SUBSET Servers,
   rank         : [Servers -> Nat]]   \* position in the output of scoreNodes

ASSUME BuildAssumption ==
  /\ IsFiniteSet(Servers)
  /\ Networks \subseteq Network
  /\ \A w \in Networks : \A x, y \in Servers : w.rank[x] = w.rank[y] => x = y
  /\ MinHops \in Nat /\ MaxHops \in Nat
  /\ 2 <= MinHops /\ MinHops <= MaxHops
  /\ PoolSize \in Nat \ {0}

VARIABLES
  net,        \* the network, fixed
  phase,      \* "start", "middle", "done" or "failed"
  hopCount,   \* hops to build, the exit included
  remaining,  \* nodes left in scored
  hops        \* the hops chosen so far, the exit last

vars == <<net, phase, hopCount, remaining, hops>>

J(x) == net.jurisdiction[x]

Candidates == net.nodes \ {Own}

Hops == {hops[i] : i \in DOMAIN hops}

LastJurisdiction == IF hops = <<>> THEN NoJurisdiction ELSE J(hops[Len(hops)])

\* scored[:poolSize]
Top(S) == {x \in S : Cardinality({y \in S : net.rank[y] < net.rank[x]}) < PoolSize}

\* Mutation: the relaxation applies although some top node is eligible.
EligibleAlwaysRelaxed(S) == Top(S)

\* The top nodes in another jurisdiction than the last hop, all of the top
\* nodes when there is none.
Eligible(S) ==
  LET diverse == {x \in Top(S) : J(x) # LastJurisdiction}
  IN  IF diverse = {} THEN Top(S) ELSE diverse

\* Mutation: the exit may be a middle hop already chosen.
ExitCandidatesReused ==
  {x \in Candidates : x \in net.exitNode /\ J(x) # LastJurisdiction}

ExitCandidates ==
  {x \in Candidates : x \in net.exitNode /\ x \notin Hops /\ J(x) # LastJurisdiction}

Viable ==
  /\ Cardinality(Candidates) >= MinNetworkSize
  /\ Cardinality({J(x) : x \in Candidates}) >= MinJurisdictions

Init ==
  /\ net \in Networks
  /\ phase = "start" /\ hopCount = 0 /\ remaining = {} /\ hops = <<>>

Fail ==
  /\ phase' = "failed"
  /\ UNCHANGED <<net, hopCount, remaining, hops>>

NotViable == phase = "start" /\ ~Viable /\ Fail

\* Mutation: randomInt(n) taken to return a value in 1 .. n.
StartOneHopMore ==
  /\ phase = "start" /\ Viable
  /\ phase' = "middle"
  /\ hopCount' \in (MinHops + 1) .. (MaxHops + 1)
  /\ remaining' = Candidates
  /\ UNCHANGED <<net, hops>>

Start ==
  /\ phase = "start" /\ Viable
  /\ phase' = "middle"
  /\ hopCount' \in MinHops .. MaxHops
  /\ remaining' = Candidates
  /\ UNCHANGED <<net, hops>>

\* Mutation: the whole top of the list is dropped with the chosen node.
SelectMiddleHopDropsTop ==
  /\ phase = "middle" /\ Len(hops) < hopCount - 1
  /\ \E x \in Eligible(remaining) : hops' = Append(hops, x)
  /\ remaining' = remaining \ Top(remaining)
  /\ UNCHANGED <<net, phase, hopCount>>

\* One iteration of the loop in selectMiddleHops.
SelectMiddleHop ==
  /\ phase = "middle" /\ Len(hops) < hopCount - 1
  /\ \E x \in Eligible(remaining) :
       /\ hops' = Append(hops, x)
       /\ remaining' = remaining \ {x}
  /\ UNCHANGED <<net, phase, hopCount>>

\* scored is empty before enough hops are selected.
TooFewNodes == phase = "middle" /\ Len(hops) < hopCount - 1 /\ remaining = {} /\ Fail

SelectExit ==
  /\ phase = "middle" /\ Len(hops) = hopCount - 1
  /\ \E x \in ExitCandidates : hops' = Append(hops, x)
  /\ phase' = "done"
  /\ UNCHANGED <<net, hopCount, remaining>>

NoExit == phase = "middle" /\ Len(hops) = hopCount - 1 /\ ExitCandidates = {} /\ Fail

Next == NotViable \/ Start \/ SelectMiddleHop \/ TooFewNodes \/ SelectExit \/ NoExit

Spec == Init /\ [][Next]_vars

-----------------------------------------------------------------------------
(***************************************************************************)
(* Properties.                                                             *)
(***************************************************************************)

\* Types of the local variables of build.
TypeOK ==
  /\ net \in Network
  /\ phase \in {"start", "middle", "done", "failed"}
  /\ hopCount \in {0} \cup MinHops .. MaxHops
  /\ remaining \in SUBSET Servers
  /\ hops \in Seq(Servers)

\* A circuit build returns visits minHops to maxHops distinct servers, never
\* this one, and leaves through a server that announced itself as an exit, in
\* another jurisdiction than the hop before (constructor.go build).
CircuitWellFormed ==
  phase = "done" =>
    /\ Len(hops) \in MinHops .. MaxHops
    /\ \A i, j \in DOMAIN hops : hops[i] = hops[j] => i = j
    /\ \A i \in DOMAIN hops : hops[i] \in net.nodes /\ hops[i] # Own
    /\ hops[Len(hops)] \in net.exitNode
    /\ J(hops[Len(hops)]) # J(hops[Len(hops) - 1])

\* The jurisdiction constraint between middle hops is given up only when it has
\* to be: then every one of the best-scored servers not used before that hop is
\* in the jurisdiction of the hop before (constructor.go selectMiddleHops).
RelaxedOnlyWhenForced ==
  \A i \in 2 .. (IF phase = "done" THEN Len(hops) - 1 ELSE Len(hops)) :
    J(hops[i]) = J(hops[i - 1]) =>
      \A x \in Top(Candidates \ {hops[k] : k \in 1 .. (i - 1)}) : J(x) = J(hops[i - 1])

\* build runs out of nodes only if there are fewer candidates than middle hops:
\* otherwise a failure is for want of an exit (constructor.go).
FailsForWantOfExit ==
  phase = "failed" /\ Viable /\ Cardinality(Candidates) >= MaxHops - 1 =>
    \A x \in Candidates \cap net.exitNode : x \in Hops \/ J(x) = LastJurisdiction

=============================================================================
