--------------------------- MODULE MCCircuitBuild ---------------------------
(***************************************************************************)
(* CircuitBuild on every assignment of jurisdictions, and of at most       *)
(* MaxExits exits, to Candidate servers, of which gossip names all or the  *)
(* first three. Servers are numbered in the order of scoreNodes: every     *)
(* other order is a renaming. Server 0 is the one that builds.             *)
(***************************************************************************)
EXTENDS CircuitBuild, TLC

CONSTANTS
  Candidate,   \* how many other servers there are
  MaxExits     \* how many of them may be exits

MCServers == 0 .. Candidate

MCNetworks ==
  {[nodes |-> n, jurisdiction |-> j @@ (0 :> NoJurisdiction), exitNode |-> e,
    rank |-> [x \in MCServers |-> x]] :
     n \in {MCServers, MCServers \ {0}, 0 .. 3},
     j \in [1 .. Candidate -> Jurisdictions \cup {NoJurisdiction}],
     e \in {E \in SUBSET (1 .. Candidate) : Cardinality(E) <= MaxExits}}

Symmetry == Permutations(Jurisdictions)
=============================================================================
