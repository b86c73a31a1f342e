------------------------- MODULE CircuitBuildProofs -------------------------
(***************************************************************************)
(* Proofs about CircuitBuild, for every network and every hop range.       *)
(***************************************************************************)
EXTENDS CircuitBuild, FiniteSetTheorems, TLAPS

\* While middle hops are selected, the hops chosen so far are distinct
\* candidates that are no longer in the scored list.
MiddleInv ==
  phase = "middle" =>
    /\ hopCount \in MinHops .. MaxHops
    /\ Len(hops) < hopCount
    /\ remaining \subseteq Candidates
    /\ \A i \in DOMAIN hops : hops[i] \in Candidates \ remaining
    /\ \A i, j \in DOMAIN hops : hops[i] = hops[j] => i = j

\* The inductive invariant.
IInv ==
  /\ TypeOK
  /\ phase = "start" => hops = <<>>
  /\ MiddleInv
  /\ CircuitWellFormed

\* What Eligible offers is still in the scored list.
LEMMA EligibleRemaining ==
  ASSUME NEW S, NEW x \in Eligible(S)
  PROVE  x \in S
BY DEF Eligible, Top

\* The candidates are announced servers other than this one.
LEMMA CandidatesType ==
  ASSUME TypeOK
  PROVE  /\ Candidates \subseteq Servers
         /\ Candidates \subseteq net.nodes
         /\ Own \notin Candidates
BY DEF TypeOK, Network, Candidates

\* A circuit has at least one middle hop and an exit.
LEMMA HopRange ==
  /\ MinHops \in Nat /\ MaxHops \in Nat
  /\ \A h \in MinHops .. MaxHops : h \in Nat /\ 2 <= h
<1>1. MinHops \in Nat /\ MaxHops \in Nat /\ 2 <= MinHops
  BY BuildAssumption
<1> QED BY <1>1

\* A failing return keeps the invariant.
LEMMA FailStep ==
  ASSUME IInv, Fail
  PROVE  IInv'
BY DEF IInv, Fail, TypeOK, MiddleInv, CircuitWellFormed

\* Choosing the hop count starts the selection with all candidates.
LEMMA StartStep ==
  ASSUME IInv, Start
  PROVE  IInv'
<1>1. phase' = "middle" /\ net' = net /\ hops' = <<>> /\ remaining' = Candidates
      /\ hopCount' \in MinHops .. MaxHops
  BY DEF Start, IInv
<1>2. TypeOK'
  BY <1>1, CandidatesType DEF IInv, TypeOK
<1>3. MiddleInv'
  <2>1. DOMAIN hops' = {} /\ Candidates' = Candidates
    BY <1>1 DEF Candidates
  <2>2. hopCount' \in Nat /\ 2 <= hopCount'
    BY <1>1, HopRange
  <2>3. Len(hops') < hopCount'
    BY <1>1, <2>2
  <2> QED BY <1>1, <2>1, <2>3 DEF MiddleInv
<1> QED BY <1>1, <1>2, <1>3 DEF IInv, CircuitWellFormed

\* A middle hop is a candidate not chosen before.
LEMMA SelectStep ==
  ASSUME IInv, SelectMiddleHop
  PROVE  IInv'
<1>1. PICK x \in Eligible(remaining) : hops' = Append(hops, x) /\ remaining' = remaining \ {x}
  BY DEF SelectMiddleHop
<1>2. phase = "middle" /\ phase' = "middle" /\ net' = net /\ hopCount' = hopCount
      /\ Len(hops) < hopCount - 1
  BY DEF SelectMiddleHop
<1>3. x \in remaining /\ x \in Candidates /\ x \in Servers
  BY <1>2, EligibleRemaining, CandidatesType DEF IInv, MiddleInv
<1>4. /\ hops \in Seq(Servers)
      /\ hops' \in Seq(Servers)
      /\ Len(hops') = Len(hops) + 1
      /\ DOMAIN hops = 1 .. Len(hops)
      /\ DOMAIN hops' = 1 .. (Len(hops) + 1)
      /\ \A i \in DOMAIN hops : hops'[i] = hops[i]
      /\ hops'[Len(hops) + 1] = x
      /\ Len(hops) \in Nat
  BY <1>1, <1>3 DEF IInv, TypeOK
<1>5. TypeOK'
  BY <1>1, <1>2, <1>4 DEF IInv, TypeOK
<1>6. MiddleInv'
  <2>1. hopCount \in MinHops .. MaxHops /\ Len(hops') < hopCount'
    BY <1>2, <1>4, BuildAssumption DEF IInv, MiddleInv
  <2>2. \A i \in DOMAIN hops : hops[i] \in Candidates \ remaining
    BY <1>2 DEF IInv, MiddleInv
  <2>3. ASSUME NEW i \in DOMAIN hops'
        PROVE  hops'[i] \in Candidates \ remaining'
    BY <1>1, <1>3, <1>4, <2>2
  <2>4. ASSUME NEW i \in DOMAIN hops', NEW j \in DOMAIN hops', hops'[i] = hops'[j]
        PROVE  i = j
    <3>1. CASE i \in DOMAIN hops /\ j \in DOMAIN hops
      BY <1>2, <1>4, <2>4, <3>1 DEF IInv, MiddleInv
    <3>2. CASE i \notin DOMAIN hops \/ j \notin DOMAIN hops
      BY <1>3, <1>4, <2>2, <2>4, <3>2
    <3> QED BY <3>1, <3>2
  <2>5. Candidates' = Candidates /\ remaining' \subseteq Candidates
    BY <1>1, <1>2 DEF IInv, MiddleInv, Candidates
  <2> QED BY <1>2, <2>1, <2>3, <2>4, <2>5 DEF MiddleInv
<1> QED BY <1>2, <1>5, <1>6 DEF IInv, CircuitWellFormed

\* The exit is an announced exit, not among the middle hops, elsewhere than the
\* last of them.
LEMMA ExitStep ==
  ASSUME IInv, SelectExit
  PROVE  IInv'
<1>1. PICK x \in ExitCandidates : hops' = Append(hops, x)
  BY DEF SelectExit
<1>2. phase = "middle" /\ phase' = "done" /\ net' = net /\ hopCount' = hopCount
      /\ remaining' = remaining /\ Len(hops) = hopCount - 1
  BY DEF SelectExit
<1>3. x \in Candidates /\ x \in net.exitNode /\ x \notin Hops /\ J(x) # LastJurisdiction
  BY DEF ExitCandidates
<1>4. x \in Servers /\ hopCount \in MinHops .. MaxHops
  BY <1>2, <1>3, CandidatesType DEF IInv, MiddleInv
<1>5. /\ hops' \in Seq(Servers)
      /\ Len(hops') = hopCount
      /\ DOMAIN hops = 1 .. (hopCount - 1)
      /\ DOMAIN hops' = 1 .. hopCount
      /\ \A i \in 1 .. (hopCount - 1) : hops'[i] = hops[i]
      /\ hops'[hopCount] = x
      /\ hopCount \in Nat /\ hopCount >= 2
  BY <1>1, <1>2, <1>4, BuildAssumption DEF IInv, TypeOK
<1>6. TypeOK'
  BY <1>2, <1>5 DEF IInv, TypeOK
<1>7. \A i \in 1 .. (hopCount - 1) : hops[i] \in Candidates /\ hops[i] # x
  BY <1>2, <1>3, <1>5 DEF IInv, MiddleInv, Hops
<1>8. CircuitWellFormed'
  <2>1. \A i \in DOMAIN hops' : hops'[i] \in net'.nodes /\ hops'[i] # Own
    BY <1>2, <1>3, <1>5, <1>7, CandidatesType DEF IInv
  <2>2. \A i, j \in DOMAIN hops' : hops'[i] = hops'[j] => i = j
    BY <1>2, <1>5, <1>7 DEF IInv, MiddleInv
  <2>3. net'.jurisdiction[hops'[hopCount]] # net'.jurisdiction[hops'[hopCount - 1]]
    <3>1. hops # <<>> /\ Len(hops) = hopCount - 1 /\ hops'[hopCount - 1] = hops[hopCount - 1]
      BY <1>2, <1>5
    <3> QED BY <1>2, <1>3, <1>5, <3>1 DEF LastJurisdiction, J
  <2> QED BY <1>2, <1>3, <1>4, <1>5, <2>1, <2>2, <2>3 DEF CircuitWellFormed, J
<1> QED BY <1>2, <1>6, <1>8 DEF IInv, MiddleInv

\* The invariant holds throughout a run of build.
LEMMA Invariance == Spec => []IInv
<1>1. Init => IInv
  BY BuildAssumption DEF Init, IInv, TypeOK, MiddleInv, CircuitWellFormed
<1>2. IInv /\ [Next]_vars => IInv'
  <2> SUFFICES ASSUME IInv, [Next]_vars PROVE IInv'
    OBVIOUS
  <2>1. CASE NotViable \/ TooFewNodes \/ NoExit
    BY <2>1, FailStep DEF NotViable, TooFewNodes, NoExit
  <2>2. CASE Start
    BY <2>2, StartStep
  <2>3. CASE SelectMiddleHop
    BY <2>3, SelectStep
  <2>4. CASE SelectExit
    BY <2>4, ExitStep
  <2>5. CASE UNCHANGED vars
    BY <2>5 DEF vars, IInv, TypeOK, MiddleInv, CircuitWellFormed, Candidates, J
  <2> QED BY <2>1, <2>2, <2>3, <2>4, <2>5 DEF Next
<1> QED BY <1>1, <1>2, PTL DEF Spec

\* Every circuit build returns is well formed, whatever the network and the
\* random choices.
THEOREM BuildsWellFormed == Spec => []CircuitWellFormed
<1>1. IInv => CircuitWellFormed
  BY DEF IInv
<1> QED BY Invariance, <1>1, PTL

\* The local variables of build keep their types; in particular hopCount never
\* leaves the range of minHops and maxHops.
THEOREM TypesPreserved == Spec => []TypeOK
<1>1. IInv => TypeOK
  BY DEF IInv
<1> QED BY Invariance, <1>1, PTL

-----------------------------------------------------------------------------
(***************************************************************************)
(* The relaxation of the jurisdiction constraint.                          *)
(***************************************************************************)

\* The candidates that the first n hops leave.
Unused(n) == Candidates \ {hops[k] : k \in 1 .. n}

\* Hop i is in the jurisdiction of the hop before only if it had to be.
Forced(i) ==
  J(hops[i]) = J(hops[i - 1]) => \A x \in Top(Unused(i - 1)) : J(x) = J(hops[i - 1])

\* The scored list is what the hops leave of the candidates: what makes
\* RelaxedOnlyWhenForced inductive.
RelaxInv ==
  /\ phase \in {"start", "done"} \/ \A i \in 2 .. Len(hops) : Forced(i)
  /\ phase = "done" => \A i \in 2 .. (Len(hops) - 1) : Forced(i)
  /\ phase = "middle" => remaining = Unused(Len(hops))

\* The hops chosen before are as forced as they were when the list grows.
LEMMA ForcedKept ==
  ASSUME net' = net, NEW i \in Nat, 2 <= i, Forced(i),
         \A k \in 1 .. i : hops'[k] = hops[k]
  PROVE  Forced(i)'
<1>1. {hops'[k] : k \in 1 .. (i - 1)} = {hops[k] : k \in 1 .. (i - 1)}
  OBVIOUS
<1>2. Unused(i - 1)' = Unused(i - 1)
  BY <1>1 DEF Unused, Candidates
<1>3. Top(Unused(i - 1))' = Top(Unused(i - 1))
  BY <1>2 DEF Top
<1>4. hops'[i] = hops[i] /\ hops'[i - 1] = hops[i - 1]
  OBVIOUS
<1> QED BY <1>3, <1>4 DEF Forced, J

\* A middle hop repeats the last jurisdiction only when the whole top does.
LEMMA SelectForced ==
  ASSUME IInv, RelaxInv, SelectMiddleHop
  PROVE  RelaxInv'
<1>1. PICK x \in Eligible(remaining) : hops' = Append(hops, x) /\ remaining' = remaining \ {x}
  BY DEF SelectMiddleHop
<1>2. phase = "middle" /\ phase' = "middle" /\ net' = net
  BY DEF SelectMiddleHop
<1>3. PICK n \in Nat : n = Len(hops)
  BY DEF IInv, TypeOK
<1>4. x \in Servers /\ hops \in Seq(Servers)
  BY <1>2, EligibleRemaining, CandidatesType DEF IInv, MiddleInv, TypeOK
<1>5. Len(hops') = n + 1 /\ hops'[n + 1] = x /\ \A k \in 1 .. n : hops'[k] = hops[k]
  BY <1>1, <1>3, <1>4
<1>6. remaining = Unused(n)
  BY <1>2, <1>3 DEF RelaxInv
<1>7. remaining' = Unused(n + 1)'
  <2>1. {hops'[k] : k \in 1 .. (n + 1)} = {hops[k] : k \in 1 .. n} \cup {x}
    BY <1>3, <1>5
  <2> QED BY <1>1, <1>2, <1>6, <2>1 DEF Unused, Candidates
<1>8. ASSUME NEW i \in 2 .. n PROVE Forced(i)'
  <2>1. Forced(i) /\ \A k \in 1 .. i : hops'[k] = hops[k]
    BY <1>2, <1>3, <1>5 DEF RelaxInv
  <2> QED BY <1>2, <2>1, ForcedKept
<1>9. CASE n >= 1
  <2>1. Unused(n)' = Unused(n)
    <3>1. {hops'[k] : k \in 1 .. n} = {hops[k] : k \in 1 .. n}
      BY <1>5
    <3> QED BY <1>2, <3>1 DEF Unused, Candidates
  <2>2. Top(Unused(n))' = Top(remaining)
    BY <1>2, <1>6, <2>1 DEF Top
  <2>3. hops'[n] = hops[n] /\ LastJurisdiction = J(hops[n])
    BY <1>3, <1>4, <1>5, <1>9 DEF LastJurisdiction
  <2>4. J(x) = LastJurisdiction => \A y \in Top(remaining) : J(y) = LastJurisdiction
    BY DEF Eligible
  <2>5. Forced(n + 1)'
    <3>1. (n + 1) - 1 = n
      BY <1>3
    <3> QED BY <1>2, <1>5, <2>2, <2>3, <2>4, <3>1 DEF Forced, J
  <2>6. \A i \in 2 .. (n + 1) : Forced(i)'
    BY <1>3, <1>8, <2>5
  <2> QED BY <1>2, <1>5, <1>7, <2>6 DEF RelaxInv
<1>10. CASE n = 0
  BY <1>2, <1>5, <1>7, <1>10 DEF RelaxInv
<1> QED BY <1>3, <1>9, <1>10

\* The exit ends the list; what the middle hops were is unchanged.
LEMMA ExitForced ==
  ASSUME IInv, RelaxInv, SelectExit
  PROVE  RelaxInv'
<1>1. PICK x \in ExitCandidates : hops' = Append(hops, x)
  BY DEF SelectExit
<1>2. phase = "middle" /\ phase' = "done" /\ net' = net
  BY DEF SelectExit
<1>3. PICK n \in Nat : n = Len(hops)
  BY DEF IInv, TypeOK
<1>4. x \in Servers /\ hops \in Seq(Servers)
  BY CandidatesType DEF IInv, TypeOK, ExitCandidates
<1>5. Len(hops') = n + 1 /\ \A k \in 1 .. n : hops'[k] = hops[k]
  BY <1>1, <1>3, <1>4
<1>6. ASSUME NEW i \in 2 .. n PROVE Forced(i)'
  <2>1. Forced(i) /\ \A k \in 1 .. i : hops'[k] = hops[k]
    BY <1>2, <1>3, <1>5 DEF RelaxInv
  <2> QED BY <1>2, <2>1, ForcedKept
<1> QED BY <1>2, <1>3, <1>5, <1>6 DEF RelaxInv

\* A step that leaves the network, the hops and what remains of the list alone.
LEMMA StutterForced ==
  ASSUME RelaxInv, UNCHANGED <<net, remaining, hops>>,
         phase' = phase \/ (phase # "done" /\ phase' = "failed" /\ (phase = "start" => hops = <<>>))
  PROVE  RelaxInv'
<1>1. \A i : Forced(i)' <=> Forced(i)
  BY DEF Forced, Unused, Candidates, Top, J
<1>2. Unused(Len(hops))' = Unused(Len(hops))
  BY DEF Unused, Candidates
<1> QED BY <1>1, <1>2 DEF RelaxInv

\* What is left of the scored list, and what every hop was forced to, is
\* maintained throughout a run of build.
LEMMA RelaxInvariance == Spec => []RelaxInv
<1>1. Init => RelaxInv
  BY DEF Init, RelaxInv
<1>2. IInv /\ RelaxInv /\ [Next]_vars => RelaxInv'
  <2> SUFFICES ASSUME IInv, RelaxInv, [Next]_vars PROVE RelaxInv'
    OBVIOUS
  <2>1. CASE NotViable \/ TooFewNodes \/ NoExit
    BY <2>1, StutterForced DEF NotViable, TooFewNodes, NoExit, Fail, IInv
  <2>2. CASE Start
    <3>1. phase' = "middle" /\ hops' = <<>> /\ remaining' = Candidates /\ net' = net
      BY <2>2 DEF Start, IInv
    <3>2. Len(hops') = 0 /\ Unused(Len(hops))' = Candidates
      BY <3>1 DEF Unused, Candidates
    <3> QED BY <3>1, <3>2 DEF RelaxInv
  <2>3. CASE SelectMiddleHop
    BY <2>3, SelectForced
  <2>4. CASE SelectExit
    BY <2>4, ExitForced
  <2>5. CASE UNCHANGED vars
    BY <2>5, StutterForced DEF vars
  <2> QED BY <2>1, <2>2, <2>3, <2>4, <2>5 DEF Next
<1> QED BY Invariance, <1>1, <1>2, PTL DEF Spec

\* For every network, hop range and size of the top list, and whatever the random
\* choices: two consecutive middle hops share a jurisdiction only if no server
\* at the top of the list was elsewhere.
THEOREM RelaxesOnlyWhenForced == Spec => []RelaxedOnlyWhenForced
<1>1. IInv /\ RelaxInv => RelaxedOnlyWhenForced
  BY DEF IInv, RelaxInv, RelaxedOnlyWhenForced, Forced, Unused
<1> QED BY Invariance, RelaxInvariance, <1>1, PTL

-----------------------------------------------------------------------------
(***************************************************************************)
(* Why a build fails.                                                      *)
(***************************************************************************)

\* The three failing returns: the network is not viable, every candidate is a
\* hop already and more hops are wanted, or no exit is eligible.
FailInv ==
  phase = "failed" =>
    \/ ~Viable
    \/ Candidates \subseteq Hops /\ Len(hops) < MaxHops - 1
    \/ ExitCandidates = {}

\* A list of n entries holds at most n servers.
LEMMA ListBoundsServers ==
  ASSUME NEW S, NEW q \in Seq(S), NEW C, C \subseteq {q[k] : k \in DOMAIN q}
  PROVE  Cardinality(C) <= Len(q)
<1> DEFINE T == {q[k] : k \in 1 .. Len(q)}
           f == [k \in 1 .. Len(q) |-> q[k]]
<1>1. Len(q) \in Nat /\ DOMAIN q = 1 .. Len(q)
  OBVIOUS
<1>2. f \in Surjection(1 .. Len(q), T)
  BY DEF Surjection
<1>3. IsFiniteSet(1 .. Len(q)) /\ Cardinality(1 .. Len(q)) = Len(q)
  <2>1. 1 \in Int /\ Len(q) \in Int
    BY <1>1
  <2>2. Cardinality(1 .. Len(q)) = IF 1 > Len(q) THEN 0 ELSE Len(q) - 1 + 1
    BY <2>1, FS_Interval
  <2>3. IsFiniteSet(1 .. Len(q))
    BY <2>1, FS_Interval
  <2> QED BY <1>1, <2>2, <2>3
<1> HIDE DEF f, T
<1>4. IsFiniteSet(T) /\ Cardinality(T) <= Len(q)
  BY <1>2, <1>3, FS_Surjection
<1>5. C \in SUBSET T
  BY <1>1 DEF T
<1>6. IsFiniteSet(C) /\ Cardinality(C) <= Cardinality(T)
  BY <1>4, <1>5, FS_Subset
<1>7. Cardinality(C) \in Nat /\ Cardinality(T) \in Nat
  BY <1>4, <1>6, FS_CardinalityType
<1> QED BY <1>1, <1>4, <1>6, <1>7

\* The reason of a failure stays while the network and the hops stay.
LEMMA FailKept ==
  ASSUME FailInv, UNCHANGED <<net, hops>>, phase' = phase
  PROVE  FailInv'
BY DEF FailInv, Viable, Candidates, Hops, ExitCandidates, LastJurisdiction, J

\* Every failing return has one of the three reasons.
LEMMA FailReason ==
  ASSUME IInv, RelaxInv, NotViable \/ TooFewNodes \/ NoExit
  PROVE  FailInv'
<1>1. net' = net /\ hops' = hops
  BY DEF NotViable, TooFewNodes, NoExit, Fail
<1>2. /\ Viable' <=> Viable
      /\ Candidates' = Candidates /\ Hops' = Hops /\ ExitCandidates' = ExitCandidates
  BY <1>1 DEF Viable, Candidates, Hops, ExitCandidates, LastJurisdiction, J
<1>3. CASE NotViable
  BY <1>2, <1>3 DEF NotViable, FailInv
<1>4. CASE TooFewNodes
  <2>1. phase = "middle" /\ remaining = {} /\ Len(hops) < hopCount - 1
    BY <1>4 DEF TooFewNodes
  <2>2. Candidates \subseteq Hops
    <3>1. Candidates \subseteq {hops[k] : k \in 1 .. Len(hops)}
      BY <2>1 DEF RelaxInv, Unused
    <3>2. DOMAIN hops = 1 .. Len(hops)
      BY DEF IInv, TypeOK
    <3> QED BY <3>1, <3>2 DEF Hops
  <2>3. Len(hops) < MaxHops - 1
    <3>1. hopCount \in MinHops .. MaxHops /\ Len(hops) \in Nat
      BY <2>1 DEF IInv, MiddleInv, TypeOK
    <3> QED BY <2>1, <3>1, HopRange
  <2> QED BY <1>1, <1>2, <2>2, <2>3 DEF FailInv
<1>5. CASE NoExit
  BY <1>2, <1>5 DEF NoExit, FailInv
<1> QED BY <1>3, <1>4, <1>5

\* For every network and hop range: on a viable network with as many candidates
\* as a circuit may have middle hops, build fails only because every announced
\* exit is a middle hop already or shares the last hop's jurisdiction; running
\* out of nodes is impossible there.
THEOREM FailsOnlyForWantOfExit == Spec => []FailsForWantOfExit
<1>1. Init => FailInv
  BY DEF Init, FailInv
<1>2. IInv /\ RelaxInv /\ FailInv /\ [Next]_vars => FailInv'
  <2> SUFFICES ASSUME IInv, RelaxInv, FailInv, [Next]_vars PROVE FailInv'
    OBVIOUS
  <2>1. CASE NotViable \/ TooFewNodes \/ NoExit
    BY <2>1, FailReason
  <2>2. CASE Start \/ SelectMiddleHop \/ SelectExit
    BY <2>2 DEF Start, SelectMiddleHop, SelectExit, FailInv
  <2>3. CASE UNCHANGED vars
    BY <2>3, FailKept DEF vars
  <2> QED BY <2>1, <2>2, <2>3 DEF Next
<1>3. IInv /\ FailInv => FailsForWantOfExit
  <2> SUFFICES ASSUME IInv, FailInv, phase = "failed", Viable,
                      Cardinality(Candidates) >= MaxHops - 1,
                      NEW x \in Candidates \cap net.exitNode
               PROVE  x \in Hops \/ J(x) = LastJurisdiction
    BY DEF FailsForWantOfExit
  <2>1. CASE ExitCandidates = {}
    BY <2>1 DEF ExitCandidates
  <2>2. ~(Candidates \subseteq Hops /\ Len(hops) < MaxHops - 1)
    <3> SUFFICES ASSUME Candidates \subseteq Hops, Len(hops) < MaxHops - 1 PROVE FALSE
      OBVIOUS
    <3>1. hops \in Seq(Servers) /\ Len(hops) \in Nat
      BY DEF IInv, TypeOK
    <3>2. Cardinality(Candidates) <= Len(hops)
      BY <3>1, ListBoundsServers DEF Hops
    <3>3. Cardinality(Candidates) \in Nat
      <4>1. IsFiniteSet(Candidates)
        BY CandidatesType, BuildAssumption, FS_Subset DEF IInv
      <4> QED BY <4>1, FS_CardinalityType
    <3> QED BY <3>1, <3>2, <3>3, HopRange
  <2> QED BY <2>1, <2>2 DEF FailInv
<1> QED BY Invariance, RelaxInvariance, <1>1, <1>2, <1>3, PTL DEF Spec
=============================================================================
