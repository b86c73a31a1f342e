-------------------------- MODULE SimBackoffProofs --------------------------
(***************************************************************************)
(* Proofs about SimBackoff and Backoff, for any interval and any maximum   *)
(* that is not below it, any pass time below the interval, and any bound   *)
(* on the failures.                                                        *)
(*                                                                         *)
(* The bound on quiet is carried from tick to tick: a SIM whose turn of    *)
(* this tick is over was probed since, or became what it is since, or was  *)
(* skipped while its quiet time was below the backoff; a SIM whose turn is *)
(* still to come was in that position one interval earlier. That it is     *)
(* skipped only then rests on quiet never exceeding the age of             *)
(* LastHealthCheck.                                                        *)
(***************************************************************************)
EXTENDS SimBackoff, FiniteSetTheorems, TLAPS

-----------------------------------------------------------------------------
(***************************************************************************)
(* What the loop of backoffDuration computes. The recursive definition is  *)
(* met by the closed form, so that there is a function that satisfies it,  *)
(* and two such functions have no least argument at which they differ.     *)
(***************************************************************************)

\* The interval doubled r times, up to the maximum.
Closed(r) ==
  LET doubled == DormantInterval * 2 ^ r
  IN  IF doubled < MaxBackoff THEN doubled ELSE MaxBackoff

\* A set of natural numbers has a least element.
LEMMA LeastElement ==
  ASSUME NEW T, T \subseteq Nat, T # {}
  PROVE \E x \in T : \A y \in T : ~(y < x)
<1>1. \E x \in T : \A y \in T : ~ (<<y, x>> \in OpToRel(<,Nat))
  BY NatLessThanWellFounded, WFMin
<1> QED BY <1>1 DEF OpToRel

\* There are 2 ^ n subsets of 1 .. n.
LEMMA CountSubsets ==
  ASSUME NEW n \in Nat
  PROVE  /\ IsFiniteSet(SUBSET (1 .. n)) /\ Cardinality(SUBSET (1 .. n)) = 2 ^ n
         /\ 2 ^ n \in Nat
<1>1. IsFiniteSet(1 .. n) /\ Cardinality(1 .. n) = n
  <2>1. 1 \in Int /\ n \in Int
    OBVIOUS
  <2>2. Cardinality(1 .. n) = IF 1 > n THEN 0 ELSE n - 1 + 1
    BY <2>1, FS_Interval
  <2> QED BY <2>1, <2>2, FS_Interval
<1>2. IsFiniteSet(SUBSET (1 .. n)) /\ Cardinality(SUBSET (1 .. n)) = 2 ^ Cardinality(1 .. n)
  BY <1>1, FS_SUBSET
<1>3. Cardinality(SUBSET (1 .. n)) = 2 ^ n
  BY <1>1, <1>2
<1> QED BY <1>2, <1>3, FS_CardinalityType

\* One more element doubles the subsets, hence the power of two.
LEMMA PowerDoubles ==
  ASSUME NEW n \in Nat
  PROVE  2 ^ (n + 1) = 2 * 2 ^ n
<1> DEFINE S == SUBSET (1 .. n)
           T == {s \cup {n + 1} : s \in S}
           f == [s \in S |-> s \cup {n + 1}]
<1>1. \A s \in S : n + 1 \notin s
  OBVIOUS
<1>2. f \in Bijection(S, T)
  <2>1. f \in [S -> T]
    OBVIOUS
  <2>2. ASSUME NEW a \in S, NEW b \in S, f[a] = f[b] PROVE a = b
    BY <1>1, <2>2
  <2>3. \A t \in T : \E s \in S : f[s] = t
    OBVIOUS
  <2> HIDE DEF f, S, T
  <2> QED BY <2>1, <2>2, <2>3 DEF Bijection, Injection, Surjection, IsInjective
<1>3. ExistsBijection(S, T)
  BY <1>2 DEF ExistsBijection
<1>4. SUBSET (1 .. (n + 1)) = S \cup T
  <2>1. ASSUME NEW x \in SUBSET (1 .. (n + 1)) PROVE x \in S \cup T
    <3>1. CASE n + 1 \notin x
      <4>1. x \subseteq 1 .. n
        BY <3>1
      <4> QED BY <4>1
    <3>2. CASE n + 1 \in x
      <4>1. x \ {n + 1} \in S
        OBVIOUS
      <4>2. x = (x \ {n + 1}) \cup {n + 1}
        BY <3>2
      <4> QED BY <4>1, <4>2
    <3> QED BY <3>1, <3>2
  <2>2. ASSUME NEW x \in S \cup T PROVE x \in SUBSET (1 .. (n + 1))
    OBVIOUS
  <2> QED BY <2>1, <2>2
<1>5. S \cap T = {}
  BY <1>1
<1>6. IsFiniteSet(S) /\ Cardinality(S) = 2 ^ n /\ 2 ^ n \in Nat
  BY CountSubsets
<1> HIDE DEF S, T, f
<1>7. IsFiniteSet(T) /\ Cardinality(T) = 2 ^ n
  BY <1>3, <1>6, FS_Bijection
<1>8. Cardinality(S \cup T) = Cardinality(S) + Cardinality(T) - Cardinality(S \cap T)
  BY <1>6, <1>7, FS_Union
<1>9. Cardinality(S \cup T) = 2 ^ n + 2 ^ n
  BY <1>5, <1>6, <1>7, <1>8, FS_EmptySet
<1>10. n + 1 \in Nat
  OBVIOUS
<1>11. Cardinality(SUBSET (1 .. (n + 1))) = 2 ^ (n + 1)
  BY <1>10, CountSubsets
<1> QED BY <1>4, <1>6, <1>9, <1>11

\* Before the first round d is the interval, which is not above the maximum.
LEMMA ClosedZero == Closed(0) = DormantInterval
<1>1. 2 ^ 0 = 1
  OBVIOUS
<1>2. DormantInterval * 2 ^ 0 = DormantInterval
  BY <1>1, CapAssumption
<1> QED BY <1>2, CapAssumption DEF Closed

\* A round takes the closed form one failure further.
LEMMA ClosedStep ==
  ASSUME NEW i \in Nat
  PROVE  Closed(i + 1) = Round(Closed(i)) /\ Closed(i) \in Nat
<1>1. PICK x \in Nat : x = DormantInterval * 2 ^ i
  <2>1. PICK y \in Nat : y = 2 ^ i
    BY CountSubsets
  <2>2. DormantInterval * y \in Nat
    BY CapAssumption
  <2> QED BY <2>1, <2>2
<1>2. DormantInterval * 2 ^ (i + 1) = 2 * x
  <2>1. PICK y \in Nat : y = 2 ^ i
    BY CountSubsets
  <2>2. 2 ^ (i + 1) = 2 * y
    BY <2>1, PowerDoubles
  <2>3. DormantInterval * (2 * y) = 2 * (DormantInterval * y)
    BY CapAssumption
  <2> QED BY <1>1, <2>1, <2>2, <2>3
<1> QED BY <1>1, <1>2, CapAssumption DEF Closed, Round

\* The recursion of the loop is well defined.
LEMMA LoopUnfolds ==
  AfterRounds = [i \in Nat |-> IF i = 0 THEN DormantInterval ELSE Round(AfterRounds[i - 1])]
<1> DEFINE W == [i \in Nat |-> Closed(i)]
<1>1. W = [i \in Nat |-> IF i = 0 THEN DormantInterval ELSE Round(W[i - 1])]
  <2>1. ASSUME NEW i \in Nat, i # 0 PROVE Closed(i) = Round(W[i - 1])
    <3>1. i - 1 \in Nat /\ (i - 1) + 1 = i
      BY <2>1
    <3>2. Closed((i - 1) + 1) = Round(Closed(i - 1))
      BY <3>1, ClosedStep
    <3> QED BY <3>1, <3>2
  <2> QED BY <2>1, ClosedZero
<1> HIDE DEF W
<1> QED BY <1>1 DEF AfterRounds

\* After r rounds, d is the interval doubled r times, up to the maximum.
LEMMA LoopComputes ==
  ASSUME NEW n \in Nat
  PROVE  AfterRounds[n] = Closed(n)
<1> DEFINE T == {k \in Nat : AfterRounds[k] # Closed(k)}
<1> SUFFICES ASSUME T # {} PROVE FALSE
  OBVIOUS
<1>1. PICK m \in T : \A k \in T : ~(k < m)
  BY LeastElement
<1>2. CASE m = 0
  BY <1>1, <1>2, LoopUnfolds, ClosedZero
<1>3. CASE m # 0
  <2>1. m - 1 \in Nat /\ (m - 1) + 1 = m /\ m - 1 < m /\ m \in Nat
    BY <1>3
  <2>2. AfterRounds[m - 1] = Closed(m - 1)
    BY <1>1, <2>1
  <2>3. AfterRounds[m] = Round(AfterRounds[m - 1])
    BY <1>3, <2>1, LoopUnfolds
  <2>4. Closed((m - 1) + 1) = Round(Closed(m - 1))
    BY <2>1, ClosedStep
  <2> QED BY <2>1, <2>2, <2>3, <2>4
<1> QED BY <1>2, <1>3

\* The backoff never exceeds the maximum, however many failures there are.
LEMMA BackoffCapped ==
  ASSUME NEW n \in Nat
  PROVE  backoffDuration(n) \in 0 .. MaxBackoff
<1>1. backoffDuration(n) = Closed(n)
  BY LoopComputes DEF backoffDuration
<1>2. PICK x \in Nat : x = DormantInterval * 2 ^ n
  <2>1. PICK y \in Nat : y = 2 ^ n
    BY CountSubsets
  <2>2. DormantInterval * y \in Nat
    BY CapAssumption
  <2> QED BY <2>1, <2>2
<1> QED BY <1>1, <1>2, CapAssumption DEF Closed

-----------------------------------------------------------------------------
(***************************************************************************)
(* When a SIM is probed.                                                   *)
(***************************************************************************)

\* Time since the end of the SIM's last turn, at most.
SinceTurn == IF due THEN DormantInterval + clock ELSE clock

IInv ==
  /\ TypeOK
  /\ due => clock <= PassTime
  /\ probing \in {"dormant", "unavailable"} => due
  /\ probing \in {"dormant", "active"} => state # "unavailable"
  /\ state = "unavailable" => quiet <= age \/ age = MaxBackoff
  /\ state = "dormant" => quiet <= SinceTurn
  /\ state = "unavailable" => quiet <= backoffDuration(failCount) + SinceTurn

\* The invariant holds initially.
LEMMA InitInv == Init => IInv
<1>1. SUFFICES ASSUME Init PROVE IInv
  OBVIOUS
<1>2. TypeOK
  <2>1. /\ 0 \in 0 .. MaxFails /\ MaxBackoff \in 0 .. MaxBackoff
        /\ 0 \in 0 .. DormantInterval - 1
    BY CapAssumption, PassAssumption
  <2> QED
    BY <1>1, <2>1 DEF Init, TypeOK
<1>3. ~due /\ clock = 0 /\ quiet = 0 /\ probing = "none" /\ state = "dormant"
  BY <1>1 DEF Init
<1>4. SinceTurn = 0
  BY <1>3 DEF SinceTurn
<1> QED
  BY <1>2, <1>3, <1>4 DEF IInv

\* Every step keeps the invariant.
LEMMA NextInv == IInv /\ [Next]_vars => IInv'
<1>1. SUFFICES ASSUME IInv, [Next]_vars PROVE IInv'
  OBVIOUS
<1>2. /\ DormantInterval \in Nat /\ MaxBackoff \in Nat /\ PassTime \in Nat
      /\ MaxFails \in Nat /\ PassTime < DormantInterval
  BY CapAssumption, PassAssumption
<1>3. backoffDuration(failCount) \in 0 .. MaxBackoff
  BY <1>1, BackoffCapped, PassAssumption DEF IInv, TypeOK
<1>4. ASSUME Tick PROVE IInv'
  <2>1. TypeOK'
    BY <1>1, <1>2, <1>4 DEF IInv, TypeOK, Tick
  <2>2. /\ due' => clock' <= PassTime
        /\ probing' \in {"dormant", "unavailable"} => due'
        /\ probing' \in {"dormant", "active"} => state' # "unavailable"
    BY <1>1, <1>2, <1>4 DEF IInv, TypeOK, Tick
  <2>3. state' = "unavailable" => quiet' <= age' \/ age' = MaxBackoff
    BY <1>1, <1>2, <1>4 DEF IInv, TypeOK, Tick
  <2>4. state # "active" => SinceTurn' = SinceTurn + 1 /\ quiet' = quiet + 1
    <3>1. quiet' = quiet + 1 \/ state = "active"
      BY <1>4 DEF Tick
    <3>2. CASE due
      <4>1. clock + 1 < DormantInterval /\ clock' = clock + 1
        BY <1>1, <1>2, <1>4, <3>2 DEF IInv, TypeOK, Tick
      <4>2. due'
        BY <1>4, <3>2 DEF Tick
      <4> QED
        BY <1>1, <1>2, <3>1, <3>2, <4>1, <4>2 DEF IInv, TypeOK, SinceTurn
    <3>3. CASE ~due /\ clock + 1 = DormantInterval
      <4>1. due' /\ clock' = 0
        BY <1>4, <3>3 DEF Tick
      <4> QED
        BY <1>1, <1>2, <3>1, <3>3, <4>1 DEF IInv, TypeOK, SinceTurn
    <3>4. CASE ~due /\ clock + 1 # DormantInterval
      <4>1. ~due' /\ clock' = clock + 1
        BY <1>4, <3>4 DEF Tick
      <4> QED
        BY <1>1, <1>2, <3>1, <3>4, <4>1 DEF IInv, TypeOK, SinceTurn
    <3> QED
      BY <3>2, <3>3, <3>4
  <2>5. SinceTurn \in Nat
    BY <1>1, <1>2 DEF IInv, TypeOK, SinceTurn
  <2>6. state' = state /\ failCount' = failCount
    BY <1>4 DEF Tick
  <2>7. state' = "dormant" => quiet' <= SinceTurn'
    BY <1>1, <2>4, <2>5, <2>6 DEF IInv, TypeOK
  <2>8. state' = "unavailable" => quiet' <= backoffDuration(failCount') + SinceTurn'
    BY <1>1, <1>3, <2>4, <2>5, <2>6 DEF IInv, TypeOK
  <2> QED
    BY <2>1, <2>2, <2>3, <2>7, <2>8 DEF IInv
<1>5. ASSUME VisitSkip PROVE IInv'
  <2>1. ~due' /\ clock' = clock /\ quiet' = quiet
    BY <1>5 DEF VisitSkip
  <2>2. SinceTurn' = clock /\ due' \in BOOLEAN
    BY <1>5, <2>1 DEF SinceTurn, VisitSkip
  <2>3. state = "unavailable" => quiet <= backoffDuration(failCount) + clock
    BY <1>1, <1>2, <1>3, <1>5 DEF IInv, TypeOK, VisitSkip
  <2>4. state # "dormant" /\ probing = "none"
    BY <1>5 DEF VisitSkip
  <2> QED
    BY <1>1, <1>5, <2>1, <2>2, <2>3, <2>4 DEF IInv, TypeOK, VisitSkip
<1>6. ASSUME VisitProbe PROVE IInv'
  BY <1>1, <1>2, <1>3, <1>6 DEF IInv, TypeOK, VisitProbe, SinceTurn
<1>7. ASSUME VisitActive PROVE IInv'
  BY <1>1, <1>2, <1>3, <1>7 DEF IInv, TypeOK, VisitActive, SinceTurn
<1>8. ASSUME ProbeFails PROVE IInv'
  <2>1. failCount + 1 \in 0 .. MaxFails /\ backoffDuration(failCount + 1) \in 0 .. MaxBackoff
    BY <1>1, <1>2, <1>8, BackoffCapped DEF IInv, TypeOK, ProbeFails
  <2> QED
    BY <1>1, <1>2, <1>8, <2>1 DEF IInv, TypeOK, ProbeFails, EndTurn, SinceTurn
<1>9. ASSUME ProbeSucceeds PROVE IInv'
  BY <1>1, <1>2, <1>3, <1>9 DEF IInv, TypeOK, ProbeSucceeds, EndTurn, SinceTurn
<1>10. ASSUME Promote PROVE IInv'
  BY <1>1, <1>2, <1>3, <1>10 DEF IInv, TypeOK, Promote, SinceTurn
<1>11. ASSUME Retire PROVE IInv'
  BY <1>1, <1>2, <1>3, <1>11 DEF IInv, TypeOK, Retire, SinceTurn
<1>12. ASSUME UNCHANGED vars PROVE IInv'
  BY <1>1, <1>12 DEF IInv, TypeOK, vars, SinceTurn
<1> QED
  BY <1>1, <1>4, <1>5, <1>6, <1>7, <1>8, <1>9, <1>10, <1>11, <1>12 DEF Next

\* The monitor probes every dormant and every unavailable SIM in time, for any
\* intervals, the backoff being the one that backoffDuration computes.
THEOREM RetriesInTime == Spec => []ProbedInTime
<1>1. Spec => []IInv
  BY InitInv, NextInv, PTL DEF Spec
<1>2. IInv => ProbedInTime
  <2>1. SUFFICES ASSUME IInv PROVE ProbedInTime
    OBVIOUS
  <2>2. backoffDuration(failCount) \in 0 .. MaxBackoff
    BY <2>1, BackoffCapped, PassAssumption DEF IInv, TypeOK
  <2>3. SinceTurn \in Nat /\ SinceTurn <= DormantInterval + PassTime
    BY <2>1, CapAssumption, PassAssumption DEF IInv, TypeOK, SinceTurn
  <2> QED
    BY <2>1, <2>2, <2>3, CapAssumption, PassAssumption DEF IInv, TypeOK, ProbedInTime
<1> QED
  BY <1>1, <1>2, PTL

\* For any interval and maximum and any number of failures, backoffDuration
\* returns the interval times two to the number of failures, capped.
THEOREM BackoffDoubles == Spec => []BackoffDoublesUpToMax
<1>1. TypeOK => BackoffDoublesUpToMax
  <2> SUFFICES ASSUME TypeOK, NEW n \in 0 .. failCount
               PROVE  backoffDuration(n) = Closed(n)
    BY DEF BackoffDoublesUpToMax, Closed
  <2>1. n \in Nat
    BY PassAssumption DEF TypeOK
  <2> QED BY <2>1, LoopComputes DEF backoffDuration
<1>2. IInv => TypeOK
  BY DEF IInv
<1> QED BY InitInv, NextInv, <1>1, <1>2, PTL DEF Spec
=============================================================================
