--------------------------- MODULE SimPoolProofs ---------------------------
(***************************************************************************)
(* Proofs about SimPool, for every inventory, token set and bound.         *)
(***************************************************************************)
EXTENDS SimPool, FiniteSetTheorems, TLAPS

(***************************************************************************)
(* Type correctness.                                                       *)
(***************************************************************************)

\* A promotion keeps the type of the SIM states.
LEMMA PromoteType ==
  ASSUME TypeOK, NEW P, Promote(P)
  PROVE  state' \in [SIMs -> SIMState]
BY DEF TypeOK, Promote, SIMState

\* What Pick collects is a subset of what it loops over.
LEMMA PickSubset ==
  ASSUME NEW S, NEW n, NEW T \in Pick(S, n)
  PROVE  T \subseteq S
BY DEF Pick

\* A rotation that promotes P, promotes M to make up for a shortfall, and leaves
\* R to the drain goroutine in slot d.
RotateEffect(P, M, R, d) ==
  /\ P \subseteq Dormant
  /\ M \subseteq Dormant \ P
  /\ R \subseteq RetirementCandidates
  /\ R \in Pick(RetirementCandidates, Cardinality(P))
  /\ M \in Pick(Dormant \ P, Shortfall(Cardinality(Active) + Cardinality(P)))
  /\ draining[d] = {}
  /\ Promote(P \cup M)
  /\ draining' = [draining EXCEPT ![d] = R]

\* Every rotation has that effect for some choice of its loops.
LEMMA RotateShape ==
  ASSUME Rotate
  PROVE  \E P \in SUBSET SIMs, M \in SUBSET SIMs, R \in SUBSET SIMs, d \in DrainSlots :
           RotateEffect(P, M, R, d)
<1>1. PICK n \in ReplaceCounts(Cardinality(Active)) :
        \E P \in Pick(DormantCandidates, n) :
        \E R \in Pick(RetirementCandidates, Cardinality(P)) :
        \E M \in Pick(Dormant \ P, Shortfall(Cardinality(Active) + Cardinality(P))) :
        \E d \in DrainSlots :
          /\ draining[d] = {}
          /\ Promote(P \cup M)
          /\ draining' = [draining EXCEPT ![d] = R]
  BY DEF Rotate
<1>2. PICK P \in Pick(DormantCandidates, n) :
        \E R \in Pick(RetirementCandidates, Cardinality(P)) :
        \E M \in Pick(Dormant \ P, Shortfall(Cardinality(Active) + Cardinality(P))) :
        \E d \in DrainSlots :
          /\ draining[d] = {}
          /\ Promote(P \cup M)
          /\ draining' = [draining EXCEPT ![d] = R]
  BY <1>1
<1>3. PICK R \in Pick(RetirementCandidates, Cardinality(P)),
           M \in Pick(Dormant \ P, Shortfall(Cardinality(Active) + Cardinality(P))),
           d \in DrainSlots :
          /\ draining[d] = {}
          /\ Promote(P \cup M)
          /\ draining' = [draining EXCEPT ![d] = R]
  BY <1>2
<1>4. P \subseteq Dormant /\ M \subseteq Dormant \ P /\ R \subseteq RetirementCandidates
  BY PickSubset DEF DormantCandidates
<1>5. Dormant \subseteq SIMs /\ RetirementCandidates \subseteq SIMs
  BY DEF Dormant, Active, InState, RetirementCandidates
<1>6. RotateEffect(P, M, R, d)
  BY <1>3, <1>4 DEF RotateEffect
<1> QED BY <1>4, <1>5, <1>6

\* The API calls keep the types.
LEMMA ApiType ==
  ASSUME TypeOK, NEW t \in Tokens, Allocate(t) \/ Release(t)
  PROVE  TypeOK'
<1>1. CASE Allocate(t)
  BY <1>1 DEF Allocate, TypeOK, Available, Active, InState, rotatorVars, livenessVars
<1>2. CASE Release(t)
  BY <1>2 DEF Release, TypeOK, rotatorVars, livenessVars
<1> QED BY <1>1, <1>2

\* The rotator and the drains keep the types.
LEMMA RotatorType ==
  ASSUME TypeOK, Rotator
  PROVE  TypeOK'
<1>1. CASE InitActiveSubset
  <2>1. state' \in [SIMs -> SIMState]
    BY <1>1, PromoteType DEF InitActiveSubset
  <2> QED BY <1>1, <2>1 DEF InitActiveSubset, TypeOK, livenessVars
<1>2. CASE Rotate
  <2>1. PICK P \in SUBSET SIMs, M \in SUBSET SIMs, R \in SUBSET SIMs, d \in DrainSlots :
               RotateEffect(P, M, R, d)
    BY <1>2, RotateShape
  <2>2. state' \in [SIMs -> SIMState]
    BY <2>1, PromoteType DEF RotateEffect
  <2>4. draining' \in [DrainSlots -> SUBSET SIMs]
    BY <2>1 DEF TypeOK, RotateEffect
  <2> QED BY <1>2, <2>2, <2>4 DEF Rotate, TypeOK, livenessVars
<1>3. ASSUME NEW d \in DrainSlots, Drain(d)
      PROVE  TypeOK'
  BY <1>3 DEF Drain, TypeOK, SIMState, livenessVars
<1> QED BY <1>1, <1>2, <1>3 DEF Rotator

\* The liveness monitor keeps the types.
LEMMA LivenessType ==
  ASSUME TypeOK, Liveness
  PROVE  TypeOK'
<1> USE DEF TypeOK, poolVars, rotatorVars
<1>1. CASE StartCheckActive \/ StartCheckDormant
  BY <1>1 DEF StartCheckActive, StartCheckDormant, StartPass
<1>2. CASE EndPass
  BY <1>2 DEF EndPass
<1>3. ASSUME NEW s \in SIMs, VisitProbe(s)
      PROVE  TypeOK'
  BY <1>3 DEF VisitProbe
<1>4. ASSUME NEW s \in SIMs, VisitSkip(s)
      PROVE  TypeOK'
  BY <1>4 DEF VisitSkip
<1>5. CASE ProbeFails
  BY <1>5 DEF ProbeFails, MarkUnavailable, SIMState
<1>6. CASE ProbeSucceeds
  BY <1>6 DEF ProbeSucceeds, MarkDormant, SIMState
<1> QED BY <1>1, <1>2, <1>3, <1>4, <1>5, <1>6 DEF Liveness

\* Every behaviour of the pool keeps the types of the Go fields.
THEOREM TypeCorrect == Spec => []TypeOK
<1>1. Init => TypeOK
  <2> SUFFICES ASSUME Init PROVE TypeOK
    OBVIOUS
  <2>1. usedSince \in [SIMs -> BOOLEAN] /\ started \in BOOLEAN
    BY Zenon DEF Init
  <2> QED BY <2>1 DEF Init, TypeOK, SIMState
<1>2. TypeOK /\ [Next]_vars => TypeOK'
  <2> SUFFICES ASSUME TypeOK, [Next]_vars PROVE TypeOK'
    OBVIOUS
  <2>1. CASE Next
    BY <2>1, ApiType, RotatorType, LivenessType DEF Next
  <2>2. CASE UNCHANGED vars
    BY <2>2 DEF vars, poolVars, rotatorVars, livenessVars, TypeOK
  <2> QED BY <2>1, <2>2
<1> QED BY <1>1, <1>2, PTL DEF Spec

(***************************************************************************)
(* Sessions and SIMs.                                                      *)
(***************************************************************************)

\* Only the API calls touch the sessions: rotation, drains and probes leave
\* both the sessions map and the CurrentSession of every SIM alone.
LEMMA SessionsUntouched ==
  ASSUME Rotator \/ Liveness
  PROVE  UNCHANGED <<currentSession, sessions>>
<1>1. CASE Rotator
  BY <1>1 DEF Rotator, InitActiveSubset, Rotate, Drain
<1>2. CASE Liveness
  BY <1>2 DEF Liveness, StartCheckActive, StartCheckDormant, StartPass, EndPass,
              VisitProbe, VisitSkip, ProbeFails, ProbeSucceeds, poolVars
<1> QED BY <1>1, <1>2

\* The SIM that allocate picks is recorded nowhere else: it is idle, and the
\* SIM of a recorded session is not.
LEMMA AllocateOwns ==
  ASSUME NoSession \notin Tokens, TypeOK, SessionOwnsSIM,
         NEW t \in Tokens, Allocate(t)
  PROVE  SessionOwnsSIM'
<1>1. PICK s \in Available :
        /\ currentSession' = [currentSession EXCEPT ![s] = t]
        /\ sessions'       = [sessions EXCEPT ![t] = s]
  BY DEF Allocate
<1>2. s \in SIMs /\ currentSession[s] = NoSession
  BY DEF Available, Active, InState
<1>3. ASSUME NEW u \in Tokens, sessions'[u] # NoSIM
      PROVE  currentSession'[sessions'[u]] = u
  <2>1. CASE u = t
    BY <1>1, <1>2, <2>1 DEF TypeOK
  <2>2. CASE u # t
    <3>1. sessions'[u] = sessions[u] /\ sessions[u] \in SIMs
      BY <1>1, <1>3, <2>2 DEF TypeOK
    <3>2. currentSession[sessions[u]] = u
      BY <1>3, <3>1 DEF SessionOwnsSIM
    <3>3. sessions[u] # s
      BY <1>2, <3>2
    <3> QED BY <1>1, <3>1, <3>2, <3>3 DEF TypeOK
  <2> QED BY <2>1, <2>2
<1> QED BY <1>3 DEF SessionOwnsSIM

\* release empties the SIM of its own session only.
LEMMA ReleaseOwns ==
  ASSUME TypeOK, SessionOwnsSIM, NEW t \in Tokens, Release(t)
  PROVE  SessionOwnsSIM'
<1>1. ASSUME NEW u \in Tokens, sessions'[u] # NoSIM
      PROVE  currentSession'[sessions'[u]] = u
  <2>1. u # t /\ sessions'[u] = sessions[u] /\ sessions[u] \in SIMs /\ sessions[t] \in SIMs
    BY <1>1 DEF Release, TypeOK
  <2>2. currentSession[sessions[u]] = u /\ currentSession[sessions[t]] = t
    BY <1>1, <2>1 DEF SessionOwnsSIM, Release
  <2> QED BY <2>1, <2>2 DEF Release, TypeOK
<1> QED BY <1>1 DEF SessionOwnsSIM

\* Two sessions never share a SIM and a release frees its own session's SIM,
\* in whatever order callers, rotations, drains and probes run (the empty
\* token, which also means "idle", must not be used as a session token).
THEOREM SessionsExclusive ==
  ASSUME NoSession \notin Tokens
  PROVE  Spec => []SessionOwnsSIM
<1>1. Init => SessionOwnsSIM
  BY DEF Init, SessionOwnsSIM
<1>2. TypeOK /\ SessionOwnsSIM /\ [Next]_vars => SessionOwnsSIM'
  <2> SUFFICES ASSUME TypeOK, SessionOwnsSIM, [Next]_vars PROVE SessionOwnsSIM'
    OBVIOUS
  <2>1. ASSUME NEW t \in Tokens, Allocate(t) PROVE SessionOwnsSIM'
    BY <2>1, AllocateOwns
  <2>2. ASSUME NEW t \in Tokens, Release(t) PROVE SessionOwnsSIM'
    BY <2>2, ReleaseOwns
  <2>3. CASE Rotator \/ Liveness
    BY <2>3, SessionsUntouched DEF SessionOwnsSIM
  <2>4. CASE UNCHANGED vars
    BY <2>4 DEF vars, poolVars, SessionOwnsSIM
  <2> QED BY <2>1, <2>2, <2>3, <2>4 DEF Next
<1> QED BY <1>1, <1>2, TypeCorrect, PTL DEF Spec

(***************************************************************************)
(* Callers that do not reuse the token of a live session.                  *)
(***************************************************************************)

\* Such callers are a special case of arbitrary ones.
LEMMA FreshIsSpec == FreshSpec => Spec
<1>1. [FreshNext]_vars => [Next]_vars
  BY DEF FreshNext, Next, AllocateFresh
<1> QED BY <1>1, PTL DEF FreshSpec, Spec

\* allocate with a fresh token leaves no SIM without its way back.
LEMMA AllocateNoLeak ==
  ASSUME TypeOK, NoLeakedSIM, NEW t \in Tokens, AllocateFresh(t)
  PROVE  NoLeakedSIM'
<1>1. PICK s \in Available :
        /\ currentSession' = [currentSession EXCEPT ![s] = t]
        /\ sessions'       = [sessions EXCEPT ![t] = s]
  BY DEF AllocateFresh, Allocate
<1>2. s \in SIMs
  BY DEF Available, Active, InState
<1>3. ASSUME NEW x \in SIMs, currentSession'[x] # NoSession
      PROVE  currentSession'[x] \in Tokens /\ sessions'[currentSession'[x]] = x
  <2>1. CASE x = s
    BY <1>1, <1>2, <2>1 DEF TypeOK
  <2>2. CASE x # s
    <3>1. currentSession'[x] = currentSession[x]
      BY <1>1, <2>2 DEF TypeOK
    <3>2. currentSession[x] \in Tokens /\ sessions[currentSession[x]] = x
      BY <1>3, <3>1 DEF NoLeakedSIM
    <3>3. currentSession[x] # t
      BY <3>2, ConstantsAssumption DEF AllocateFresh
    <3> QED BY <1>1, <3>1, <3>2, <3>3 DEF TypeOK
  <2> QED BY <2>1, <2>2
<1> QED BY <1>3 DEF NoLeakedSIM

\* release removes the map entry and the CurrentSession of the same SIM.
LEMMA ReleaseNoLeak ==
  ASSUME TypeOK, SessionOwnsSIM, NoLeakedSIM, NEW t \in Tokens, Release(t)
  PROVE  NoLeakedSIM'
<1>1. sessions[t] \in SIMs /\ currentSession[sessions[t]] = t
  BY DEF Release, TypeOK, SessionOwnsSIM
<1>2. ASSUME NEW x \in SIMs, currentSession'[x] # NoSession
      PROVE  currentSession'[x] \in Tokens /\ sessions'[currentSession'[x]] = x
  <2>1. x # sessions[t] /\ currentSession'[x] = currentSession[x]
    BY <1>1, <1>2 DEF Release, TypeOK
  <2>2. currentSession[x] \in Tokens /\ sessions[currentSession[x]] = x
    BY <1>2, <2>1 DEF NoLeakedSIM
  <2> QED BY <2>1, <2>2 DEF Release, TypeOK
<1> QED BY <1>2 DEF NoLeakedSIM

\* With fresh tokens no SIM is lost to the pool: whatever serves a session can
\* be released through the sessions map.
THEOREM NoSIMLeaks ==
  ASSUME NoSession \notin Tokens
  PROVE  FreshSpec => []NoLeakedSIM
<1>1. Init => NoLeakedSIM
  BY DEF Init, NoLeakedSIM
<1>2. TypeOK /\ SessionOwnsSIM /\ NoLeakedSIM /\ [FreshNext]_vars => NoLeakedSIM'
  <2> SUFFICES ASSUME TypeOK, SessionOwnsSIM, NoLeakedSIM, [FreshNext]_vars
               PROVE  NoLeakedSIM'
    OBVIOUS
  <2>1. ASSUME NEW t \in Tokens, AllocateFresh(t) PROVE NoLeakedSIM'
    BY <2>1, AllocateNoLeak
  <2>2. ASSUME NEW t \in Tokens, Release(t) PROVE NoLeakedSIM'
    BY <2>2, ReleaseNoLeak
  <2>3. CASE Rotator \/ Liveness
    BY <2>3, SessionsUntouched DEF NoLeakedSIM
  <2>4. CASE UNCHANGED vars
    BY <2>4 DEF vars, poolVars, NoLeakedSIM
  <2> QED BY <2>1, <2>2, <2>3, <2>4 DEF FreshNext
<1> QED BY <1>1, <1>2, FreshIsSpec, TypeCorrect, SessionsExclusive, PTL DEF FreshSpec

\* With fresh tokens the pool implements the abstract lease specification: a
\* session takes one idle SIM, keeps that SIM, and gives it back.
THEOREM PoolImplementsLease ==
  ASSUME NoSession \notin Tokens
  PROVE  FreshSpec => ImplementsLease
<1>1. Init => Lease!Init
  BY DEF Init, Lease!Init
<1>2. TypeOK /\ SessionOwnsSIM /\ NoLeakedSIM /\ [FreshNext]_vars
        => [Lease!Next]_currentSession
  <2> SUFFICES ASSUME TypeOK, SessionOwnsSIM, NoLeakedSIM, [FreshNext]_vars
               PROVE  [Lease!Next]_currentSession
    OBVIOUS
  <2>1. ASSUME NEW t \in Tokens, AllocateFresh(t)
        PROVE  Lease!Next
    <3>1. PICK s \in Available : currentSession' = [currentSession EXCEPT ![s] = t]
      BY <2>1 DEF AllocateFresh, Allocate
    <3>2. s \in SIMs /\ currentSession[s] = NoSession
      BY DEF Available, Active, InState
    <3>3. \A x \in SIMs : currentSession[x] # t
      BY <2>1, ConstantsAssumption DEF NoLeakedSIM, AllocateFresh
    <3> QED BY <3>1, <3>2, <3>3 DEF Lease!Next, Lease!Lease
  <2>2. ASSUME NEW t \in Tokens, Release(t)
        PROVE  Lease!Next
    <3>1. sessions[t] \in SIMs /\ currentSession[sessions[t]] = t
      BY <2>2 DEF Release, TypeOK, SessionOwnsSIM
    <3> QED BY <2>2, <3>1 DEF Release, Lease!Next, Lease!Return
  <2>3. CASE Rotator \/ Liveness
    BY <2>3, SessionsUntouched
  <2>4. CASE UNCHANGED vars
    BY <2>4 DEF vars, poolVars
  <2> QED BY <2>1, <2>2, <2>3, <2>4 DEF FreshNext
<1> QED
  BY <1>1, <1>2, FreshIsSpec, TypeCorrect, SessionsExclusive, NoSIMLeaks, PTL
  DEF FreshSpec, ImplementsLease, Lease!Spec

(***************************************************************************)
(* The active subset while no probe fails.                                 *)
(***************************************************************************)

\* No SIM is unavailable, and no probe in flight has seen one that is.
NoneUnavailable ==
  /\ \A s \in SIMs : state[s] # "unavailable"
  /\ \A p \in probe : p.seen # "unavailable"

\* The count of failed probes never goes back to 0.
LEMMA OutagesStay ==
  ASSUME TypeOK, [Next]_vars, outages' = 0
  PROVE  outages = 0
<1>1. ASSUME NEW t \in Tokens, Allocate(t) \/ Release(t)
      PROVE  outages = 0
  BY <1>1 DEF Allocate, Release, livenessVars
<1>2. CASE Rotator
  BY <1>2 DEF Rotator, InitActiveSubset, Rotate, Drain, livenessVars
<1>3. CASE ProbeFails
  BY <1>3 DEF ProbeFails, TypeOK
<1>4. CASE Liveness /\ ~ProbeFails
  BY <1>4 DEF Liveness, StartCheckActive, StartCheckDormant, StartPass, EndPass,
              VisitProbe, VisitSkip, ProbeSucceeds
<1>5. CASE UNCHANGED vars
  BY <1>5 DEF vars, livenessVars
<1> QED BY <1>1, <1>2, <1>3, <1>4, <1>5 DEF Next, Liveness

\* When probes do not fail, the monitor changes no state.
LEMMA MonitorIdle ==
  ASSUME TypeOK, NoneUnavailable, Liveness, outages' = 0
  PROVE  NoneUnavailable' /\ UNCHANGED state
<1>1. CASE StartCheckActive \/ StartCheckDormant
  BY <1>1 DEF StartCheckActive, StartCheckDormant, StartPass, poolVars, NoneUnavailable
<1>2. CASE EndPass
  BY <1>2 DEF EndPass, poolVars, NoneUnavailable
<1>3. ASSUME NEW s \in SIMs, VisitProbe(s) \/ VisitSkip(s)
      PROVE  NoneUnavailable' /\ UNCHANGED state
  BY <1>3 DEF VisitProbe, VisitSkip, poolVars, NoneUnavailable
<1>4. CASE ProbeFails
  BY <1>4 DEF ProbeFails, TypeOK
<1>5. CASE ProbeSucceeds
  BY <1>5 DEF ProbeSucceeds, NoneUnavailable
<1> QED BY <1>1, <1>2, <1>3, <1>4, <1>5 DEF Liveness

\* The other goroutines make no SIM unavailable.
LEMMA NoneUnavailableStep ==
  ASSUME TypeOK, NoneUnavailable, [Next]_vars, outages' = 0
  PROVE  NoneUnavailable'
<1>1. ASSUME NEW t \in Tokens, Allocate(t) \/ Release(t)
      PROVE  NoneUnavailable'
  BY <1>1 DEF Allocate, Release, livenessVars, NoneUnavailable
<1>2. CASE InitActiveSubset
  BY <1>2 DEF InitActiveSubset, Promote, livenessVars, NoneUnavailable
<1>3. CASE Rotate
  BY <1>3, RotateShape DEF Rotate, RotateEffect, Promote, livenessVars, NoneUnavailable
<1>4. ASSUME NEW d \in DrainSlots, Drain(d)
      PROVE  NoneUnavailable'
  BY <1>4 DEF Drain, livenessVars, NoneUnavailable
<1>5. CASE Liveness
  BY <1>5, MonitorIdle
<1>6. CASE UNCHANGED vars
  BY <1>6 DEF vars, poolVars, livenessVars, NoneUnavailable
<1> QED BY <1>1, <1>2, <1>3, <1>4, <1>5, <1>6 DEF Next, Rotator

\* While probes succeed, a session is served from the active subset to its end:
\* neither a rotation nor a late drain retires its SIM.
THEOREM BusyStaysActive == Spec => []BusySIMIsActive
<1> DEFINE Inv == (outages = 0 => NoneUnavailable) /\ BusySIMIsActive
<1>1. Init => Inv
  BY DEF Init, NoneUnavailable, BusySIMIsActive
<1>2. TypeOK /\ Inv /\ [Next]_vars => Inv'
  <2> SUFFICES ASSUME TypeOK, Inv, [Next]_vars, outages' = 0
               PROVE  NoneUnavailable' /\ BusySIMIsActive'
    BY DEF BusySIMIsActive
  <2>0. outages = 0 /\ NoneUnavailable /\ NoneUnavailable'
    BY OutagesStay, NoneUnavailableStep
  <2> USE <2>0 DEF BusySIMIsActive
  <2>1. ASSUME NEW t \in Tokens, Allocate(t)
        PROVE  BusySIMIsActive'
    BY <2>1 DEF Allocate, Available, Active, InState, TypeOK
  <2>2. ASSUME NEW t \in Tokens, Release(t)
        PROVE  BusySIMIsActive'
    BY <2>2 DEF Release, TypeOK
  <2>3. CASE InitActiveSubset
    BY <2>3 DEF InitActiveSubset, Promote
  <2>4. CASE Rotate
    BY <2>4, RotateShape DEF Rotate, RotateEffect, Promote
  <2>5. ASSUME NEW d \in DrainSlots, Drain(d)
        PROVE  BusySIMIsActive'
    BY <2>5 DEF Drain
  <2>6. CASE Liveness
    BY <2>6, MonitorIdle, SessionsUntouched
  <2>7. CASE UNCHANGED vars
    BY <2>7 DEF vars, poolVars
  <2> QED BY <2>1, <2>2, <2>3, <2>4, <2>5, <2>6, <2>7 DEF Next, Rotator
<1> QED BY <1>1, <1>2, TypeCorrect, PTL DEF Spec

\* The size of what Pick collects.
LEMMA PickCardinality ==
  ASSUME NEW S, IsFiniteSet(S), NEW n \in Nat, NEW T \in Pick(S, n)
  PROVE  /\ IsFiniteSet(T)
         /\ Cardinality(T) \in Nat
         /\ Cardinality(T) <= n
         /\ Cardinality(T) = n \/ T = S
<1>1. T \subseteq S
  BY PickSubset
<1>2. IsFiniteSet(T) /\ Cardinality(T) \in Nat /\ Cardinality(S) \in Nat
  BY <1>1, FS_Subset, FS_CardinalityType
<1>3. Cardinality(T) = IF n < Cardinality(S) THEN n ELSE Cardinality(S)
  BY DEF Pick
<1>4. Cardinality(T) = Cardinality(S) => T = S
  BY <1>1, FS_Subset
<1> QED BY <1>2, <1>3, <1>4

\* The number of SIMs the active subset does not fall below.
Floor == IF TargetCount < Cardinality(SIMs) THEN TargetCount ELSE Cardinality(SIMs)

\* What the sleeping drain goroutines are still going to retire, a SIM once for
\* every goroutine that has it on its list.
Pending == {p \in DrainSlots \X SIMs : p[2] \in draining[p[1]]}

\* The strengthening of ActiveFloor: above its floor the subset has a SIM for
\* every retirement that is pending. That the pending SIMs are active, or on one
\* list only, is not part of it: drains that end out of order make both false.
FloorInv ==
  /\ IsFiniteSet(Pending)
  /\ ~started => Active = {} /\ Pending = {}
  /\ started => Cardinality(Active) >= Floor + Cardinality(Pending)

\* The sets of SIMs in FloorInv are finite and their sizes are numbers.
LEMMA Sizes ==
  /\ IsFiniteSet(Active) /\ IsFiniteSet(Dormant)
  /\ Active \subseteq SIMs /\ Dormant \subseteq SIMs
  /\ \A S \in SUBSET SIMs : IsFiniteSet(S) /\ Cardinality(S) \in Nat
                            /\ Cardinality(S) <= Cardinality(SIMs)
  /\ Cardinality(SIMs) \in Nat /\ TargetCount \in Nat /\ Floor \in Nat
<1>1. Active \subseteq SIMs /\ Dormant \subseteq SIMs
  BY DEF Active, Dormant, InState
<1>2. \A S \in SUBSET SIMs : IsFiniteSet(S) /\ Cardinality(S) \in Nat
                            /\ Cardinality(S) <= Cardinality(SIMs)
  BY ConstantsAssumption, FS_Subset, FS_CardinalityType
<1>3. Cardinality(SIMs) \in Nat /\ TargetCount \in Nat
  BY <1>2, ConstantsAssumption DEF TargetCount
<1> QED BY <1>1, <1>2, <1>3 DEF Floor

\* A larger set of SIMs has at least as many elements.
LEMMA Larger ==
  ASSUME NEW S \in SUBSET SIMs, NEW T \in SUBSET S
  PROVE  Cardinality(T) <= Cardinality(S)
BY Sizes, FS_Subset

\* Disjoint sets of SIMs add up.
LEMMA DisjointUnion ==
  ASSUME NEW S \in SUBSET SIMs, NEW T \in SUBSET SIMs, S \cap T = {}
  PROVE  Cardinality(S \cup T) = Cardinality(S) + Cardinality(T)
<1>1. IsFiniteSet(S) /\ IsFiniteSet(T) /\ Cardinality(S) \in Nat /\ Cardinality(T) \in Nat
  BY Sizes
<1>2. Cardinality(S \cap T) = 0
  BY FS_EmptySet
<1>3. Cardinality(S \cup T) = Cardinality(S) + Cardinality(T) - Cardinality(S \cap T)
  BY <1>1, FS_Union, Zenon
<1> QED BY <1>1, <1>2, <1>3

\* A list of SIMs counts once in the drain slot that holds it.
LEMMA SlotSize ==
  ASSUME NEW d, NEW R \in SUBSET SIMs
  PROVE  IsFiniteSet({d} \X R) /\ Cardinality({d} \X R) = Cardinality(R)
<1>1. IsFiniteSet(R) /\ Cardinality(R) \in Nat
  BY Sizes
<1>2. IsFiniteSet({d}) /\ Cardinality({d}) = 1
  BY FS_Singleton
<1>3. IsFiniteSet({d} \X R) /\ Cardinality({d} \X R) = Cardinality({d}) * Cardinality(R)
  BY <1>1, <1>2, FS_Product
<1> QED BY <1>1, <1>2, <1>3

\* initActiveSubset activates the target number of SIMs, or all of them.
LEMMA FloorInit ==
  ASSUME TypeOK, NoneUnavailable, FloorInv, InitActiveSubset
  PROVE  FloorInv'
<1>1. PICK P \in Pick(Dormant, TargetCount) : Promote(P)
  BY DEF InitActiveSubset
<1>2. Active = {} /\ Pending = {} /\ Pending' = Pending /\ started'
  BY DEF InitActiveSubset, FloorInv, Pending
<1>3. Dormant = SIMs
  BY <1>2 DEF NoneUnavailable, TypeOK, SIMState, Active, Dormant, InState
<1>4. P \subseteq SIMs
  BY <1>3, PickSubset
<1>5. Active' = P
  BY <1>1, <1>2, <1>4 DEF Promote, Active, InState
<1>6. Cardinality(P) = TargetCount \/ P = SIMs
  BY <1>3, Sizes, PickCardinality
<1>7. Cardinality(P) \in Nat /\ Cardinality(P) >= Floor
  BY <1>4, <1>6, Sizes DEF Floor
<1>8. IsFiniteSet(Pending') /\ Cardinality(Pending') = 0
  BY <1>2, FS_EmptySet
<1>9. Cardinality(Active') >= Floor + Cardinality(Pending')
  BY <1>5, <1>7, <1>8, Sizes
<1> QED BY <1>2, <1>8, <1>9 DEF FloorInv

\* A rotation promotes at least as many SIMs as it hands to its drain, however
\* many drains are pending and whatever is on their lists.
LEMMA FloorRotate ==
  ASSUME TypeOK, FloorInv, Rotate
  PROVE  FloorInv'
<1>1. PICK P \in SUBSET SIMs, M \in SUBSET SIMs, R \in SUBSET SIMs, d \in DrainSlots :
        RotateEffect(P, M, R, d)
  BY RotateShape
<1>2. started /\ started' /\ draining[d] = {} /\ draining' = [draining EXCEPT ![d] = R]
  BY <1>1 DEF Rotate, RotateEffect
<1>3. P \cap Active = {}
  BY <1>1 DEF RotateEffect, Dormant, Active, InState
<1>4. Active' = Active \cup P \cup M
  BY <1>1 DEF RotateEffect, Promote, Active, InState
<1>5. RetirementCandidates \subseteq SIMs
  BY DEF RetirementCandidates, Active, InState
<1>6. Cardinality(R) <= Cardinality(P)
  BY <1>1, <1>5, Sizes, PickCardinality DEF RotateEffect
<1>7. Cardinality(Active \cup P) = Cardinality(Active) + Cardinality(P)
  BY <1>3, Sizes, DisjointUnion
<1>8. Cardinality(Active \cup P) <= Cardinality(Active')
  BY <1>4, Sizes, Larger
<1>9. Pending' = Pending \cup ({d} \X R)
  BY <1>2 DEF Pending, TypeOK
<1>10. Pending \cap ({d} \X R) = {}
  BY <1>2 DEF Pending
<1>11. /\ IsFiniteSet(Pending') /\ Cardinality(Pending) \in Nat
       /\ Cardinality(Pending') = Cardinality(Pending) + Cardinality(R)
  <2>1. IsFiniteSet(Pending) /\ Cardinality(Pending) \in Nat
    BY FS_CardinalityType DEF FloorInv
  <2>2. IsFiniteSet({d} \X R) /\ Cardinality({d} \X R) = Cardinality(R)
    BY SlotSize
  <2>3. Cardinality(Pending \cap ({d} \X R)) = 0
    BY <1>10, FS_EmptySet
  <2>4. /\ IsFiniteSet(Pending \cup ({d} \X R))
        /\ Cardinality(Pending \cup ({d} \X R)) =
             Cardinality(Pending) + Cardinality({d} \X R) - Cardinality(Pending \cap ({d} \X R))
    BY <2>1, <2>2, FS_Union, Zenon
  <2>5. Cardinality(R) \in Nat
    BY Sizes
  <2> QED BY <1>9, <2>1, <2>2, <2>3, <2>4, <2>5
<1>12. /\ Cardinality(Active) \in Nat /\ Cardinality(P) \in Nat /\ Cardinality(R) \in Nat
       /\ Cardinality(Active') \in Nat /\ Floor \in Nat
  BY <1>1, <1>4, Sizes
<1>13. Cardinality(Active) >= Floor + Cardinality(Pending)
  BY <1>2 DEF FloorInv
<1>14. Cardinality(Active') >= Floor + Cardinality(Pending')
  BY <1>6, <1>7, <1>8, <1>11, <1>12, <1>13
<1> QED BY <1>2, <1>11, <1>14 DEF FloorInv

\* A drain retires at most the SIMs of its own list.
LEMMA FloorDrain ==
  ASSUME TypeOK, FloorInv, NEW d \in DrainSlots, Drain(d)
  PROVE  FloorInv'
<1> DEFINE R == draining[d]
<1>1. R \in SUBSET SIMs /\ R # {} /\ draining' = [draining EXCEPT ![d] = {}]
  BY DEF Drain, TypeOK
<1>2. {d} \X R \subseteq Pending /\ Pending # {}
  <2>1. PICK s \in SIMs : s \in R
    BY <1>1
  <2>2. <<d, s>> \in Pending
    BY <2>1 DEF Pending
  <2>3. {d} \X R \subseteq Pending
    BY <1>1 DEF Pending
  <2> QED BY <2>2, <2>3
<1>3. started /\ started'
  BY <1>2 DEF Drain, FloorInv
<1>4. Active \ R \subseteq Active' /\ Active' \subseteq SIMs
  BY DEF Drain, Active, InState
<1>5. Pending' = Pending \ ({d} \X R)
  BY <1>1 DEF Pending, TypeOK
<1> HIDE DEF R
<1>6. Cardinality(Active) <= Cardinality(Active') + Cardinality(R)
  <2>1. Active \subseteq Active' \cup R /\ Active' \cup R \in SUBSET SIMs
    BY <1>1, <1>4
  <2>2. Cardinality(Active) <= Cardinality(Active' \cup R)
    BY <2>1, Larger
  <2>3. Active' \cap R \in SUBSET SIMs
    BY <1>1
  <2>4. /\ Cardinality(Active' \cap R) \in Nat /\ Cardinality(Active') \in Nat
        /\ Cardinality(R) \in Nat /\ Cardinality(Active' \cup R) \in Nat
        /\ Cardinality(Active) \in Nat
        /\ IsFiniteSet(Active') /\ IsFiniteSet(R)
    BY <1>1, <1>4, <2>1, <2>3, Sizes
  <2>5. Cardinality(Active' \cup R) =
          Cardinality(Active') + Cardinality(R) - Cardinality(Active' \cap R)
    BY <2>4, FS_Union, Zenon
  <2> QED BY <2>2, <2>4, <2>5
<1>7. /\ IsFiniteSet(Pending') /\ Cardinality(Pending) \in Nat
      /\ Cardinality(Pending') = Cardinality(Pending) - Cardinality(R)
  <2>1. IsFiniteSet(Pending) /\ Cardinality(Pending) \in Nat
    BY FS_CardinalityType DEF FloorInv
  <2>2. Pending \cap ({d} \X R) = {d} \X R
    BY <1>2
  <2>3. /\ IsFiniteSet(Pending \ ({d} \X R))
        /\ Cardinality(Pending \ ({d} \X R)) =
             Cardinality(Pending) - Cardinality(Pending \cap ({d} \X R))
    BY <2>1, FS_Difference, Zenon
  <2>4. Cardinality({d} \X R) = Cardinality(R)
    BY <1>1, SlotSize
  <2>5. Cardinality(Pending') = Cardinality(Pending) - Cardinality({d} \X R)
    BY <1>5, <2>2, <2>3
  <2> QED BY <1>5, <2>1, <2>3, <2>4, <2>5
<1>8. /\ Cardinality(Active) \in Nat /\ Cardinality(R) \in Nat
      /\ Cardinality(Active') \in Nat /\ Floor \in Nat
  BY <1>1, <1>4, Sizes
<1>9. Cardinality(Active) >= Floor + Cardinality(Pending)
  BY <1>3 DEF FloorInv
<1>10. Cardinality(Active') >= Floor + Cardinality(Pending')
  BY <1>6, <1>7, <1>8, <1>9
<1> QED BY <1>3, <1>7, <1>10 DEF FloorInv

\* While probes succeed the active subset never falls below the target, or is
\* the whole pool when the pool is smaller than the target: however many drains
\* overlap, in whatever order they end, and whatever their lists share.
THEOREM FloorHolds == Spec => []ActiveFloor
<1> DEFINE Inv == outages = 0 => NoneUnavailable /\ FloorInv
<1>1. Init => Inv
  <2> SUFFICES ASSUME Init PROVE NoneUnavailable /\ FloorInv
    OBVIOUS
  <2>1. Active = {} /\ Pending = {} /\ ~started
    BY DEF Init, Active, InState, Pending
  <2>2. IsFiniteSet(Pending)
    BY <2>1, FS_EmptySet
  <2> QED BY <2>1, <2>2 DEF Init, NoneUnavailable, FloorInv
<1>2. TypeOK /\ Inv /\ [Next]_vars => Inv'
  <2> SUFFICES ASSUME TypeOK, NoneUnavailable, FloorInv, [Next]_vars, outages' = 0
               PROVE  FloorInv'
    BY OutagesStay, NoneUnavailableStep
  <2>1. ASSUME UNCHANGED <<state, started, draining>>
        PROVE  FloorInv'
    <3>1. Active' = Active /\ Pending' = Pending /\ started' = started
      BY <2>1 DEF Active, InState, Pending
    <3> QED BY <3>1 DEF FloorInv
  <2>2. ASSUME NEW t \in Tokens, Allocate(t) \/ Release(t)
        PROVE  FloorInv'
    BY <2>1, <2>2 DEF Allocate, Release, rotatorVars
  <2>3. CASE InitActiveSubset
    BY <2>3, FloorInit
  <2>4. CASE Rotate
    BY <2>4, FloorRotate
  <2>5. ASSUME NEW d \in DrainSlots, Drain(d)
        PROVE  FloorInv'
    BY <2>5, FloorDrain
  <2>6. CASE Liveness
    <3>1. UNCHANGED <<started, draining>>
      BY <2>6 DEF Liveness, StartCheckActive, StartCheckDormant, StartPass, EndPass,
                  VisitProbe, VisitSkip, ProbeFails, ProbeSucceeds, rotatorVars
    <3> QED BY <2>1, <2>6, <3>1, MonitorIdle
  <2>7. CASE UNCHANGED vars
    BY <2>1, <2>7 DEF vars, poolVars, rotatorVars
  <2> QED BY <2>2, <2>3, <2>4, <2>5, <2>6, <2>7 DEF Next, Rotator
<1>3. TypeOK /\ Inv => ActiveFloor
  <2> SUFFICES ASSUME TypeOK, FloorInv, started, outages = 0
               PROVE  Cardinality(Active) >= TargetCount \/ Active = SIMs
    BY DEF ActiveFloor
  <2>1. Cardinality(Pending) \in Nat
    BY FS_CardinalityType DEF FloorInv
  <2>2. Cardinality(Active) >= Floor
    BY <2>1, Sizes DEF FloorInv
  <2>3. Cardinality(Active) = Cardinality(SIMs) => Active = SIMs
    BY Sizes, ConstantsAssumption, FS_Subset
  <2> QED BY <2>2, <2>3, Sizes DEF Floor
<1> QED BY <1>1, <1>2, <1>3, TypeCorrect, PTL DEF Spec

\* Whatever failed before, a rotation brings the active subset back to the
\* target or leaves no SIM dormant.
THEOREM RotationsRefill == Spec => RotationRefills
<1>1. TypeOK => [Rotate => \/ Cardinality(Active') >= TargetCount
                          \/ Dormant' = {}]_vars
  <2> SUFFICES ASSUME TypeOK, Rotate, Dormant' # {}
               PROVE  Cardinality(Active') >= TargetCount
    OBVIOUS
  <2>1. PICK P \in SUBSET SIMs, M \in SUBSET SIMs, R \in SUBSET SIMs, d \in DrainSlots :
          RotateEffect(P, M, R, d)
    BY RotateShape
  <2>2. Active' = (Active \cup P) \cup M
    BY <2>1 DEF RotateEffect, Promote, Active, InState
  <2>3. P \cap Active = {} /\ M \cap (Active \cup P) = {}
    BY <2>1 DEF RotateEffect, Dormant, Active, InState
  <2>4. M # Dormant \ P
    BY <2>1 DEF RotateEffect, Promote, Dormant, InState
  <2>5. Cardinality(Active \cup P) = Cardinality(Active) + Cardinality(P)
    BY <2>3, Sizes, DisjointUnion
  <2>6. Cardinality(Active') = Cardinality(Active) + Cardinality(P) + Cardinality(M)
    BY <2>2, <2>3, <2>5, Sizes, DisjointUnion
  <2> DEFINE need == Shortfall(Cardinality(Active) + Cardinality(P))
  <2>7. need \in Nat
    BY Sizes DEF Shortfall
  <2>8. Cardinality(M) = need
    <3>1. IsFiniteSet(Dormant \ P)
      BY Sizes
    <3> HIDE DEF need
    <3> QED BY <2>1, <2>4, <2>7, <3>1, PickCardinality DEF RotateEffect, need
  <2> QED BY <2>6, <2>8, Sizes DEF Shortfall
<1> QED BY <1>1, TypeCorrect, PTL DEF RotationRefills

\* The random number of replacements is at least one.
LEMMA ReplacesSome ==
  ASSUME NEW active \in Nat, NEW n \in ReplaceCounts(active)
  PROVE  n \in Nat /\ n >= 1
BY DEF ReplaceCounts

\* A rotation promotes some SIM if there is a dormant one.
LEMMA RotatePromotes ==
  ASSUME Rotate, Dormant # {}
  PROVE  \E s \in Dormant : state'[s] = "active"
<1>1. PICK n \in ReplaceCounts(Cardinality(Active)) :
        \E P \in Pick(DormantCandidates, n) :
        \E R \in Pick(RetirementCandidates, Cardinality(P)) :
        \E M \in Pick(Dormant \ P, Shortfall(Cardinality(Active) + Cardinality(P))) :
          Promote(P \cup M)
  BY DEF Rotate
<1>2. PICK P \in Pick(Dormant, n) : \E M : Promote(P \cup M)
  BY <1>1 DEF DormantCandidates
<1>3. n \in Nat /\ n >= 1
  BY Sizes, ReplacesSome
<1>4. Cardinality(P) = n \/ P = Dormant
  BY <1>3, Sizes, PickCardinality
<1>5. P # {}
  <2>1. CASE P = {}
    <3>1. Cardinality(P) = 0
      BY <2>1, FS_EmptySet
    <3> QED BY <1>3, <1>4, <2>1, <3>1
  <2> QED BY <2>1
<1>6. P \subseteq Dormant /\ Dormant \subseteq SIMs
  BY Sizes, PickSubset
<1>7. PICK s \in P : s \in Dormant /\ s \in SIMs
  BY <1>5, <1>6
<1>8. state'[s] = "active"
  BY <1>2, <1>7 DEF Promote
<1> QED BY <1>7, <1>8

\* While probes succeed, a rotation takes no SIM away from the callers and, if
\* there is a dormant SIM, makes at least one more available to them, although
\* sessions may hold every active SIM. This is the step that ends an exhaustion
\* (rotation.go rotate).
THEOREM RotationsMakeAvailable ==
  Spec => [][Rotate /\ outages = 0 =>
               /\ Available \subseteq Available'
               /\ Dormant # {} => Available' # Available]_vars
<1>1. TypeOK /\ BusySIMIsActive =>
        [Rotate /\ outages = 0 =>
           /\ Available \subseteq Available'
           /\ Dormant # {} => Available' # Available]_vars
  <2> SUFFICES ASSUME TypeOK, BusySIMIsActive, Rotate, outages = 0
               PROVE  /\ Available \subseteq Available'
                      /\ Dormant # {} => Available' # Available
    OBVIOUS
  <2>1. UNCHANGED currentSession
    BY DEF Rotate
  <2>2. \A s \in SIMs : state[s] = "active" => state'[s] = "active"
    BY RotateShape DEF RotateEffect, Promote
  <2>3. Available \subseteq Available'
    BY <2>1, <2>2 DEF Available, Active, InState
  <2>4. ASSUME Dormant # {}
        PROVE  Available' # Available
    <3>1. PICK s \in Dormant : state'[s] = "active"
      BY <2>4, RotatePromotes
    <3>2. s \in SIMs /\ state[s] = "dormant"
      BY DEF Dormant, InState
    <3>3. currentSession[s] = NoSession
      BY <3>2 DEF BusySIMIsActive
    <3>4. s \in Available' /\ s \notin Available
      BY <2>1, <3>1, <3>2, <3>3 DEF Available, Active, InState
    <3> QED BY <3>4
  <2> QED BY <2>3, <2>4
<1> QED BY <1>1, TypeCorrect, BusyStaysActive, PTL
=============================================================================
