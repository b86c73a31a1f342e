------------------------------ MODULE SimPool ------------------------------
(***************************************************************************)
(* camo-simpool: the pool of SIMs one node allocates to sessions.          *)
(*                                                                         *)
(* Four kinds of goroutine share the pool and its mutex:                   *)
(*   - the API connections allocate and release SIMs (pool.go, api.go);    *)
(*   - the rotator replaces part of the active subset (rotation.go);       *)
(*   - one drain goroutine per rotation retires the replaced SIMs after    *)
(*     drainWindow (rotation.go);                                          *)
(*   - the liveness monitor probes SIMs (liveness.go). It reads a SIM's    *)
(*     state WITHOUT the mutex, probes the carrier, and only then locks    *)
(*     the pool and applies the result.                                    *)
(* A section under the mutex is one action; a probe is two (visit, return).*)
(*                                                                         *)
(* Time enters the code only through comparisons, and only those are kept: *)
(* usedSince[s] is "LastActive is after lastRotation"; that a drain ends   *)
(* after the rotation that started it is the pending set in draining; that *)
(* a retry is not due yet is a nondeterministic skip.                      *)
(***************************************************************************)
EXTENDS Naturals, FiniteSets

CONSTANTS
  SIMs,            \* the inventory main registers before any goroutine starts
  Tokens,          \* session tokens callers use
  NoSession,       \* "": the CurrentSession of an idle SIM
  NoSIM,           \* the sessions map has no entry for a token
  MinActiveCount,  \* minActiveCount (4)
  ActiveShare,     \* int(float64(total) * targetActiveRatio)
  DrainSlots,      \* drains that can be pending at once: with the default
                   \* interval (480s) and window (30s) there is one slot
  MaxOutages       \* bound: how many probes may fail in a behaviour

ASSUME ConstantsAssumption ==
  /\ IsFiniteSet(SIMs)
  /\ NoSIM \notin SIMs
  /\ MinActiveCount \in Nat
  /\ ActiveShare \in Nat
  /\ MaxOutages \in Nat

VARIABLES
  state,           \* SIM.State
  currentSession,  \* SIM.CurrentSession
  failCount,       \* SIM.FailCount
  usedSince,       \* SIM.LastActive.After(pool.lastRotation)
  sessions,        \* pool.sessions, NoSIM where the map has no entry
  started,         \* initActiveSubset has run
  draining,        \* per slot, the toRetire list of a sleeping drain goroutine
  pass,            \* what the liveness monitor is doing
  todo,            \* SIMs the current pass has not visited
  probe,           \* the SIM being probed and the state read before, or {}
  outages          \* probes that have failed so far

poolVars     == <<state, currentSession, failCount, usedSince, sessions>>
rotatorVars  == <<started, draining>>
livenessVars == <<pass, todo, probe, outages>>
vars         == <<poolVars, rotatorVars, livenessVars>>

SIMState == {"active", "dormant", "unavailable"}

(***************************************************************************)
(* Views of the pool (sim.go).                                             *)
(***************************************************************************)
InState(st) == {s \in SIMs : state[s] = st}
Active      == InState("active")
Dormant     == InState("dormant")

\* Mutation: isAvailable without the test of CurrentSession.
AvailableBusyToo     == Active
Available            == {s \in Active : currentSession[s] = NoSession}
DormantCandidates    == Dormant
RetirementCandidates == {s \in Active : currentSession[s] = NoSession /\ ~usedSince[s]}

TargetCount == IF ActiveShare < MinActiveCount THEN MinActiveCount ELSE ActiveShare

\* Mutation: the loops break one SIM too late.
PickOneMore(S, n) ==
  {T \in SUBSET S : Cardinality(T) = IF n + 1 < Cardinality(S) THEN n + 1 ELSE Cardinality(S)}

\* What a loop over the SIM map, in Go's random order, can have collected from
\* S when it breaks at n.
Pick(S, n) ==
  {T \in SUBSET S : Cardinality(T) = IF n < Cardinality(S) THEN n ELSE Cardinality(S)}

Init ==
  /\ state          = [s \in SIMs |-> "dormant"]
  /\ currentSession = [s \in SIMs |-> NoSession]
  /\ failCount      = [s \in SIMs |-> 0]
  /\ usedSince      = [s \in SIMs |-> FALSE]
  /\ sessions       = [t \in Tokens |-> NoSIM]
  /\ started        = FALSE
  /\ draining       = [d \in DrainSlots |-> {}]
  /\ pass           = "idle"
  /\ todo           = {}
  /\ probe          = {}
  /\ outages        = 0

(***************************************************************************)
(* API connections. A call that returns an error changes nothing.          *)
(***************************************************************************)

\* pool.allocate: nothing checks that the token is new.
Allocate(t) ==
  \E s \in Available :
    /\ currentSession' = [currentSession EXCEPT ![s] = t]
    /\ usedSince'      = [usedSince EXCEPT ![s] = TRUE]
    /\ sessions'       = [sessions EXCEPT ![t] = s]
    /\ UNCHANGED <<state, failCount, rotatorVars, livenessVars>>

\* Mutation: release forgets the SIM.
ReleaseMapOnly(t) ==
  /\ sessions[t] # NoSIM
  /\ sessions' = [sessions EXCEPT ![t] = NoSIM]
  /\ UNCHANGED <<state, currentSession, failCount, usedSince, rotatorVars, livenessVars>>

\* Mutation: release does not delete the token's entry.
ReleaseKeepsEntry(t) ==
  /\ sessions[t] # NoSIM
  /\ currentSession' = [currentSession EXCEPT ![sessions[t]] = NoSession]
  /\ UNCHANGED <<state, failCount, usedSince, sessions, rotatorVars, livenessVars>>

Release(t) ==
  /\ sessions[t] # NoSIM
  /\ sessions'       = [sessions EXCEPT ![t] = NoSIM]
  /\ currentSession' = [currentSession EXCEPT ![sessions[t]] = NoSession]
  /\ UNCHANGED <<state, failCount, usedSince, rotatorVars, livenessVars>>

(***************************************************************************)
(* The rotator and its drain goroutines.                                   *)
(***************************************************************************)
Promote(P) == state' = [s \in SIMs |-> IF s \in P THEN "active" ELSE state[s]]

InitActiveSubset ==
  /\ ~started
  /\ started' = TRUE
  /\ \E P \in Pick(Dormant, TargetCount) : Promote(P)
  /\ UNCHANGED <<currentSession, failCount, usedSince, sessions, draining, livenessVars>>

\* Mutation: a random 0 is not turned into 1.
ReplaceCountsFromZero(active) ==
  0 .. ((IF active \div 2 < 1 THEN 1 ELSE active \div 2) - 1)

\* randomInt(maxReplace) is in 0 .. maxReplace - 1, and 0 becomes 1.
ReplaceCounts(active) ==
  LET maxReplace == IF active \div 2 < 1 THEN 1 ELSE active \div 2
  IN  {1} \cup 1 .. (maxReplace - 1)

\* Mutation: one SIM short of the target is good enough.
ShortfallOffByOne(activeAfter) ==
  IF activeAfter + 1 < TargetCount THEN TargetCount - activeAfter ELSE 0

Shortfall(activeAfter) == IF activeAfter < TargetCount THEN TargetCount - activeAfter ELSE 0

\* rotate up to the unlock, and the start of the drain goroutine.
Rotate ==
  /\ started
  /\ \E n \in ReplaceCounts(Cardinality(Active)) :
     \E toPromote \in Pick(DormantCandidates, n) :
     \E toRetire \in Pick(RetirementCandidates, Cardinality(toPromote)) :
     \E more \in Pick(Dormant \ toPromote,
                      Shortfall(Cardinality(Active) + Cardinality(toPromote))) :
     \E d \in DrainSlots :
       /\ draining[d] = {}
       /\ Promote(toPromote \cup more)
       /\ draining' = [draining EXCEPT ![d] = toRetire]
  /\ usedSince' = [s \in SIMs |-> FALSE]
  /\ UNCHANGED <<currentSession, failCount, sessions, started, livenessVars>>

\* Mutation: the drain retires SIMs that got a session during the window.
DrainBusyToo(d) ==
  /\ draining[d] # {}
  /\ state' = [s \in SIMs |-> IF s \in draining[d] THEN "dormant" ELSE state[s]]
  /\ draining' = [draining EXCEPT ![d] = {}]
  /\ UNCHANGED <<currentSession, failCount, usedSince, sessions, started, livenessVars>>

\* The drain goroutine after its sleep: it looks at the session of each SIM it
\* retires, not at its state.
Drain(d) ==
  /\ draining[d] # {}
  /\ state' = [s \in SIMs |-> IF s \in draining[d] /\ currentSession[s] = NoSession
                              THEN "dormant" ELSE state[s]]
  /\ draining' = [draining EXCEPT ![d] = {}]
  /\ UNCHANGED <<currentSession, failCount, usedSince, sessions, started, livenessVars>>

(***************************************************************************)
(* The liveness monitor.                                                   *)
(***************************************************************************)
StartPass(kind) ==
  /\ pass = "idle"
  /\ pass' = kind
  /\ todo' = SIMs
  /\ UNCHANGED <<poolVars, rotatorVars, probe, outages>>

StartCheckActive  == StartPass("active")
StartCheckDormant == StartPass("dormant")

\* Mutation: checkDormant without its case for unavailable SIMs.
ProbedNoRetry(kind) == IF kind = "active" THEN {"active"} ELSE {"dormant"}

\* The states a pass probes: checkActive active SIMs, checkDormant the others.
Probed(kind) == IF kind = "active" THEN {"active"} ELSE {"dormant", "unavailable"}

\* Mutation: one goroutine per probe.
VisitProbeConcurrently(s) ==
  /\ pass # "idle" /\ s \in todo
  /\ state[s] \in Probed(pass)
  /\ todo'  = todo \ {s}
  /\ probe' = probe \cup {[sim |-> s, seen |-> state[s]]}
  /\ UNCHANGED <<poolVars, rotatorVars, pass, outages>>

\* The loop reaches s, reads its state and calls Check.
VisitProbe(s) ==
  /\ pass # "idle" /\ s \in todo /\ probe = {}
  /\ state[s] \in Probed(pass)
  /\ todo'  = todo \ {s}
  /\ probe' = {[sim |-> s, seen |-> state[s]]}
  /\ UNCHANGED <<poolVars, rotatorVars, pass, outages>>

\* The loop reaches s and goes on to the next SIM: this pass does not probe
\* its state, or its backoff has not elapsed.
VisitSkip(s) ==
  /\ pass # "idle" /\ s \in todo /\ probe = {}
  /\ state[s] \notin Probed(pass) \/ state[s] = "unavailable"
  /\ todo' = todo \ {s}
  /\ UNCHANGED <<poolVars, rotatorVars, pass, probe, outages>>

MarkUnavailable(s) ==
  /\ state'     = [state EXCEPT ![s] = "unavailable"]
  /\ failCount' = [failCount EXCEPT ![s] = @ + 1]

MarkDormant(s) ==
  /\ state'     = [state EXCEPT ![s] = "dormant"]
  /\ failCount' = [failCount EXCEPT ![s] = 0]

\* Check returns an error: whatever the SIM has become, it is unavailable now.
ProbeFails ==
  /\ outages < MaxOutages
  /\ \E p \in probe : MarkUnavailable(p.sim)
  /\ probe'   = {}
  /\ outages' = outages + 1
  /\ UNCHANGED <<currentSession, usedSince, sessions, rotatorVars, pass, todo>>

\* Check succeeds: a SIM that was unavailable when it was visited is dormant
\* now; the others keep their state.
ProbeSucceeds ==
  /\ \E p \in probe : IF p.seen = "unavailable" THEN MarkDormant(p.sim)
                                                ELSE UNCHANGED <<state, failCount>>
  /\ probe' = {}
  /\ UNCHANGED <<currentSession, usedSince, sessions, rotatorVars, pass, todo, outages>>

EndPass ==
  /\ pass # "idle" /\ todo = {} /\ probe = {}
  /\ pass' = "idle"
  /\ UNCHANGED <<poolVars, rotatorVars, todo, probe, outages>>

(***************************************************************************)
(* The specification.                                                      *)
(***************************************************************************)
Rotator  == InitActiveSubset \/ Rotate \/ \E d \in DrainSlots : Drain(d)

Liveness ==
  \/ StartCheckActive \/ StartCheckDormant \/ EndPass
  \/ \E s \in SIMs : VisitProbe(s) \/ VisitSkip(s)
  \/ ProbeFails \/ ProbeSucceeds

Next == (\E t \in Tokens : Allocate(t) \/ Release(t)) \/ Rotator \/ Liveness

Spec == Init /\ [][Next]_vars

\* Callers that never reuse the token of a session that is still allocated.
AllocateFresh(t) == sessions[t] = NoSIM /\ Allocate(t)

FreshNext == (\E t \in Tokens : AllocateFresh(t) \/ Release(t)) \/ Rotator \/ Liveness

FreshSpec == Init /\ [][FreshNext]_vars

Visit == \E s \in SIMs : VisitProbe(s) \/ VisitSkip(s)
Retry(s) == state[s] = "unavailable" /\ VisitProbe(s)

\* Tickers keep firing, sleeps end and Check returns. The hourly tick stays in
\* its channel until select picks it (strong fairness). The backoff is capped
\* by maxBackoffInterval and restarts only when a probe was made, so a SIM is
\* not skipped for ever.
Fairness ==
  /\ WF_vars(InitActiveSubset)
  /\ WF_vars(Rotate)
  /\ \A d \in DrainSlots : WF_vars(Drain(d))
  /\ SF_vars(StartCheckDormant)
  /\ WF_vars(StartCheckActive \/ StartCheckDormant \/ EndPass)
  /\ WF_vars(Visit)
  /\ WF_vars(ProbeFails \/ ProbeSucceeds)
  /\ \A s \in SIMs : SF_vars(Retry(s))

FairSpec == Spec /\ Fairness

-----------------------------------------------------------------------------
(***************************************************************************)
(* Properties.                                                             *)
(***************************************************************************)

\* Every variable keeps the type of the Go field it stands for, and at most one
\* probe is in flight (the monitor is a single goroutine).
TypeOK ==
  /\ state \in [SIMs -> SIMState]
  /\ currentSession \in [SIMs -> Tokens \cup {NoSession}]
  /\ failCount \in [SIMs -> Nat]
  /\ usedSince \in [SIMs -> BOOLEAN]
  /\ sessions \in [Tokens -> SIMs \cup {NoSIM}]
  /\ started \in BOOLEAN
  /\ draining \in [DrainSlots -> SUBSET SIMs]
  /\ pass \in {"idle", "active", "dormant"}
  /\ todo \in SUBSET SIMs
  /\ probe = {} \/ \E s \in SIMs, st \in SIMState : probe = {[sim |-> s, seen |-> st]}
  /\ outages \in Nat

\* The SIM the sessions map records for a token serves that very token, whatever
\* rotations, drains and probes happened since allocate: so two sessions never
\* share a SIM and release frees the SIM of its own session (pool.go).
SessionOwnsSIM ==
  \A t \in Tokens : sessions[t] # NoSIM => currentSession[sessions[t]] = t

\* A SIM that serves a session can be freed: the sessions map leads from the
\* token back to the SIM, so the release of that token makes it idle (pool.go).
NoLeakedSIM ==
  \A s \in SIMs : currentSession[s] # NoSession =>
    /\ currentSession[s] \in Tokens
    /\ sessions[currentSession[s]] = s

\* Seen through CurrentSession, the pool grants exclusive, stable leases.
Lease == INSTANCE SimLease WITH holder <- currentSession
ImplementsLease == Lease!Spec

\* As long as no probe fails, a SIM serves its session from the active subset:
\* neither a rotation nor a drain takes it away meanwhile (rotation.go).
BusySIMIsActive ==
  outages = 0 => \A s \in SIMs : currentSession[s] # NoSession => state[s] = "active"

\* As long as no probe fails, the active subset never falls below the target,
\* although the SIMs a rotation promotes and the ones its drain retires later
\* are chosen without looking at what is active when the drain ends
\* (rotation.go).
ActiveFloor ==
  started /\ outages = 0 =>
             \/ Cardinality(Active) >= TargetCount
             \/ Active = SIMs

\* A rotation leaves the target number of SIMs active whenever enough SIMs are
\* not unavailable (rotation.go, the second promotion loop).
RotationRefills ==
  [][Rotate => \/ Cardinality(Active') >= TargetCount
               \/ Dormant' = {}]_vars

\* A SIM that failed its probes is retried until it answers: when probes stop
\* failing it does not stay unavailable (liveness.go checkDormant).
UnavailableRecovers ==
  \A s \in SIMs : (state[s] = "unavailable") ~> (state[s] # "unavailable")

\* When every active SIM is busy and some SIM is dormant, rotation makes a SIM
\* available without any session having to end, unless a probe fails, which
\* can make a busy SIM dormant (rotation.go).
ExhaustionEnds ==
  (started /\ Available = {} /\ Dormant # {}) ~> (Available # {} \/ outages > 0)

-----------------------------------------------------------------------------
(***************************************************************************)
(* A statement of the comments that the code breaks.                       *)
(***************************************************************************)

\* sim.go: an unavailable SIM has failed liveness checks and is "excluded from
\* both active subset and rotation candidates" (until a probe succeeds, which
\* resets FailCount).
FailedSIMExcluded ==
  \A s \in SIMs : failCount[s] > 0 => state[s] = "unavailable"

=============================================================================
