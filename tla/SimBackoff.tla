----------------------------- MODULE SimBackoff -----------------------------
(***************************************************************************)
(* The timing of camo-simpool's liveness monitor (liveness.go), for one    *)
(* SIM: when checkDormant, run by an hourly ticker, comes to probe it,     *)
(* given that it leaves an unavailable SIM alone until its backoff since   *)
(* LastHealthCheck has passed. SimPool has all SIMs and no clock; here is  *)
(* one SIM and discrete time.                                              *)
(*                                                                         *)
(* Only differences of times matter, so the variables are ages: the time   *)
(* since the last hourly tick and since LastHealthCheck. A pass takes      *)
(* time, because the monitor probes one SIM after the other: within        *)
(* PassTime of the tick the pass has come to this SIM and the probe has    *)
(* returned.                                                               *)
(***************************************************************************)
EXTENDS Backoff

CONSTANTS
  PassTime,         \* longest time from a tick to the end of this SIM's probe
  MaxFails          \* bound: FailCount

ASSUME PassAssumption ==
  /\ PassTime \in Nat /\ MaxFails \in Nat
  /\ PassTime < DormantInterval

VARIABLES
  state,      \* SIM.State
  failCount,  \* SIM.FailCount
  age,        \* time since SIM.LastHealthCheck, at most MaxBackoff
  clock,      \* time since the last hourly tick
  due,        \* the pass of that tick has not dealt with this SIM yet
  probing,    \* the state that was read before the probe under way, or "none"
  quiet       \* time since the SIM got its state or was probed in it

vars == <<state, failCount, age, clock, due, probing, quiet>>

\* The pool starts at an hourly tick; LastHealthCheck is the zero time.
Init ==
  /\ state     = "dormant"
  /\ failCount = 0
  /\ age       = MaxBackoff
  /\ clock     = 0
  /\ due       = FALSE
  /\ probing   = "none"
  /\ quiet     = 0

\* One unit of time passes. quiet is not counted for an active SIM.
Tick ==
  /\ due => clock < PassTime
  /\ age'   = IF age < MaxBackoff THEN age + 1 ELSE age
  /\ clock' = IF clock + 1 = DormantInterval THEN 0 ELSE clock + 1
  /\ due'   = (due \/ clock + 1 = DormantInterval)
  /\ quiet' = IF state = "active" THEN 0 ELSE quiet + 1
  /\ UNCHANGED <<state, failCount, probing>>

(***************************************************************************)
(* checkDormant.                                                           *)
(***************************************************************************)

\* Mutation: LastHealthCheck is the time of the last visit.
SkipTouchesHealthCheck ==
  /\ due /\ probing = "none"
  /\ state = "active" \/ (state = "unavailable" /\ age < backoffDuration(failCount))
  /\ due' = FALSE
  /\ age' = 0
  /\ UNCHANGED <<state, failCount, clock, probing, quiet>>

\* The pass goes on without a probe.
VisitSkip ==
  /\ due /\ probing = "none"
  /\ state = "active" \/ (state = "unavailable" /\ age < backoffDuration(failCount))
  /\ due' = FALSE
  /\ UNCHANGED <<state, failCount, age, clock, probing, quiet>>

VisitProbe ==
  /\ due /\ probing = "none"
  /\ state = "dormant" \/ (state = "unavailable" /\ age >= backoffDuration(failCount))
  /\ probing' = state
  /\ UNCHANGED <<state, failCount, age, clock, due, quiet>>

(***************************************************************************)
(* checkActive, between the passes of checkDormant.                        *)
(***************************************************************************)
VisitActive ==
  /\ state = "active" /\ probing = "none"
  /\ probing' = "active"
  /\ UNCHANGED <<state, failCount, age, clock, due, quiet>>

(***************************************************************************)
(* Check returns. A probe of checkDormant ends the SIM's turn in the pass. *)
(***************************************************************************)
EndTurn == due' = (due /\ probing = "active")

\* A retry that fails moves LastHealthCheck, a first failure does not.
ProbeFails ==
  /\ probing # "none" /\ failCount < MaxFails
  /\ state'     = "unavailable"
  /\ failCount' = failCount + 1
  /\ age'       = IF probing = "unavailable" THEN 0 ELSE age
  /\ quiet'     = 0
  /\ probing'   = "none"
  /\ EndTurn
  /\ UNCHANGED clock

\* A retry that succeeds makes the SIM dormant and leaves LastHealthCheck alone.
ProbeSucceeds ==
  /\ probing # "none"
  /\ state'     = IF probing = "unavailable" THEN "dormant" ELSE state
  /\ failCount' = IF probing = "unavailable" THEN 0 ELSE failCount
  /\ age'       = IF probing = "unavailable" THEN age ELSE 0
  /\ quiet'     = 0
  /\ probing'   = "none"
  /\ EndTurn
  /\ UNCHANGED clock

(***************************************************************************)
(* The rotator: a promotion, and a drain, which also makes an unavailable  *)
(* SIM dormant.                                                            *)
(***************************************************************************)
Promote ==
  /\ state = "dormant"
  /\ state' = "active"
  /\ quiet' = 0
  /\ UNCHANGED <<failCount, age, clock, due, probing>>

Retire ==
  /\ state # "dormant"
  /\ state' = "dormant"
  /\ quiet' = 0
  /\ UNCHANGED <<failCount, age, clock, due, probing>>

Next ==
  \/ Tick \/ VisitSkip \/ VisitProbe \/ VisitActive
  \/ ProbeFails \/ ProbeSucceeds \/ Promote \/ Retire

Spec == Init /\ [][Next]_vars

-----------------------------------------------------------------------------

\* Types; FailCount stays within the bound of the model.
TypeOK ==
  /\ state \in {"active", "dormant", "unavailable"}
  /\ failCount \in 0 .. MaxFails
  /\ age \in 0 .. MaxBackoff
  /\ clock \in 0 .. DormantInterval - 1
  /\ due \in BOOLEAN
  /\ probing \in {"none", "active", "dormant", "unavailable"}
  /\ quiet \in Nat

\* However ticks, long passes, failures, recoveries and rotations fall, a dormant
\* SIM is probed within an hour and a pass, and an unavailable one within its
\* backoff, an hour and a pass: the wait is counted from a LastHealthCheck that
\* some probes move and others do not, and only at ticks (liveness.go
\* checkDormant).
ProbedInTime ==
  /\ state = "dormant" => quiet <= DormantInterval + PassTime
  /\ state = "unavailable" => quiet <= backoffDuration(failCount) + DormantInterval + PassTime

\* backoffDuration is the interval times two to the number of failures, up to
\* the maximum, whatever the failures so far (liveness.go backoffDuration).
BackoffDoublesUpToMax ==
  \A n \in 0 .. failCount :
    LET doubled == DormantInterval * 2 ^ n
    IN  backoffDuration(n) = IF doubled < MaxBackoff THEN doubled ELSE MaxBackoff
=============================================================================
