------------------------------ MODULE Backoff ------------------------------
(***************************************************************************)
(* backoffDuration of camo-simpool/liveness.go: the loop that doubles the  *)
(* retry interval with every failure, up to a maximum.                     *)
(***************************************************************************)
EXTENDS Naturals

CONSTANTS
  DormantInterval,  \* dormantLivenessInterval (1 hour)
  MaxBackoff        \* maxBackoffInterval (4 hours)

ASSUME CapAssumption ==
  /\ DormantInterval \in Nat /\ MaxBackoff \in Nat
  /\ DormantInterval <= MaxBackoff

\* One round of the loop. Once d is above the maximum, the maximum is returned;
\* a round would leave it there.
Round(d) == IF 2 * d > MaxBackoff THEN MaxBackoff ELSE 2 * d

\* d after r rounds.
AfterRounds[r \in Nat] == IF r = 0 THEN DormantInterval ELSE Round(AfterRounds[r - 1])

\* Mutation: the loop starts at 1, one round short.
BackoffFromOne(failCount) == AfterRounds[IF failCount = 0 THEN 0 ELSE failCount - 1]

\* FailCount is never negative.
backoffDuration(failCount) == AfterRounds[failCount]
=============================================================================
