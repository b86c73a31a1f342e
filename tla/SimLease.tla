------------------------------ MODULE SimLease ------------------------------
(***************************************************************************)
(* What the SIM pool promises its callers, with everything that rotates,   *)
(* drains and probes SIMs left out: a session leases one SIM, keeps that   *)
(* SIM until it ends, and no SIM is leased to two sessions.                *)
(***************************************************************************)
CONSTANTS
  SIMs,       \* the SIM inventory, by IMSI
  Tokens,     \* session tokens
  NoSession   \* the empty token: the SIM is idle

VARIABLE
  holder      \* [SIMs -> Tokens \cup {NoSession}]: the session leasing a SIM

Init == holder = [s \in SIMs |-> NoSession]

\* Session t, which leases nothing, takes the idle SIM s.
Lease(t, s) ==
  /\ holder[s] = NoSession
  /\ \A x \in SIMs : holder[x] # t
  /\ holder' = [holder EXCEPT ![s] = t]

\* Session t ends and gives up its SIM s.
Return(t, s) ==
  /\ holder[s] = t
  /\ holder' = [holder EXCEPT ![s] = NoSession]

Next == \E t \in Tokens, s \in SIMs : Lease(t, s) \/ Return(t, s)

Spec == Init /\ [][Next]_holder
=============================================================================
