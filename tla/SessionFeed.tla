---------------------------- MODULE SessionFeed ----------------------------
(***************************************************************************)
(* What camo-apncore promises about the log of its devices' sessions:      *)
(* every change of a session is logged once, the changes that one          *)
(* goroutine made in the order in which it made them, and those of one     *)
(* goroutine never wait for ever on another. Nothing is said about the     *)
(* order of the changes of different goroutines, even of one device.       *)
(***************************************************************************)
EXTENDS Sequences

CONSTANTS Devices, Callers, Drives, TEIDs, NoSession

VARIABLES
  sessions,   \* the session of each device
  feed,       \* for each goroutine, its changes that are not yet logged
  logged      \* the session of each device as last logged

vars == <<sessions, feed, logged>>

Init ==
  /\ sessions = [d \in Devices |-> NoSession]
  /\ feed     = [c \in Callers |-> <<>>]
  /\ logged   = [d \in Devices |-> NoSession]

Change(c, d, s) ==
  /\ sessions' = [sessions EXCEPT ![d] = s]
  /\ feed'     = [feed EXCEPT ![c] = Append(@, [imsi |-> d, session |-> s])]
  /\ UNCHANGED logged

Report(c) ==
  /\ UNCHANGED sessions
  /\ feed[c] # <<>>
  /\ LET r == Head(feed[c]) IN logged' = [logged EXCEPT ![r.imsi] = r.session]
  /\ feed' = [feed EXCEPT ![c] = Tail(@)]

Next ==
  \E c \in Callers :
    \/ Report(c)
    \/ \E d \in Drives[c], s \in TEIDs \cup {NoSession} : Change(c, d, s)

\* What may be logged, without the promise that more will be.
SafeSpec == Init /\ [][Next]_vars

Spec == SafeSpec /\ \A c \in Callers : WF_vars(Report(c))
=============================================================================
