----------------------------- MODULE ApnAdapter -----------------------------
(***************************************************************************)
(* camo-apncore with the mock adapter: the sessions of the devices         *)
(* (mock/mock.go) and the way a session event takes to the log of the API  *)
(* server: from the goroutine that changed the session into the adapter's  *)
(* channel, through the wrapper's pump goroutine into a second channel     *)
(* (main.go), and out of it in forwardEvents (api.go), which writes a line *)
(* and does nothing else with it. The routes, a map that only set_route    *)
(* and clear_route touch, are left out, and so is list_sessions, which     *)
(* reads the sessions under the lock and changes nothing.                  *)
(*                                                                         *)
(* A session changes under the adapter's lock and the event is sent after  *)
(* the unlock, so the two are separate steps. Any number of goroutines     *)
(* may drive a device. One of them is in at most one call at a time, and   *)
(* its call returns only when its send is through.                         *)
(***************************************************************************)
EXTENDS Naturals, Sequences

CONSTANTS
  Devices,    \* IMSIs
  Callers,    \* the goroutines that call SimulateConnect and SimulateDisconnect
  Drives,     \* for each of them, the devices it calls them for
  Capacity,   \* capacity of each channel (64)
  Wrap,       \* number of values of teidSeq (2^32)
  NoSession   \* no entry in sessions

TEIDs == 0 .. Wrap - 1

ASSUME AdapterAssumption ==
  /\ Drives \in [Callers -> SUBSET Devices]
  /\ Capacity \in Nat \ {0}
  /\ Wrap \in Nat \ {0}
  /\ NoSession \notin TEIDs

VARIABLES
  sessions,   \* Adapter.sessions: the TEID of each device's session
  teidSeq,    \* Adapter.teidSeq
  sending,    \* for each caller, the event it is sending, if any
  events,     \* Adapter.events
  held,       \* the event the pump has received and not yet sent on, if any
  out,        \* the wrapper's channel
  logged      \* what the last log line about each device says of its session

vars == <<sessions, teidSeq, sending, events, held, out, logged>>

\* A SessionEvent, and the goroutine that sends it, which the code does not keep.
Event == [type : {"session_created", "session_terminated"},
          imsi : Devices, teid : TEIDs, by : Callers]

\* What an event tells about its device.
Told(e) == IF e.type = "session_created" THEN e.teid ELSE NoSession

Init ==
  /\ sessions = [d \in Devices |-> NoSession]
  /\ teidSeq  = 0
  /\ sending  = [c \in Callers |-> <<>>]
  /\ events   = <<>>
  /\ held     = <<>>
  /\ out      = <<>>
  /\ logged   = [d \in Devices |-> NoSession]

\* Mutation: the counter is wider than 32 bits.
ConnectWithoutWrap(c, d) ==
  LET teid == teidSeq + 1
  IN  /\ sending[c] = <<>>
      /\ teidSeq'  = teid
      /\ sessions' = [sessions EXCEPT ![d] = teid]
      /\ sending'  = [sending EXCEPT ![c] =
             <<[type |-> "session_created", imsi |-> d, teid |-> teid, by |-> c]>>]
      /\ UNCHANGED <<events, held, out, logged>>

SimulateConnect(c, d) ==
  LET teid == (teidSeq + 1) % Wrap
  IN  /\ sending[c] = <<>>
      /\ teidSeq'  = teid
      /\ sessions' = [sessions EXCEPT ![d] = teid]
      /\ sending'  = [sending EXCEPT ![c] =
             <<[type |-> "session_created", imsi |-> d, teid |-> teid, by |-> c]>>]
      /\ UNCHANGED <<events, held, out, logged>>

SimulateDisconnect(c, d) ==
  /\ sending[c] = <<>> /\ sessions[d] # NoSession
  /\ sessions' = [sessions EXCEPT ![d] = NoSession]
  /\ sending'  = [sending EXCEPT ![c] =
         <<[type |-> "session_terminated", imsi |-> d, teid |-> sessions[d], by |-> c]>>]
  /\ UNCHANGED <<teidSeq, events, held, out, logged>>

\* Mutation: a send into a full channel drops the event instead of waiting.
SendOrDrop(c) ==
  /\ sending[c] # <<>>
  /\ events'  = IF Len(events) < Capacity THEN events \o sending[c] ELSE events
  /\ sending' = [sending EXCEPT ![c] = <<>>]
  /\ UNCHANGED <<sessions, teidSeq, held, out, logged>>

\* a.events <- SessionEvent{...}, the last step of both calls.
Send(c) ==
  /\ sending[c] # <<>> /\ Len(events) < Capacity
  /\ events'  = events \o sending[c]
  /\ sending' = [sending EXCEPT ![c] = <<>>]
  /\ UNCHANGED <<sessions, teidSeq, held, out, logged>>

\* Mutation: the pump receives again before it has sent (a buffer of one).
PumpOverwrites ==
  /\ events # <<>>
  /\ held'   = <<Head(events)>>
  /\ events' = Tail(events)
  /\ UNCHANGED <<sessions, teidSeq, sending, out, logged>>

\* The pump goroutine of SessionEvents: receive, then send.
PumpReceive ==
  /\ held = <<>> /\ events # <<>>
  /\ held'   = <<Head(events)>>
  /\ events' = Tail(events)
  /\ UNCHANGED <<sessions, teidSeq, sending, out, logged>>

PumpSend ==
  /\ held # <<>> /\ Len(out) < Capacity
  /\ out'  = out \o held
  /\ held' = <<>>
  /\ UNCHANGED <<sessions, teidSeq, sending, events, logged>>

\* Mutation: the loop ends with the first termination.
ForwardUntilTerminated ==
  /\ out # <<>> /\ Head(out).type = "session_created"
  /\ logged' = [logged EXCEPT ![Head(out).imsi] = Told(Head(out))]
  /\ out'    = Tail(out)
  /\ UNCHANGED <<sessions, teidSeq, sending, events, held>>

\* One round of the loop in forwardEvents. The line it logs names the device and
\* the session; the model keeps the last line about each device.
ForwardEvent ==
  /\ out # <<>>
  /\ logged' = [logged EXCEPT ![Head(out).imsi] = Told(Head(out))]
  /\ out'    = Tail(out)
  /\ UNCHANGED <<sessions, teidSeq, sending, events, held>>

Next ==
  \/ \E c \in Callers : Send(c)
  \/ \E c \in Callers : \E d \in Drives[c] : SimulateConnect(c, d)
  \/ \E c \in Callers : \E d \in Drives[c] : SimulateDisconnect(c, d)
  \/ PumpReceive \/ PumpSend \/ ForwardEvent

Spec == Init /\ [][Next]_vars

\* The goroutines of the server go on, and a channel serves the goroutines that
\* wait to send in turn: one whose event finds room again and again gets through.
Fairness ==
  /\ \A c \in Callers : SF_vars(Send(c))
  /\ WF_vars(PumpReceive)
  /\ WF_vars(PumpSend)
  /\ WF_vars(ForwardEvent)

FairSpec == Spec /\ Fairness

-----------------------------------------------------------------------------
(***************************************************************************)
(* Properties.                                                             *)
(***************************************************************************)

\* Types; neither channel is filled above its capacity, and an event being sent
\* is its sender's and about a device that the sender drives.
TypeOK ==
  /\ sessions \in [Devices -> TEIDs \cup {NoSession}]
  /\ teidSeq \in TEIDs
  /\ sending \in [Callers -> {<<>>} \cup {<<e>> : e \in Event}]
  /\ \A c \in Callers : sending[c] # <<>> =>
       sending[c][1].by = c /\ sending[c][1].imsi \in Drives[c]
  /\ events \in Seq(Event) /\ Len(events) <= Capacity
  /\ held \in Seq(Event) /\ Len(held) <= 1
  /\ out \in Seq(Event) /\ Len(out) <= Capacity
  /\ logged \in [Devices -> TEIDs \cup {NoSession}]

\* c drives device d and no other goroutine does.
DrivesAlone(c, d) == d \in Drives[c] /\ \A b \in Callers \ {c} : d \notin Drives[b]

\* The events on their way, the next to be forwarded first.
Pipe == out \o held \o events

\* The i-th of them is the last event of device d.
IsLatest(i, d) ==
  /\ Pipe[i].imsi = d
  /\ \A j \in i + 1 .. Len(Pipe) : Pipe[j].imsi # d

\* Goroutine c is sending an event of device d.
IsSending(c, d) == sending[c] # <<>> /\ sending[c][1].imsi = d

\* The event that c is sending, else the last event in the channels, else the
\* last log line tells the session that the adapter has for device d.
Accounted(c, d) ==
  IF IsSending(c, d) THEN Told(sending[c][1]) = sessions[d]
  ELSE IF \E i \in 1 .. Len(Pipe) : Pipe[i].imsi = d
  THEN \E i \in 1 .. Len(Pipe) : IsLatest(i, d) /\ Told(Pipe[i]) = sessions[d]
  ELSE logged[d] = sessions[d]

\* Whatever is still on its way will leave the log with the truth about every
\* device that one goroutine drives alone, although sessions change under a lock
\* and are reported after it, and a reconnect replaces a session without an event
\* for its end. Of a device that two goroutines drive it need not: the event of
\* the earlier change may be sent last (mock.go SimulateConnect,
\* SimulateDisconnect, main.go SessionEvents).
LogAccountedFor ==
  \A c \in Callers, d \in Devices : DrivesAlone(c, d) => Accounted(c, d)

\* The end of a session is logged unless the device connects again, even when
\* both channels are full and other goroutines keep sending, for a device that
\* one goroutine drives alone (api.go forwardEvents).
TerminationLogged ==
  \A c \in Callers, d \in Devices : DrivesAlone(c, d) =>
    ((sessions[d] = NoSession) ~> (logged[d] = NoSession \/ sessions[d] # NoSession))

-----------------------------------------------------------------------------
(***************************************************************************)
(* The adapter implements SessionFeed: the changes of a goroutine that are *)
(* not yet logged are its events in the second channel, the pump, the      *)
(* first channel and its own send.                                         *)
(***************************************************************************)

\* The change that an event reports.
Reported(e) == [imsi |-> e.imsi, session |-> Told(e)]

\* The changes that the events of goroutine c in q report, in their order.
Changes(q, c) ==
  LET upTo[i \in 0 .. Len(q)] ==
        IF i = 0 THEN <<>>
        ELSE IF q[i].by = c THEN Append(upTo[i - 1], Reported(q[i])) ELSE upTo[i - 1]
  IN  upTo[Len(q)]

Unreported(c) == Changes(Pipe \o sending[c], c)

Feed == INSTANCE SessionFeed WITH feed <- [c \in Callers |-> Unreported(c)]

\* Two channels, a pump and several senders behave like one queue per goroutine,
\* whichever devices the goroutines share: every change is logged once, those of
\* a goroutine in the order in which it made them, and no goroutine starves
\* (mock.go, main.go SessionEvents, api.go forwardEvents).
ImplementsFeed == Feed!Spec
=============================================================================
