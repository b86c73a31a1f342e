-------------------------- MODULE ApnAdapterProofs --------------------------
(***************************************************************************)
(* Proofs about ApnAdapter, for any devices, any goroutines that drive     *)
(* them, any capacity of the channels and any width of the TEID counter:   *)
(* the types, that what is on its way accounts for the difference between  *)
(* the log and the sessions of the devices that one goroutine drives       *)
(* alone, and that the adapter implements SessionFeed but for its          *)
(* fairness.                                                               *)
(*                                                                         *)
(* The second is inductive together with the first. The third maps the     *)
(* queue of a goroutine to a scan of what is on its way. The scan is a     *)
(* recursive function, so that the lemmas about it (what it yields when an *)
(* event is appended, when one is taken from the front) are proved with a  *)
(* least position at which they would fail. A pump step then leaves the    *)
(* queue as it is, a send moves the event of one goroutine past those of   *)
(* others, and forwarding an event takes it off the queue of its sender.   *)
(***************************************************************************)
EXTENDS ApnAdapter, WellFoundedInduction, TLAPS

IInv == TypeOK /\ LogAccountedFor

-----------------------------------------------------------------------------

\* What concatenation does to length and elements.
LEMMA ConcatElements ==
  ASSUME NEW S, NEW s \in Seq(S), NEW t \in Seq(S)
  PROVE  /\ s \o t \in Seq(S)
         /\ Len(s \o t) = Len(s) + Len(t)
         /\ \A i \in 1 .. Len(s) + Len(t) :
              (s \o t)[i] = IF i <= Len(s) THEN s[i] ELSE t[i - Len(s)]
  OBVIOUS

\* Two sequences with the same elements are the same.
LEMMA SeqEqual ==
  ASSUME NEW S, NEW s \in Seq(S), NEW t \in Seq(S), Len(s) = Len(t),
         \A i \in 1 .. Len(s) : s[i] = t[i]
  PROVE  s = t
  OBVIOUS

\* Concatenation is associative.
LEMMA ConcatAssociative ==
  ASSUME NEW S, NEW s \in Seq(S), NEW t \in Seq(S), NEW u \in Seq(S)
  PROVE  (s \o t) \o u = s \o (t \o u)
<1>1. s \o t \in Seq(S) /\ t \o u \in Seq(S)
  BY ConcatElements
<1>2. (s \o t) \o u \in Seq(S) /\ s \o (t \o u) \in Seq(S)
  BY <1>1, ConcatElements
<1> QED
  BY SMTT(30)

\* The head and the tail of a sequence make up the sequence.
LEMMA HeadTail ==
  ASSUME NEW S, NEW s \in Seq(S), s # <<>>
  PROVE  /\ Head(s) \in S /\ Tail(s) \in Seq(S)
         /\ Len(Tail(s)) = Len(s) - 1
         /\ \A i \in 1 .. Len(s) - 1 : Tail(s)[i] = s[i + 1]
         /\ <<Head(s)>> \o Tail(s) = s
  OBVIOUS

\* The pipe is a sequence of events.
LEMMA PipeType ==
  ASSUME TypeOK
  PROVE  /\ out \in Seq(Event) /\ held \in Seq(Event) /\ events \in Seq(Event)
         /\ out \o held \in Seq(Event)
         /\ Pipe \in Seq(Event)
<1>1. out \in Seq(Event) /\ held \in Seq(Event) /\ events \in Seq(Event)
  BY DEF TypeOK
<1>2. out \o held \in Seq(Event)
  BY <1>1, ConcatElements
<1> QED
  BY <1>1, <1>2, ConcatElements DEF Pipe

\* The pump moves events without changing what is in the pipe or its order.
LEMMA PumpKeepsPipe ==
  ASSUME TypeOK, PumpReceive \/ PumpSend
  PROVE  Pipe' = Pipe
<1>1. out \in Seq(Event) /\ held \in Seq(Event) /\ events \in Seq(Event)
  BY PipeType
<1>2. CASE PumpReceive
  <2>1. held = <<>> /\ events # <<>> /\ out' = out
          /\ held' = <<Head(events)>> /\ events' = Tail(events)
    BY <1>2 DEF PumpReceive
  <2>2. /\ Head(events) \in Event /\ Tail(events) \in Seq(Event)
        /\ <<Head(events)>> \o Tail(events) = events
    BY <1>1, <2>1, HeadTail
  <2>3. <<Head(events)>> \in Seq(Event)
    BY <2>2
  <2>4. (out \o <<Head(events)>>) \o Tail(events) = out \o (<<Head(events)>> \o Tail(events))
    <3> DEFINE h == <<Head(events)>>
               t == Tail(events)
    <3>1. out \in Seq(Event) /\ h \in Seq(Event) /\ t \in Seq(Event)
      BY <1>1, <2>2, <2>3
    <3> HIDE DEF h, t
    <3>2. (out \o h) \o t = out \o (h \o t)
      BY <3>1, ConcatAssociative
    <3> QED
      BY <3>2 DEF h, t
  <2>5. out \o <<>> = out
    BY <1>1
  <2> QED
    BY <2>1, <2>2, <2>4, <2>5, Zenon DEF Pipe
<1>3. CASE PumpSend
  <2>1. out' = out \o held /\ held' = <<>> /\ events' = events
    BY <1>3 DEF PumpSend
  <2>2. (out \o held) \o <<>> = out \o held
    BY <1>1, PipeType
  <2> QED
    BY <2>1, <2>2 DEF Pipe
<1> QED
  BY <1>2, <1>3

\* A send puts the event of the sender at the end of the pipe.
LEMMA SendExtendsPipe ==
  ASSUME TypeOK, NEW c \in Callers, Send(c)
  PROVE  LET e == sending[c][1]
         IN  /\ e \in Event /\ e.by = c /\ e.imsi \in Drives[c]
             /\ Pipe' \in Seq(Event) /\ Len(Pipe') = Len(Pipe) + 1
             /\ \A i \in 1 .. Len(Pipe) : Pipe'[i] = Pipe[i]
             /\ Pipe'[Len(Pipe) + 1] = e
<1> DEFINE e == sending[c][1]
<1>1. e \in Event /\ sending[c] = <<e>> /\ e.by = c /\ e.imsi \in Drives[c]
  BY DEF TypeOK, Send
<1>2. events' = events \o <<e>> /\ out' = out /\ held' = held
  BY <1>1 DEF Send
<1>3. Pipe \in Seq(Event) /\ out \o held \in Seq(Event) /\ events \in Seq(Event)
  BY PipeType
<1>4. <<e>> \in Seq(Event)
  BY <1>1
<1>5. Pipe' = Pipe \o <<e>>
  BY <1>2, <1>3, <1>4, ConcatAssociative DEF Pipe
<1> HIDE DEF e
<1> QED
  BY <1>1, <1>3, <1>4, <1>5, ConcatElements DEF e

\* Forwarding takes the first event out of the pipe.
LEMMA ForwardShortensPipe ==
  ASSUME TypeOK, ForwardEvent
  PROVE  /\ Pipe # <<>> /\ Head(out) = Pipe[1] /\ Pipe[1] \in Event
         /\ Pipe' \in Seq(Event) /\ Len(Pipe') = Len(Pipe) - 1
         /\ \A i \in 1 .. Len(Pipe) - 1 : Pipe'[i] = Pipe[i + 1]
<1>1. out \in Seq(Event) /\ held \in Seq(Event) /\ events \in Seq(Event) /\ out # <<>>
  BY PipeType DEF ForwardEvent
<1>2. out' = Tail(out) /\ held' = held /\ events' = events
  BY DEF ForwardEvent
<1>3. /\ Head(out) \in Event /\ Tail(out) \in Seq(Event)
      /\ <<Head(out)>> \o Tail(out) = out
  BY <1>1, HeadTail
<1>4. <<Head(out)>> \in Seq(Event)
  BY <1>3
<1> DEFINE rest == (Tail(out) \o held) \o events
<1>5. Tail(out) \o held \in Seq(Event) /\ rest \in Seq(Event)
  BY <1>1, <1>3, ConcatElements
<1>6. Pipe = <<Head(out)>> \o rest
  <2>1. (<<Head(out)>> \o Tail(out)) \o held = <<Head(out)>> \o (Tail(out) \o held)
    BY <1>1, <1>3, <1>4, ConcatAssociative
  <2>2. (<<Head(out)>> \o (Tail(out) \o held)) \o events = <<Head(out)>> \o rest
    BY <1>1, <1>4, <1>5, ConcatAssociative
  <2> QED
    BY <1>3, <2>1, <2>2, Zenon DEF Pipe
<1>7. Pipe' = rest
  BY <1>2 DEF Pipe
<1> HIDE DEF rest
<1>8. Len(<<Head(out)>>) = 1 /\ <<Head(out)>>[1] = Head(out)
  OBVIOUS
<1>9. /\ Len(Pipe) = Len(rest) + 1 /\ Len(rest) \in Nat
      /\ Pipe[1] = Head(out)
      /\ \A i \in 1 .. Len(rest) : Pipe[i + 1] = rest[i]
  BY <1>4, <1>5, <1>6, <1>8, ConcatElements
<1> QED
  BY <1>3, <1>5, <1>7, <1>9

-----------------------------------------------------------------------------

\* The invariant holds initially.
LEMMA InitInv == Init => IInv
<1>1. SUFFICES ASSUME Init PROVE IInv
  OBVIOUS
<1>2. TypeOK
  BY <1>1, AdapterAssumption DEF Init, TypeOK, TEIDs
<1>3. Len(Pipe) = 0
  BY <1>1 DEF Init, Pipe
<1>4. /\ \A c \in Callers : sending[c] = <<>>
      /\ \A d \in Devices : logged[d] = sessions[d]
  BY <1>1 DEF Init
<1>5. ~ \E i \in 1 .. Len(Pipe) : TRUE
  BY <1>3
<1>6. LogAccountedFor
  BY <1>4, <1>5 DEF LogAccountedFor, Accounted, IsSending
<1> QED
  BY <1>2, <1>6 DEF IInv

\* Every step keeps the types.
LEMMA NextTypes == TypeOK /\ [Next]_vars => TypeOK'
<1>1. SUFFICES ASSUME TypeOK, [Next]_vars PROVE TypeOK'
  OBVIOUS
<1>2. ASSUME NEW c \in Callers, NEW d \in Drives[c], SimulateConnect(c, d) PROVE TypeOK'
  <2> DEFINE teid == (teidSeq + 1) % Wrap
             e == [type |-> "session_created", imsi |-> d, teid |-> teid, by |-> c]
  <2>1. teid \in TEIDs /\ d \in Devices
    BY <1>1, AdapterAssumption DEF TypeOK, TEIDs
  <2>2. e \in Event /\ e.imsi = d /\ e.by = c
    BY <2>1 DEF Event
  <2> HIDE DEF teid
  <2>3. /\ teidSeq' = teid /\ sessions' = [sessions EXCEPT ![d] = teid]
        /\ sending' = [sending EXCEPT ![c] = <<e>>]
        /\ UNCHANGED <<events, held, out, logged>>
    BY <1>2 DEF SimulateConnect, teid
  <2> HIDE DEF e
  <2> QED
    BY <1>1, <2>1, <2>2, <2>3 DEF TypeOK
<1>3. ASSUME NEW c \in Callers, NEW d \in Drives[c], SimulateDisconnect(c, d) PROVE TypeOK'
  <2> DEFINE e == [type |-> "session_terminated", imsi |-> d, teid |-> sessions[d], by |-> c]
  <2>1. d \in Devices
    BY AdapterAssumption
  <2>2. e \in Event /\ e.imsi = d /\ e.by = c
    BY <1>1, <1>3, <2>1 DEF TypeOK, SimulateDisconnect, Event
  <2>3. /\ sessions' = [sessions EXCEPT ![d] = NoSession]
        /\ sending' = [sending EXCEPT ![c] = <<e>>]
        /\ UNCHANGED <<teidSeq, events, held, out, logged>>
    BY <1>3 DEF SimulateDisconnect
  <2> HIDE DEF e
  <2> QED
    BY <1>1, <2>1, <2>2, <2>3 DEF TypeOK
<1>4. ASSUME NEW c \in Callers, Send(c) PROVE TypeOK'
  <2> DEFINE e == sending[c][1]
  <2>1. e \in Event /\ sending[c] = <<e>>
    BY <1>1, <1>4 DEF TypeOK, Send
  <2> HIDE DEF e
  <2>2. events' \in Seq(Event) /\ Len(events') = Len(events) + 1
    BY <1>1, <1>4, <2>1 DEF TypeOK, Send
  <2> QED
    BY <1>1, <1>4, <2>2, AdapterAssumption DEF TypeOK, Send
<1>5. ASSUME PumpReceive PROVE TypeOK'
  <2>1. /\ held' = <<Head(events)>> /\ events' = Tail(events) /\ events # <<>>
        /\ UNCHANGED <<sessions, teidSeq, sending, out, logged>>
    BY <1>5 DEF PumpReceive
  <2>2. Head(events) \in Event /\ Tail(events) \in Seq(Event) /\ Len(Tail(events)) = Len(events) - 1
    BY <1>1, <2>1, HeadTail DEF TypeOK
  <2>3. held' \in Seq(Event) /\ Len(held') <= 1
    BY <2>1, <2>2
  <2>4. events' \in Seq(Event) /\ Len(events') <= Capacity
    BY <1>1, <2>1, <2>2, AdapterAssumption DEF TypeOK
  <2> QED
    BY <1>1, <2>1, <2>3, <2>4 DEF TypeOK
<1>6. ASSUME PumpSend PROVE TypeOK'
  BY <1>1, <1>6, ConcatElements, AdapterAssumption DEF TypeOK, PumpSend
<1>7. ASSUME ForwardEvent PROVE TypeOK'
  <2>1. Head(out) \in Event /\ Tail(out) \in Seq(Event) /\ Len(Tail(out)) = Len(out) - 1
    BY <1>1, <1>7, HeadTail DEF TypeOK, ForwardEvent
  <2>2. Told(Head(out)) \in TEIDs \cup {NoSession}
    BY <2>1 DEF Told, Event
  <2>3. logged' \in [Devices -> TEIDs \cup {NoSession}]
    BY <1>1, <1>7, <2>2 DEF TypeOK, ForwardEvent
  <2>4. out' \in Seq(Event) /\ Len(out') <= Capacity
    BY <1>1, <1>7, <2>1, AdapterAssumption DEF TypeOK, ForwardEvent
  <2> QED
    BY <1>1, <1>7, <2>3, <2>4 DEF TypeOK, ForwardEvent
<1>8. ASSUME UNCHANGED vars PROVE TypeOK'
  BY <1>1, <1>8 DEF TypeOK, vars
<1> QED
  BY <1>1, <1>2, <1>3, <1>4, <1>5, <1>6, <1>7, <1>8 DEF Next

\* Every step keeps the account of every device that one goroutine drives alone.
LEMMA NextAccounted == IInv /\ [Next]_vars => LogAccountedFor'
<1>1. SUFFICES ASSUME IInv, [Next]_vars, NEW g \in Callers, NEW d \in Devices,
                      DrivesAlone(g, d)
               PROVE  Accounted(g, d)'
  BY DEF LogAccountedFor, DrivesAlone
<1>2. TypeOK /\ Accounted(g, d) /\ Pipe \in Seq(Event) /\ Len(Pipe) \in Nat
  BY <1>1, PipeType DEF IInv, LogAccountedFor
<1>3. ASSUME NEW c \in Callers, NEW b \in Drives[c], SimulateConnect(c, b) PROVE Accounted(g, d)'
  <2>1. Pipe' = Pipe /\ logged' = logged /\ b \in Devices /\ sending[c] = <<>>
    BY <1>3, AdapterAssumption DEF SimulateConnect, Pipe
  <2> DEFINE e == [type |-> "session_created", imsi |-> b, teid |-> (teidSeq + 1) % Wrap, by |-> c]
  <2>2. /\ sending' = [sending EXCEPT ![c] = <<e>>] /\ sessions' = [sessions EXCEPT ![b] = e.teid]
        /\ e.imsi = b /\ Told(e) = e.teid
    BY <1>3 DEF SimulateConnect, Told
  <2> HIDE DEF e
  <2>3. CASE b = d
    <3>1. c = g
      BY <1>1, <2>3 DEF DrivesAlone
    <3>2. sending'[g] = <<e>> /\ sessions'[d] = e.teid
      BY <1>2, <2>2, <2>3, <3>1 DEF TypeOK
    <3> QED
      BY <2>2, <2>3, <3>2 DEF Accounted, IsSending
  <2>4. CASE b # d
    <3>1. (IsSending(g, d)' <=> IsSending(g, d)) /\ sessions'[d] = sessions[d]
      BY <1>2, <2>1, <2>2, <2>4 DEF TypeOK, IsSending
    <3>2. IsSending(g, d) => sending'[g] = sending[g]
      BY <1>2, <2>1, <2>2 DEF TypeOK, IsSending
    <3> QED
      BY <1>2, <2>1, <3>1, <3>2 DEF Accounted, IsLatest
  <2> QED
    BY <2>3, <2>4
<1>4. ASSUME NEW c \in Callers, NEW b \in Drives[c], SimulateDisconnect(c, b) PROVE Accounted(g, d)'
  <2>1. Pipe' = Pipe /\ logged' = logged /\ b \in Devices /\ sending[c] = <<>>
    BY <1>4, AdapterAssumption DEF SimulateDisconnect, Pipe
  <2> DEFINE e == [type |-> "session_terminated", imsi |-> b, teid |-> sessions[b], by |-> c]
  <2>2. /\ sending' = [sending EXCEPT ![c] = <<e>>] /\ sessions' = [sessions EXCEPT ![b] = NoSession]
        /\ e.imsi = b /\ Told(e) = NoSession
    BY <1>4 DEF SimulateDisconnect, Told
  <2> HIDE DEF e
  <2>3. CASE b = d
    <3>1. c = g
      BY <1>1, <2>3 DEF DrivesAlone
    <3>2. sending'[g] = <<e>> /\ sessions'[d] = NoSession
      BY <1>2, <2>2, <2>3, <3>1 DEF TypeOK
    <3> QED
      BY <2>2, <2>3, <3>2 DEF Accounted, IsSending
  <2>4. CASE b # d
    <3>1. (IsSending(g, d)' <=> IsSending(g, d)) /\ sessions'[d] = sessions[d]
      BY <1>2, <2>1, <2>2, <2>4 DEF TypeOK, IsSending
    <3>2. IsSending(g, d) => sending'[g] = sending[g]
      BY <1>2, <2>1, <2>2 DEF TypeOK, IsSending
    <3> QED
      BY <1>2, <2>1, <3>1, <3>2 DEF Accounted, IsLatest
  <2> QED
    BY <2>3, <2>4
<1>5. ASSUME NEW c \in Callers, Send(c) PROVE Accounted(g, d)'
  <2> DEFINE e == sending[c][1]
  <2>1. /\ e \in Event /\ e.by = c /\ e.imsi \in Drives[c]
        /\ Pipe' \in Seq(Event) /\ Len(Pipe') = Len(Pipe) + 1
        /\ \A i \in 1 .. Len(Pipe) : Pipe'[i] = Pipe[i]
        /\ Pipe'[Len(Pipe) + 1] = e
    BY <1>2, <1>5, SendExtendsPipe
  <2>2. logged' = logged /\ sessions' = sessions /\ sending[c] # <<>>
    BY <1>5 DEF Send
  <2>3. sending' = [sending EXCEPT ![c] = <<>>]
    BY <1>5 DEF Send
  <2>4. CASE e.imsi = d
    <3>1. c = g
      BY <1>1, <2>1, <2>4 DEF DrivesAlone
    <3>2. sending'[g] = <<>> /\ Told(e) = sessions[d]
      BY <1>2, <2>2, <2>3, <2>4, <3>1 DEF TypeOK, Accounted, IsSending
    <3> HIDE DEF e
    <3>3. PICK n \in Nat : n = Len(Pipe) + 1
      BY <1>2
    <3>4. n \in 1 .. Len(Pipe') /\ Pipe'[n] = e /\ Pipe'[n].imsi = d
      BY <1>2, <2>1, <2>4, <3>3
    <3>5. IsLatest(n, d)'
      BY <2>1, <3>3, <3>4 DEF IsLatest
    <3> QED
      BY <2>2, <3>2, <3>4, <3>5 DEF Accounted, IsSending
  <2>5. CASE e.imsi # d
    <3>1. IsSending(g, d)' <=> IsSending(g, d)
      BY <1>2, <2>2, <2>3, <2>5 DEF TypeOK, IsSending
    <3>2. IsSending(g, d) => sending'[g] = sending[g]
      BY <1>2, <2>2, <2>3, <2>5 DEF TypeOK, IsSending
    <3> HIDE DEF e
    <3>3. ASSUME NEW i \in 1 .. Len(Pipe), IsLatest(i, d) PROVE IsLatest(i, d)'
      <4>1. Pipe'[i].imsi = d
        BY <2>1, <3>3 DEF IsLatest
      <4>2. ASSUME NEW j \in i + 1 .. Len(Pipe') PROVE Pipe'[j].imsi # d
        <5>1. (j \in i + 1 .. Len(Pipe) /\ j \in 1 .. Len(Pipe)) \/ j = Len(Pipe) + 1
          BY <1>2, <2>1
        <5> QED
          BY <2>1, <2>5, <3>3, <5>1, Zenon DEF IsLatest
      <4> QED
        BY <4>1, <4>2 DEF IsLatest
    <3>4. (\E i \in 1 .. Len(Pipe') : Pipe'[i].imsi = d) =>
            (\E i \in 1 .. Len(Pipe) : Pipe[i].imsi = d)
      BY <1>2, <2>1, <2>5
    <3> QED
      BY <1>2, <2>1, <2>2, <3>1, <3>2, <3>3, <3>4 DEF Accounted
  <2> QED
    BY <2>4, <2>5
<1>6. ASSUME PumpReceive \/ PumpSend PROVE Accounted(g, d)'
  <2>1. Pipe' = Pipe
    BY <1>2, <1>6, PumpKeepsPipe
  <2>2. logged' = logged /\ sessions' = sessions /\ sending' = sending
    BY <1>6 DEF PumpReceive, PumpSend
  <2> QED
    BY <1>2, <2>1, <2>2 DEF Accounted, IsLatest, IsSending
<1>7. ASSUME ForwardEvent PROVE Accounted(g, d)'
  <2>1. /\ Pipe # <<>> /\ Head(out) = Pipe[1] /\ Pipe[1] \in Event
        /\ Pipe' \in Seq(Event) /\ Len(Pipe') = Len(Pipe) - 1
        /\ \A i \in 1 .. Len(Pipe) - 1 : Pipe'[i] = Pipe[i + 1]
    BY <1>2, <1>7, ForwardShortensPipe
  <2>2. sessions' = sessions /\ (IsSending(g, d)' <=> IsSending(g, d)) /\ sending' = sending
    BY <1>7 DEF ForwardEvent, IsSending
  <2>3. /\ Pipe[1].imsi = d => logged'[d] = Told(Pipe[1])
        /\ Pipe[1].imsi # d => logged'[d] = logged[d]
    BY <1>2, <1>7, <2>1 DEF TypeOK, ForwardEvent, Event
  <2>4. Len(Pipe) > 0
    BY <1>2, <2>1
  <2>5. CASE \E i \in 1 .. Len(Pipe) - 1 : Pipe'[i].imsi = d
    <3>1. SUFFICES ASSUME ~IsSending(g, d)
                   PROVE  \E i \in 1 .. Len(Pipe') : IsLatest(i, d)' /\ Told(Pipe'[i]) = sessions[d]
      BY <1>2, <2>1, <2>2, <2>5 DEF Accounted
    <3>2. PICK k \in 1 .. Len(Pipe) - 1 : Pipe'[k].imsi = d
      BY <2>5
    <3>3. Len(Pipe) \in Nat /\ k + 1 \in 1 .. Len(Pipe)
      BY <1>2, <3>2
    <3>4. Pipe[k + 1].imsi = d
      BY <2>1, <3>2, Zenon
    <3>5. PICK i \in 1 .. Len(Pipe) : IsLatest(i, d) /\ Told(Pipe[i]) = sessions[d]
      BY <1>2, <3>1, <3>3, <3>4, Zenon DEF Accounted
    <3>6. i > 1
      <4>1. ~(k + 1 \in i + 1 .. Len(Pipe))
        BY <3>5, <3>4, Zenon DEF IsLatest
      <4> QED
        BY <3>3, <4>1
    <3>7. IsLatest(i - 1, d)' /\ Told(Pipe'[i - 1]) = sessions[d]
      <4>1. i - 1 \in 1 .. Len(Pipe) - 1 /\ Pipe'[i - 1] = Pipe[i]
        BY <1>2, <2>1, <3>5, <3>6
      <4>2. ASSUME NEW j \in (i - 1) + 1 .. Len(Pipe') PROVE Pipe'[j].imsi # d
        <5>1. j \in 1 .. Len(Pipe) - 1 /\ j + 1 \in i + 1 .. Len(Pipe)
          BY <1>2, <2>1, <3>5, <3>6
        <5> QED
          BY <2>1, <3>5, <5>1 DEF IsLatest
      <4> QED
        BY <3>5, <4>1, <4>2 DEF IsLatest
    <3> QED
      BY <1>2, <2>1, <3>5, <3>6, <3>7
  <2>6. CASE ~ \E i \in 1 .. Len(Pipe) - 1 : Pipe'[i].imsi = d
    <3>1. \A i \in 2 .. Len(Pipe) : Pipe[i].imsi # d
      <4>1. SUFFICES ASSUME NEW i \in 2 .. Len(Pipe) PROVE Pipe[i].imsi # d
        OBVIOUS
      <4>2. i - 1 \in 1 .. Len(Pipe) - 1 /\ Pipe'[i - 1] = Pipe[(i - 1) + 1] /\ (i - 1) + 1 = i
        BY <1>2, <2>1
      <4> QED
        BY <2>6, <4>2
    <3>2. SUFFICES ASSUME ~IsSending(g, d) PROVE logged'[d] = sessions[d]
      BY <1>2, <2>1, <2>2, <2>6 DEF Accounted
    <3>3. CASE Pipe[1].imsi = d
      BY <1>2, <2>3, <2>4, <3>1, <3>2, <3>3 DEF Accounted, IsLatest, IsSending
    <3>4. CASE Pipe[1].imsi # d
      BY <1>2, <2>3, <2>4, <3>1, <3>2, <3>4 DEF Accounted
    <3> QED
      BY <3>3, <3>4
  <2> QED
    BY <2>5, <2>6
<1>8. ASSUME UNCHANGED vars PROVE Accounted(g, d)'
  BY <1>2, <1>8 DEF vars, Pipe, Accounted, IsLatest, IsSending
<1> QED
  BY <1>1, <1>3, <1>4, <1>5, <1>6, <1>7, <1>8 DEF Next

\* The types and the account of the devices hold in every reachable state.
THEOREM Invariance == Spec => []IInv
<1>1. IInv /\ [Next]_vars => IInv'
  BY NextTypes, NextAccounted DEF IInv
<1> QED
  BY <1>1, InitInv, PTL DEF Spec

\* The channels never hold more than their capacity and only events, and the
\* sessions, the counter and the log keep their types.
THEOREM TypesPreserved == Spec => []TypeOK
<1>1. IInv => TypeOK
  BY DEF IInv
<1> QED
  BY <1>1, Invariance, PTL

\* For any devices, goroutines and capacity, what is on its way to the log leads
\* to the adapter's sessions, for every device that one goroutine drives alone: no
\* event is lost, and none of such a device overtakes another.
THEOREM FeedIsComplete == Spec => []LogAccountedFor
<1>1. IInv => LogAccountedFor
  BY DEF IInv
<1> QED
  BY <1>1, Invariance, PTL

-----------------------------------------------------------------------------
(***************************************************************************)
(* The changes that a sequence of events reports, computed by a            *)
(* recursion along the sequence; the lemmas say what an event added at     *)
(* either end does to them, which is all the channels do. Each is proved   *)
(* by looking at the least index at which it would fail.                   *)
(***************************************************************************)

Reports == [imsi : Devices, session : TEIDs \cup {NoSession}]

\* What event i of q adds to the changes before it.
ScanStep(before, q, c, i) == IF q[i].by = c THEN Append(before, Reported(q[i])) ELSE before

\* f is the recursion of Changes for the first n events of q.
Scan(f, q, c, n) == f = [i \in 0 .. n |-> IF i = 0 THEN <<>> ELSE ScanStep(f[i - 1], q, c, i)]

\* A set of natural numbers has a least element.
LEMMA LeastElement ==
  ASSUME NEW T, T \subseteq Nat, T # {}
  PROVE  \E x \in T : \A y \in T : ~(y < x)
<1>1. \E x \in T : \A y \in T : ~ (<<y, x>> \in OpToRel(<, Nat))
  BY NatLessThanWellFounded, WFMin
<1> QED BY <1>1 DEF OpToRel

\* An event reports a TEID or the end of a session of a device.
LEMMA ReportedType ==
  ASSUME NEW e \in Event
  PROVE  Reported(e) \in Reports
BY DEF Event, Told, Reported, Reports

\* The recursion unfolded.
LEMMA ScanUnfold ==
  ASSUME NEW f, NEW q, NEW c, NEW n \in Nat, Scan(f, q, c, n)
  PROVE  /\ f[0] = <<>>
         /\ \A i \in 1 .. n : f[i] = ScanStep(f[i - 1], q, c, i)
<1>1. 0 \in 0 .. n /\ \A i \in 1 .. n : i \in 0 .. n /\ i # 0
  OBVIOUS
<1> QED BY <1>1 DEF Scan

\* The recursion is well defined.
LEMMA ScanExists ==
  ASSUME NEW q, NEW c, NEW n \in Nat
  PROVE  \E f : Scan(f, q, c, n)
<1> DEFINE T == {m \in Nat : ~ \E f : Scan(f, q, c, m)}
<1> SUFFICES ASSUME T # {} PROVE FALSE
  OBVIOUS
<1>1. PICK m \in T : \A k \in T : ~(k < m)
  BY LeastElement
<1>2. m \in Nat /\ ~ \E f : Scan(f, q, c, m)
  OBVIOUS
<1>3. CASE m = 0
  <2> DEFINE f == [i \in 0 .. 0 |-> <<>>]
  <2>1. Scan(f, q, c, 0)
    <3>1. \A i \in 0 .. 0 : i = 0
      OBVIOUS
    <3> QED BY <3>1 DEF Scan
  <2> QED BY <1>2, <1>3, <2>1
<1>4. CASE m # 0
  <2>1. m - 1 \in Nat /\ m - 1 < m
    BY <1>2, <1>4
  <2>2. PICK g : Scan(g, q, c, m - 1)
    BY <1>1, <2>1
  <2> DEFINE f == [i \in 0 .. m |-> IF i = m THEN ScanStep(g[m - 1], q, c, m) ELSE g[i]]
  <2>3. g[0] = <<>> /\ \A i \in 1 .. m - 1 : g[i] = ScanStep(g[i - 1], q, c, i)
    BY <2>1, <2>2, ScanUnfold
  <2>4. ASSUME NEW i \in 0 .. m
        PROVE  f[i] = IF i = 0 THEN <<>> ELSE ScanStep(f[i - 1], q, c, i)
    <3>1. CASE i = 0
      BY <1>2, <1>4, <2>3, <3>1
    <3>2. CASE i = m
      <4>1. f[i] = ScanStep(g[m - 1], q, c, m) /\ f[m - 1] = g[m - 1]
        BY <1>2, <2>1, <3>2
      <4> QED BY <1>4, <3>2, <4>1
    <3>3. CASE i # 0 /\ i # m
      <4>1. i \in 1 .. m - 1 /\ i - 1 \in 0 .. m /\ i - 1 # m
        BY <1>2, <3>3
      <4>2. f[i] = g[i] /\ f[i - 1] = g[i - 1]
        BY <3>3, <4>1
      <4> QED BY <2>3, <3>3, <4>1, <4>2
    <3> QED BY <3>1, <3>2, <3>3
  <2>5. DOMAIN f = 0 .. m /\ f = [i \in 0 .. m |-> f[i]]
    OBVIOUS
  <2> HIDE DEF f
  <2>6. Scan(f, q, c, m)
    BY <2>4, <2>5 DEF Scan
  <2> QED BY <1>2, <2>6
<1> QED BY <1>3, <1>4

\* Changes is the end of the recursion.
LEMMA ChangesScan ==
  ASSUME NEW q \in Seq(Event), NEW c
  PROVE  \E f : Scan(f, q, c, Len(q)) /\ Changes(q, c) = f[Len(q)]
<1>1. Len(q) \in Nat
  OBVIOUS
<1>2. \E f : Scan(f, q, c, Len(q))
  BY <1>1, ScanExists
<1> DEFINE f == CHOOSE f : Scan(f, q, c, Len(q))
<1>3. Scan(f, q, c, Len(q))
  BY <1>2
<1>4. Changes(q, c) = f[Len(q)]
  BY DEF Changes, Scan, ScanStep
<1> QED BY <1>3, <1>4

\* The changes reported so far are changes of sessions.
LEMMA ScanType ==
  ASSUME NEW q \in Seq(Event), NEW c, NEW f, Scan(f, q, c, Len(q)), NEW n \in 0 .. Len(q)
  PROVE  f[n] \in Seq(Reports)
<1> DEFINE T == {m \in 0 .. Len(q) : f[m] \notin Seq(Reports)}
<1> SUFFICES ASSUME T # {} PROVE FALSE
  OBVIOUS
<1>1. Len(q) \in Nat /\ T \subseteq Nat
  OBVIOUS
<1>2. PICK m \in T : \A k \in T : ~(k < m)
  BY <1>1, LeastElement
<1>3. f[0] = <<>> /\ \A i \in 1 .. Len(q) : f[i] = ScanStep(f[i - 1], q, c, i)
  BY <1>1, ScanUnfold
<1>4. CASE m = 0
  <2>1. f[m] = <<>>
    BY <1>3, <1>4
  <2>2. f[m] \in Seq(Reports)
    BY <2>1
  <2> QED BY <1>2, <2>2
<1>5. CASE m # 0
  <2>1. m \in 1 .. Len(q) /\ m - 1 \in 0 .. Len(q) /\ m - 1 < m
    BY <1>1, <1>2, <1>5
  <2>2. f[m - 1] \in Seq(Reports)
    BY <1>2, <2>1
  <2>3. q[m] \in Event /\ Reported(q[m]) \in Reports
    BY <2>1, ReportedType
  <2>4. f[m] \in Seq(Reports)
    <3>1. Append(f[m - 1], Reported(q[m])) \in Seq(Reports)
      BY <2>2, <2>3
    <3>2. f[m] = ScanStep(f[m - 1], q, c, m)
      BY <1>3, <2>1
    <3> QED BY <2>2, <3>1, <3>2 DEF ScanStep
  <2> QED BY <1>2, <2>4
<1> QED BY <1>4, <1>5

\* What an event at the end adds to the changes.
LEMMA ChangesAppend ==
  ASSUME NEW q \in Seq(Event), NEW c, NEW e \in Event
  PROVE  /\ Changes(q, c) \in Seq(Reports)
         /\ Changes(q \o <<e>>, c) = IF e.by = c THEN Append(Changes(q, c), Reported(e))
                                                   ELSE Changes(q, c)
<1> DEFINE r == q \o <<e>>
<1>1. PICK n \in Nat : n = Len(q)
  OBVIOUS
<1>2. /\ r \in Seq(Event) /\ Len(r) = n + 1 /\ r[n + 1] = e
      /\ \A i \in 1 .. n : r[i] = q[i]
  BY <1>1
<1> HIDE DEF r
<1>3. PICK f : Scan(f, q, c, n) /\ Changes(q, c) = f[n]
  BY <1>1, ChangesScan
<1>4. PICK g : Scan(g, r, c, n + 1) /\ Changes(r, c) = g[n + 1]
  BY <1>2, ChangesScan
<1>5. f[0] = <<>> /\ \A i \in 1 .. n : f[i] = ScanStep(f[i - 1], q, c, i)
  BY <1>3, ScanUnfold
<1>6. g[0] = <<>> /\ \A i \in 1 .. n + 1 : g[i] = ScanStep(g[i - 1], r, c, i)
  <2>1. n + 1 \in Nat
    OBVIOUS
  <2> QED BY <1>4, <2>1, ScanUnfold
<1> DEFINE T == {m \in 0 .. n : g[m] # f[m]}
<1>7. T = {}
  <2> SUFFICES ASSUME T # {} PROVE FALSE
    OBVIOUS
  <2>1. T \subseteq Nat
    OBVIOUS
  <2>2. PICK m \in T : \A k \in T : ~(k < m)
    BY <2>1, LeastElement
  <2>3. m # 0
    BY <1>5, <1>6, <2>2
  <2>4. m \in 1 .. n /\ m \in 1 .. n + 1 /\ m - 1 \in 0 .. n /\ m - 1 < m
    BY <2>2, <2>3
  <2>5. g[m - 1] = f[m - 1]
    BY <2>2, <2>4
  <2>6. g[m] = ScanStep(g[m - 1], r, c, m) /\ f[m] = ScanStep(f[m - 1], q, c, m) /\ r[m] = q[m]
    BY <1>2, <1>5, <1>6, <2>4
  <2>7. g[m] = f[m]
    BY <2>5, <2>6 DEF ScanStep
  <2> QED BY <2>2, <2>7
<1>8. g[n] = f[n]
  BY <1>7
<1>9. g[n + 1] = ScanStep(g[n], r, c, n + 1)
  <2>1. n + 1 \in 1 .. n + 1 /\ (n + 1) - 1 = n
    OBVIOUS
  <2> QED BY <1>6, <2>1
<1>10. Changes(r, c) = IF e.by = c THEN Append(Changes(q, c), Reported(e)) ELSE Changes(q, c)
  BY <1>2, <1>3, <1>4, <1>8, <1>9 DEF ScanStep
<1>11. Changes(q, c) \in Seq(Reports)
  BY <1>1, <1>3, ScanType
<1> QED BY <1>10, <1>11 DEF r

\* p put in front of s.
Joined(p, s) == p \o s

\* An event extends the changes in front of which a part is put.
LEMMA ScanStepJoined ==
  ASSUME NEW p \in Seq(Reports), NEW s \in Seq(Reports), NEW q, NEW r, NEW c,
         NEW i, NEW k, q[i] \in Event, r[k] = q[i]
  PROVE  ScanStep(Joined(p, s), r, c, k) = Joined(p, ScanStep(s, q, c, i))
<1>1. PICK x \in Reports : x = Reported(q[i]) /\ x = Reported(r[k])
  BY ReportedType
<1>2. Append(Joined(p, s), x) = Joined(p, Append(s, x))
  BY DEF Joined
<1> QED BY <1>1, <1>2 DEF ScanStep

\* What an event at the front adds to the changes.
LEMMA ChangesPrepend ==
  ASSUME NEW q \in Seq(Event), NEW c, NEW e \in Event
  PROVE  Changes(<<e>> \o q, c) = IF e.by = c THEN <<Reported(e)>> \o Changes(q, c)
                                                ELSE Changes(q, c)
<1> DEFINE r == <<e>> \o q
           first == IF e.by = c THEN <<Reported(e)>> ELSE <<>>
<1>1. PICK n \in Nat : n = Len(q)
  OBVIOUS
<1>2. /\ r \in Seq(Event) /\ Len(r) = n + 1 /\ r[1] = e
      /\ \A i \in 1 .. n : r[i + 1] = q[i]
  BY <1>1
<1>3. first \in Seq(Reports) /\ first \o <<>> = first
  BY ReportedType
<1> HIDE DEF r
<1>4. PICK f : Scan(f, q, c, n) /\ Changes(q, c) = f[n]
  BY <1>1, ChangesScan
<1>5. PICK g : Scan(g, r, c, n + 1) /\ Changes(r, c) = g[n + 1]
  BY <1>2, ChangesScan
<1>6. f[0] = <<>> /\ \A i \in 1 .. n : f[i] = ScanStep(f[i - 1], q, c, i)
  BY <1>4, ScanUnfold
<1>7. g[0] = <<>> /\ \A i \in 1 .. n + 1 : g[i] = ScanStep(g[i - 1], r, c, i)
  <2>1. n + 1 \in Nat
    OBVIOUS
  <2> QED BY <1>5, <2>1, ScanUnfold
<1>8. \A i \in 0 .. n : f[i] \in Seq(Reports)
  BY <1>1, <1>4, ScanType
<1>9. g[1] = first
  <2>1. 1 \in 1 .. n + 1 /\ 1 - 1 = 0
    OBVIOUS
  <2>2. g[1] = ScanStep(g[0], r, c, 1)
    BY <1>7, <2>1
  <2>3. Append(<<>>, Reported(e)) = <<Reported(e)>>
    OBVIOUS
  <2> QED BY <1>2, <1>7, <2>2, <2>3 DEF ScanStep
<1> HIDE DEF first
<1> DEFINE T == {m \in 0 .. n : g[m + 1] # Joined(first, f[m])}
<1>10. T = {}
  <2> SUFFICES ASSUME T # {} PROVE FALSE
    OBVIOUS
  <2>1. T \subseteq Nat
    OBVIOUS
  <2>2. PICK m \in T : \A k \in T : ~(k < m)
    BY <2>1, LeastElement
  <2>3. m # 0
    BY <1>3, <1>6, <1>9, <2>2 DEF Joined
  <2>4. /\ m \in 1 .. n /\ m + 1 \in 1 .. n + 1 /\ m - 1 \in 0 .. n /\ m - 1 < m
        /\ (m + 1) - 1 = m /\ (m - 1) + 1 = m
    BY <2>2, <2>3
  <2>5. g[m] = Joined(first, f[m - 1])
    BY <2>2, <2>4
  <2>6. /\ g[m + 1] = ScanStep(g[m], r, c, m + 1) /\ f[m] = ScanStep(f[m - 1], q, c, m)
        /\ r[m + 1] = q[m]
    BY <1>2, <1>6, <1>7, <2>4
  <2>7. f[m - 1] \in Seq(Reports) /\ q[m] \in Event
    BY <1>1, <1>8, <2>4
  <2>8. ScanStep(Joined(first, f[m - 1]), r, c, m + 1) = Joined(first, ScanStep(f[m - 1], q, c, m))
    BY <1>3, <2>6, <2>7, ScanStepJoined
  <2>9. g[m + 1] = Joined(first, f[m])
    BY <2>5, <2>6, <2>8
  <2> QED BY <2>2, <2>9
<1>11. Changes(r, c) = Joined(first, Changes(q, c))
  BY <1>4, <1>5, <1>10
<1>12. <<>> \o Changes(q, c) = Changes(q, c)
  BY <1>4, <1>8
<1> QED BY <1>11, <1>12 DEF first, r, Joined

-----------------------------------------------------------------------------
(***************************************************************************)
(* The adapter implements SessionFeed, step by step.                       *)
(***************************************************************************)

\* What is unreported of a goroutine: its changes in the pipe, then the event that
\* it is sending.
LEMMA ChangesSplit ==
  ASSUME NEW p \in Seq(Event), NEW c, NEW s \in {<<>>} \cup {<<e>> : e \in Event},
         s # <<>> => s[1].by = c
  PROVE  /\ Changes(p, c) \in Seq(Reports)
         /\ s = <<>> => Changes(p \o s, c) = Changes(p, c)
         /\ s # <<>> => /\ Reported(s[1]) \in Reports
                        /\ Changes(p \o s, c) = Append(Changes(p, c), Reported(s[1]))
<1>1. CASE s = <<>>
  <2>1. p \o <<>> = p
    OBVIOUS
  <2>2. PICK f : Scan(f, p, c, Len(p)) /\ Changes(p, c) = f[Len(p)]
    BY ChangesScan
  <2>3. Len(p) \in 0 .. Len(p)
    OBVIOUS
  <2>4. Changes(p, c) \in Seq(Reports)
    BY <2>2, <2>3, ScanType
  <2> QED BY <1>1, <2>1, <2>4
<1>2. CASE s # <<>>
  <2>1. PICK e \in Event : s = <<e>>
    BY <1>2
  <2>2. s[1] = e /\ e.by = c
    BY <1>2, <2>1
  <2> QED BY <1>2, <2>1, <2>2, ChangesAppend, ReportedType
<1> QED BY <1>1, <1>2

\* ChangesSplit for a state of the adapter.
LEMMA UnreportedSplit ==
  ASSUME TypeOK, NEW c \in Callers
  PROVE  /\ Changes(Pipe, c) \in Seq(Reports)
         /\ sending[c] = <<>> => Unreported(c) = Changes(Pipe, c)
         /\ sending[c] # <<>> =>
              /\ Reported(sending[c][1]) \in Reports
              /\ Unreported(c) = Append(Changes(Pipe, c), Reported(sending[c][1]))
<1>1. /\ sending[c] \in {<<>>} \cup {<<e>> : e \in Event}
      /\ sending[c] # <<>> => sending[c][1].by = c
  BY DEF TypeOK
<1>2. Pipe \in Seq(Event)
  BY PipeType
<1> QED BY <1>1, <1>2, ChangesSplit DEF Unreported

\* A change of a session is a change of the feed.
LEMMA ChangeRefines ==
  ASSUME TypeOK, NEW c \in Callers, NEW d \in Devices, NEW e \in Event, NEW t,
         sending[c] = <<>>, Told(e) = t, e.by = c, e.imsi = d,
         sessions' = [sessions EXCEPT ![d] = t],
         sending' = [sending EXCEPT ![c] = <<e>>],
         UNCHANGED <<events, held, out, logged>>
  PROVE  Feed!Change(c, d, t)
<1>1. Pipe' = Pipe
  BY DEF Pipe
<1>2. sending'[c] = <<e>> /\ \A b \in Callers : b # c => sending'[b] = sending[b]
  BY DEF TypeOK
<1>3. Unreported(c)' = Append(Unreported(c), [imsi |-> d, session |-> t])
  <2>1. Unreported(c) = Changes(Pipe, c)
    BY UnreportedSplit
  <2>2. Pipe \in Seq(Event)
    BY PipeType
  <2>3. Changes(Pipe \o <<e>>, c) = Append(Changes(Pipe, c), Reported(e))
    BY <2>2, ChangesAppend
  <2>4. Reported(e) = [imsi |-> d, session |-> t]
    BY DEF Reported
  <2> QED BY <1>1, <1>2, <2>1, <2>3, <2>4 DEF Unreported
<1>4. \A b \in Callers : b # c => Unreported(b)' = Unreported(b)
  BY <1>1, <1>2 DEF Unreported
<1>5. [b \in Callers |-> Unreported(b)]' =
        [[b \in Callers |-> Unreported(b)] EXCEPT ![c] = Append(@, [imsi |-> d, session |-> t])]
  BY <1>3, <1>4
<1> QED BY <1>5 DEF Feed!Change

\* A send changes neither what is unreported of the sender nor of another
\* goroutine.
LEMMA SendRefines ==
  ASSUME TypeOK, NEW c \in Callers, Send(c)
  PROVE  UNCHANGED Feed!vars
<1>1. Pipe \in Seq(Event) /\ out \o held \in Seq(Event) /\ events \in Seq(Event)
  BY PipeType
<1>2. PICK e \in Event : sending[c] = <<e>> /\ e.by = c
  BY DEF TypeOK, Send
<1>3. <<e>> \in Seq(Event)
  OBVIOUS
<1>4. Pipe' = Pipe \o <<e>>
  BY <1>1, <1>2, <1>3, ConcatAssociative DEF Pipe, Send
<1>5. sending'[c] = <<>> /\ \A b \in Callers : b # c => sending'[b] = sending[b]
  BY DEF TypeOK, Send
<1>6. Pipe \o <<e>> \in Seq(Event)
  BY <1>1, <1>3, ConcatElements
<1>7. Unreported(c)' = Unreported(c)
  <2>1. (Pipe \o <<e>>) \o <<>> = Pipe \o <<e>>
    BY <1>6
  <2> QED BY <1>2, <1>4, <1>5, <2>1 DEF Unreported
<1>8. ASSUME NEW b \in Callers, b # c PROVE Unreported(b)' = Unreported(b)
  <2>1. Changes(Pipe \o <<e>>, b) = Changes(Pipe, b)
    BY <1>1, <1>2, <1>8, ChangesAppend
  <2>2. /\ sending[b] \in {<<>>} \cup {<<f>> : f \in Event}
        /\ sending[b] # <<>> => sending[b][1].by = b
    BY DEF TypeOK
  <2>3. Changes((Pipe \o <<e>>) \o sending[b], b) = Changes(Pipe \o sending[b], b)
    <3>1. PICK p \in Seq(Event), r \in Seq(Event) : p = Pipe /\ r = Pipe \o <<e>>
      BY <1>1, <1>6
    <3>2. Changes(r, b) = Changes(p, b)
      BY <2>1, <3>1
    <3>3. CASE sending[b] = <<>>
      <4>1. Changes(r \o sending[b], b) = Changes(r, b) /\ Changes(p \o sending[b], b) = Changes(p, b)
        BY <2>2, <3>3, ChangesSplit
      <4> QED BY <3>1, <3>2, <4>1
    <3>4. CASE sending[b] # <<>>
      <4>1. Changes(r \o sending[b], b) = Append(Changes(r, b), Reported(sending[b][1]))
        BY <2>2, <3>4, ChangesSplit
      <4>2. Changes(p \o sending[b], b) = Append(Changes(p, b), Reported(sending[b][1]))
        BY <2>2, <3>4, ChangesSplit
      <4> QED BY <3>1, <3>2, <4>1, <4>2
    <3> QED BY <3>3, <3>4
  <2> QED BY <1>4, <1>5, <1>8, <2>3 DEF Unreported
<1>9. [b \in Callers |-> Unreported(b)]' = [b \in Callers |-> Unreported(b)]
  BY <1>7, <1>8
<1> QED BY <1>9 DEF Feed!vars, Send

\* Forwarding an event reports the oldest unreported change of its sender.
LEMMA ForwardRefines ==
  ASSUME TypeOK, ForwardEvent
  PROVE  \E c \in Callers : Feed!Report(c)
<1>1. out \in Seq(Event) /\ held \in Seq(Event) /\ events \in Seq(Event) /\ out # <<>>
  BY PipeType DEF ForwardEvent
<1>2. PICK e \in Event : e = Head(out)
  BY <1>1, HeadTail
<1>3. e.by \in Callers
  BY DEF Event
<1>4. PICK c \in Callers : c = e.by
  BY <1>3
<1>5. Pipe' \in Seq(Event) /\ Pipe = <<e>> \o Pipe'
  <2>1. Tail(out) \in Seq(Event) /\ <<e>> \o Tail(out) = out /\ <<e>> \in Seq(Event)
    BY <1>1, <1>2, HeadTail
  <2>2. Pipe' = (Tail(out) \o held) \o events
    BY DEF ForwardEvent, Pipe
  <2>3. Tail(out) \o held \in Seq(Event) /\ (Tail(out) \o held) \o events \in Seq(Event)
    BY <1>1, <2>1, ConcatElements
  <2>4. out \o held = <<e>> \o (Tail(out) \o held)
    BY <1>1, <2>1, ConcatAssociative
  <2>5. (<<e>> \o (Tail(out) \o held)) \o events = <<e>> \o ((Tail(out) \o held) \o events)
    BY <1>1, <2>1, <2>3, ConcatAssociative
  <2> QED BY <2>2, <2>3, <2>4, <2>5 DEF Pipe
<1>6. sending' = sending /\ sessions' = sessions /\ logged' = [logged EXCEPT ![e.imsi] = Told(e)]
  BY <1>2 DEF ForwardEvent
<1>7. \A b \in Callers : /\ sending[b] \in {<<>>} \cup {<<f>> : f \in Event}
                         /\ sending[b] # <<>> => sending[b][1].by = b
  BY DEF TypeOK
<1>8. ASSUME NEW b \in Callers
      PROVE  /\ Unreported(b)' \in Seq(Reports)
             /\ Unreported(b) = IF b = c THEN <<Reported(e)>> \o Unreported(b)' ELSE Unreported(b)'
  <2>1. Changes(Pipe, b) = IF b = c THEN <<Reported(e)>> \o Changes(Pipe', b) ELSE Changes(Pipe', b)
    BY <1>4, <1>5, ChangesPrepend
  <2>2. Reported(e) \in Reports
    BY ReportedType
  <2>3. Unreported(b)' = Changes(Pipe' \o sending[b], b)
    BY <1>6 DEF Unreported
  <2>4. CASE sending[b] = <<>>
    <3>1. Unreported(b)' = Changes(Pipe', b) /\ Changes(Pipe', b) \in Seq(Reports)
      BY <1>5, <1>7, <2>3, <2>4, ChangesSplit
    <3>2. Unreported(b) = Changes(Pipe, b)
      BY <2>4, UnreportedSplit
    <3> QED BY <2>1, <3>1, <3>2
  <2>5. CASE sending[b] # <<>>
    <3>1. PICK x \in Reports : x = Reported(sending[b][1])
      BY <2>5, UnreportedSplit
    <3>2. PICK q \in Seq(Reports) : q = Changes(Pipe', b)
      BY <1>5, <1>7, ChangesSplit
    <3>3. Unreported(b)' = Append(q, x)
      BY <1>5, <1>7, <2>3, <2>5, <3>1, <3>2, ChangesSplit
    <3>4. Unreported(b) = Append(Changes(Pipe, b), x)
      BY <2>5, <3>1, UnreportedSplit
    <3>5. PICK y \in Reports : y = Reported(e)
      BY <2>2
    <3>6. Append(<<y>> \o q, x) = <<y>> \o Append(q, x)
      OBVIOUS
    <3> QED BY <2>1, <3>2, <3>3, <3>4, <3>5, <3>6
  <2> QED BY <2>4, <2>5
<1>9. /\ Unreported(c) # <<>> /\ Head(Unreported(c)) = Reported(e)
      /\ Tail(Unreported(c)) = Unreported(c)'
  <2>1. PICK q \in Seq(Reports), y \in Reports :
          q = Unreported(c)' /\ y = Reported(e) /\ Unreported(c) = <<y>> \o q
    BY <1>8, ReportedType
  <2>2. <<y>> \o q # <<>> /\ Head(<<y>> \o q) = y /\ Tail(<<y>> \o q) = q
    OBVIOUS
  <2> QED BY <2>1, <2>2
<1>10. [b \in Callers |-> Unreported(b)]' =
         [[b \in Callers |-> Unreported(b)] EXCEPT ![c] = Tail(@)]
  BY <1>8, <1>9
<1>11. [b \in Callers |-> Unreported(b)][c] = Unreported(c)
  OBVIOUS
<1>12. Reported(e).imsi = e.imsi /\ Reported(e).session = Told(e)
  BY DEF Reported
<1>13. Feed!Report(c)
  BY <1>6, <1>9, <1>10, <1>11, <1>12 DEF Feed!Report
<1> QED BY <1>13

\* Every step of the adapter is a step of the feed or leaves it as it is.
LEMMA StepRefines == TypeOK /\ [Next]_vars => [Feed!Next]_Feed!vars
<1> SUFFICES ASSUME TypeOK, [Next]_vars PROVE [Feed!Next]_Feed!vars
  OBVIOUS
<1>1. ASSUME NEW c \in Callers, NEW d \in Drives[c], SimulateConnect(c, d) PROVE Feed!Next
  <2> DEFINE t == (teidSeq + 1) % Wrap
             e == [type |-> "session_created", imsi |-> d, teid |-> t, by |-> c]
  <2>1. t \in TEIDs /\ d \in Devices
    BY AdapterAssumption DEF TypeOK, TEIDs
  <2>2. e \in Event /\ e.imsi = d /\ e.by = c /\ Told(e) = t
    BY <2>1 DEF Event, Told
  <2>3. /\ sending[c] = <<>>
        /\ sessions' = [sessions EXCEPT ![d] = t] /\ sending' = [sending EXCEPT ![c] = <<e>>]
        /\ UNCHANGED <<events, held, out, logged>>
    BY <1>1 DEF SimulateConnect
  <2> HIDE DEF e, t
  <2>4. Feed!Change(c, d, t)
    BY <2>1, <2>2, <2>3, ChangeRefines
  <2> QED BY <2>1, <2>4 DEF Feed!Next
<1>2. ASSUME NEW c \in Callers, NEW d \in Drives[c], SimulateDisconnect(c, d) PROVE Feed!Next
  <2> DEFINE e == [type |-> "session_terminated", imsi |-> d, teid |-> sessions[d], by |-> c]
  <2>1. d \in Devices
    BY AdapterAssumption
  <2>2. e \in Event /\ e.imsi = d /\ e.by = c /\ Told(e) = NoSession
    BY <1>2, <2>1 DEF TypeOK, SimulateDisconnect, Event, Told
  <2>3. /\ sending[c] = <<>>
        /\ sessions' = [sessions EXCEPT ![d] = NoSession] /\ sending' = [sending EXCEPT ![c] = <<e>>]
        /\ UNCHANGED <<events, held, out, logged>>
    BY <1>2 DEF SimulateDisconnect
  <2> HIDE DEF e
  <2>4. Feed!Change(c, d, NoSession)
    BY <2>1, <2>2, <2>3, ChangeRefines
  <2> QED BY <2>4 DEF Feed!Next
<1>3. ASSUME NEW c \in Callers, Send(c) PROVE UNCHANGED Feed!vars
  BY <1>3, SendRefines
<1>4. ASSUME PumpReceive \/ PumpSend PROVE UNCHANGED Feed!vars
  <2>1. Pipe' = Pipe
    BY <1>4, PumpKeepsPipe
  <2>2. UNCHANGED <<sessions, logged, sending>>
    BY <1>4 DEF PumpReceive, PumpSend
  <2> QED BY <2>1, <2>2 DEF Feed!vars, Unreported
<1>5. ASSUME ForwardEvent PROVE Feed!Next
  BY <1>5, ForwardRefines DEF Feed!Next
<1>6. ASSUME UNCHANGED vars PROVE UNCHANGED Feed!vars
  BY <1>6 DEF vars, Feed!vars, Unreported, Pipe
<1> QED BY <1>1, <1>2, <1>3, <1>4, <1>5, <1>6 DEF Next

\* Nothing is unreported at first.
LEMMA InitRefines == Init => Feed!Init
<1> SUFFICES ASSUME Init PROVE Feed!Init
  OBVIOUS
<1>1. TypeOK
  BY InitInv DEF IInv
<1>2. Pipe = <<>> /\ \A c \in Callers : sending[c] = <<>>
  BY DEF Init, Pipe
<1>3. ASSUME NEW c \in Callers PROVE Unreported(c) = <<>>
  <2>1. Unreported(c) = Changes(<<>>, c)
    BY <1>1, <1>2, UnreportedSplit
  <2>2. <<>> \in Seq(Event) /\ Len(<<>>) = 0
    OBVIOUS
  <2>3. PICK f : Scan(f, <<>>, c, 0) /\ Changes(<<>>, c) = f[0]
    BY <2>2, ChangesScan
  <2> QED BY <2>1, <2>3, ScanUnfold
<1> QED BY <1>3 DEF Init, Feed!Init

\* For any devices, any goroutines that drive them, any capacity and any width of
\* the counter, what the adapter, the pump and the two channels bring to the log is
\* what one unbounded queue per goroutine would: no change of a session is lost,
\* logged twice or overtaken by a later one of the same goroutine.
THEOREM RefinesFeed == Spec => Feed!SafeSpec
<1>1. Spec => [][Feed!Next]_Feed!vars
  BY TypesPreserved, StepRefines, PTL DEF Spec
<1> QED BY <1>1, InitRefines, PTL DEF Spec, Feed!SafeSpec
=============================================================================
