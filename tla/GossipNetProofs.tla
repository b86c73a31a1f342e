-------------------------- MODULE GossipNetProofs --------------------------
(***************************************************************************)
(* For every set of nodes and all bootstrap lists: a record stays within   *)
(* the nodes its server's bootstrap lists lead to, and once all nodes run  *)
(* a flood that has ended has been to all of them.                         *)
(*                                                                         *)
(* The invariants have to speak of the messages on the way as well: a      *)
(* record of a server in a closed set is only ever sent to members of the  *)
(* set, and whoever sent it has peers that saw it or have it coming.       *)
(***************************************************************************)
EXTENDS GossipNet, TLAPS

\* A message about a server of a closed set is addressed to a member of it.
MessagesFollowBootstrap ==
  \A S \in ClosedSets : \A m \in net : m.server \in S => m.to \in S

IInv == TypeOK /\ RecordsFollowBootstrap /\ MessagesFollowBootstrap

\* What sendLine hands to the network is well formed (server.go, heartbeat.go).
LEMMA SendType ==
  ASSUME NEW n \in Nodes, NEW s \in Nodes, NEW t \in Timestamps
  PROVE  Send(n, s, t) \subseteq Message
BY NetAssumption DEF Send, ActiveAddrs, Message

\* A closed set that holds the sending node holds those it sends to (server.go).
LEMMA SendClosed ==
  ASSUME NEW n \in Nodes, NEW s \in Nodes, NEW t \in Timestamps,
         NEW S \in SUBSET Nodes, Closed(S), n \in S
  PROVE  \A m \in Send(n, s, t) : m.to \in S
BY NetAssumption DEF Send, ActiveAddrs, Closed

\* The initial state has no record and no message (main.go).
LEMMA InitIInv == Init => IInv
BY NetAssumption
DEF Init, IInv, TypeOK, RecordsFollowBootstrap, MessagesFollowBootstrap, ClosedSets, NoRecords, Timestamps

\* Every action keeps the types (all handlers).
LEMMA TypeStep == TypeOK /\ [Next]_vars => TypeOK'
<1> SUFFICES ASSUME TypeOK, [Next]_vars PROVE TypeOK'
  OBVIOUS
<1> USE NetAssumption
<1>1. ASSUME NEW n \in Nodes, Start(n) PROVE TypeOK'
  <2>1. timestamp[n] + 1 \in Timestamps /\ 0 \in Timestamps
    BY <1>1 DEF TypeOK, Start, Timestamps
  <2>2. timestamp'[n] = timestamp[n] + 1
    BY <1>1 DEF TypeOK, Start
  <2>3. Send(n, n, timestamp'[n]) \subseteq Message
    BY <2>1, <2>2, SendType
  <2> QED BY <1>1, <2>1, <2>2, <2>3 DEF TypeOK, Start, NoRecords
<1>2. ASSUME NEW n \in Nodes, Announce(n) PROVE TypeOK'
  <2>1. timestamp[n] + 1 \in Timestamps
    BY <1>2 DEF TypeOK, Announce, Timestamps
  <2>2. timestamp'[n] = timestamp[n] + 1
    BY <1>2 DEF TypeOK, Announce
  <2>3. Send(n, n, timestamp'[n]) \subseteq Message
    BY <2>1, <2>2, SendType
  <2> QED BY <1>2, <2>1, <2>2, <2>3 DEF TypeOK, Announce
<1>3. ASSUME NEW n \in Nodes, Crash(n) PROVE TypeOK'
  BY <1>3 DEF TypeOK, Crash, NoRecords, Timestamps
<1>4. ASSUME NEW m \in net, HandleNodeRecord(m) PROVE TypeOK'
  <2>1. m.to \in Nodes /\ m.server \in Nodes /\ m.timestamp \in Timestamps
    BY DEF TypeOK, Message
  <2>2. Send(m.to, m.server, m.timestamp) \subseteq Message
    BY <2>1, SendType
  <2> QED BY <1>4, <2>1, <2>2 DEF TypeOK, HandleNodeRecord
<1>5. ASSUME NEW m \in net, DiscardNodeRecord(m) \/ DialFails(m) \/ SendFails(m) PROVE TypeOK'
  BY <1>5 DEF TypeOK, DiscardNodeRecord, DialFails, SendFails
<1>6. ASSUME NEW n \in Nodes, Listen(n) PROVE TypeOK'
  BY <1>6 DEF TypeOK, Listen
<1>7. CASE UNCHANGED vars
  BY <1>7 DEF TypeOK, vars
<1> QED BY <1>1, <1>2, <1>3, <1>4, <1>5, <1>6, <1>7 DEF Next, Deliver

\* Every action keeps records and messages within closed sets (all handlers).
LEMMA FollowStep ==
  IInv /\ [Next]_vars => RecordsFollowBootstrap' /\ MessagesFollowBootstrap'
<1> SUFFICES ASSUME IInv, [Next]_vars,
                    NEW S \in SUBSET Nodes, Closed(S)
             PROVE  /\ \A s \in S, n \in Nodes \ S : records'[n][s] = 0
                    /\ \A m \in net' : m.server \in S => m.to \in S
  BY DEF RecordsFollowBootstrap, MessagesFollowBootstrap, ClosedSets, Closed
<1> USE NetAssumption
<1>0. /\ \A s \in S, n \in Nodes \ S : records[n][s] = 0
      /\ \A m \in net : m.server \in S => m.to \in S
      /\ TypeOK
  BY DEF IInv, RecordsFollowBootstrap, MessagesFollowBootstrap, ClosedSets
<1>1. ASSUME NEW n \in Nodes, Start(n)
      PROVE  /\ \A s \in S, k \in Nodes \ S : records'[k][s] = 0
             /\ \A m \in net' : m.server \in S => m.to \in S
  <2>1. timestamp'[n] \in Timestamps
    BY <1>0, <1>1, TypeStep DEF TypeOK, Start, Timestamps
  <2>2. \A m \in Send(n, n, timestamp'[n]) : m.server = n
    BY DEF Send
  <2>3. \A m \in Send(n, n, timestamp'[n]) : m.server \in S => m.to \in S
    BY <2>1, <2>2, SendClosed
  <2> QED BY <1>0, <1>1, <2>3 DEF TypeOK, Start, NoRecords
<1>2. ASSUME NEW n \in Nodes, Announce(n)
      PROVE  /\ \A s \in S, k \in Nodes \ S : records'[k][s] = 0
             /\ \A m \in net' : m.server \in S => m.to \in S
  <2>1. timestamp'[n] \in Timestamps
    BY <1>0, <1>2 DEF TypeOK, Announce, Timestamps
  <2>2. \A m \in Send(n, n, timestamp'[n]) : m.server = n
    BY DEF Send
  <2>3. \A m \in Send(n, n, timestamp'[n]) : m.server \in S => m.to \in S
    BY <2>1, <2>2, SendClosed
  <2> QED BY <1>0, <1>2, <2>3 DEF TypeOK, Announce
<1>3. ASSUME NEW n \in Nodes, Crash(n)
      PROVE  /\ \A s \in S, k \in Nodes \ S : records'[k][s] = 0
             /\ \A m \in net' : m.server \in S => m.to \in S
  BY <1>0, <1>3 DEF TypeOK, Crash, NoRecords
<1>4. ASSUME NEW m \in net, HandleNodeRecord(m)
      PROVE  /\ \A s \in S, k \in Nodes \ S : records'[k][s] = 0
             /\ \A q \in net' : q.server \in S => q.to \in S
  <2>1. m.to \in Nodes /\ m.server \in Nodes /\ m.timestamp \in Timestamps
    BY <1>0 DEF TypeOK, Message
  <2>2. \A q \in Send(m.to, m.server, m.timestamp) : q.server = m.server
    BY DEF Send
  <2>3. \A q \in Send(m.to, m.server, m.timestamp) : q.server \in S => q.to \in S
    BY <1>0, <2>1, <2>2, SendClosed
  <2> QED BY <1>0, <1>4, <2>1, <2>3 DEF TypeOK, HandleNodeRecord
<1>5. ASSUME NEW m \in net, DiscardNodeRecord(m) \/ DialFails(m) \/ SendFails(m)
      PROVE  /\ \A s \in S, k \in Nodes \ S : records'[k][s] = 0
             /\ \A q \in net' : q.server \in S => q.to \in S
  BY <1>0, <1>5 DEF DiscardNodeRecord, DialFails, SendFails
<1>6. ASSUME NEW n \in Nodes, Listen(n)
      PROVE  /\ \A s \in S, k \in Nodes \ S : records'[k][s] = 0
             /\ \A m \in net' : m.server \in S => m.to \in S
  BY <1>0, <1>6 DEF Listen
<1>7. CASE UNCHANGED vars
  BY <1>0, <1>7 DEF vars
<1> QED BY <1>1, <1>2, <1>3, <1>4, <1>5, <1>6, <1>7 DEF Next, Deliver

\* For all bootstrap lists, a node never stores a record of a server from which
\* the lists do not lead to it (server.go, peer.go).
THEOREM BootstrapDecides == Spec => []RecordsFollowBootstrap
<1>1. Init => IInv
  BY InitIInv
<1>2. IInv /\ [Next]_vars => IInv'
  BY TypeStep, FollowStep DEF IInv
<1>3. IInv => RecordsFollowBootstrap
  BY DEF IInv
<1> QED BY <1>1, <1>2, <1>3, PTL DEF Spec

\* For all bootstrap lists, the stores, the seen sets and the messages on the way
\* keep their types: no announcement is stamped beyond the bound of the model.
THEOREM TypesPreserved == Spec => []TypeOK
<1>1. Init => TypeOK
  BY InitIInv DEF IInv
<1> QED BY <1>1, TypeStep, PTL DEF Spec

(***************************************************************************)
(* The safety half of discovery: where a flood that has ended has been.    *)
(***************************************************************************)

\* Stamps are those of announcements made; a node has a record of every server
\* whose record it has seen, and of itself.
Stamped ==
  /\ \A m \in net : m.timestamp \in 1 .. timestamp[m.server]
  /\ \A n, s \in Nodes, t \in Timestamps :
       <<s, t>> \in seen[n] => t \in 1 .. timestamp[s] /\ records[n][s] # 0
  /\ \A n \in starting \cup up : records[n][n] # 0

\* The nodes that have sent the record of server s with stamp t to their peers.
Senders(s, t) == {s} \cup {n \in Nodes : <<s, t>> \in seen[n]}

\* Once announced, the record has been seen by every peer of a node that sent
\* it, or is on the way there.
Flooding(s, t) ==
  timestamp[s] >= t =>
    \A n \in Senders(s, t) : \A p \in BootstrapPeers[n] :
      \/ p \in Senders(s, t)
      \/ [to |-> p, server |-> s, timestamp |-> t] \in net

\* The stamps only grow (main.go, heartbeat.go).
LEMMA StampsGrow ==
  ASSUME TypeOK, [Next]_vars
  PROVE  \A n \in Nodes : timestamp[n] \in Nat /\ timestamp'[n] \in Nat /\ timestamp[n] <= timestamp'[n]
<1>1. \A n \in Nodes : timestamp[n] \in Nat
  BY NetAssumption DEF TypeOK, Timestamps
<1>2. ASSUME NEW n \in Nodes, Start(n) \/ Announce(n)
      PROVE  \A k \in Nodes : timestamp'[k] \in {timestamp[k], timestamp[k] + 1}
  BY <1>2 DEF TypeOK, Start, Announce
<1>3. ASSUME timestamp' = timestamp
      PROVE  \A k \in Nodes : timestamp'[k] \in {timestamp[k], timestamp[k] + 1}
  BY <1>3
<1>4. \A k \in Nodes : timestamp'[k] \in {timestamp[k], timestamp[k] + 1}
  BY <1>2, <1>3 DEF Next, Deliver, Listen, Crash, HandleNodeRecord, DiscardNodeRecord, DialFails,
     SendFails, vars
<1> QED BY <1>1, <1>4

\* Every action keeps Stamped (all handlers).
LEMMA StampedStep == TypeOK /\ Stamped /\ [Next]_vars => Stamped'
<1> SUFFICES ASSUME TypeOK, Stamped, [Next]_vars PROVE Stamped'
  OBVIOUS
<1> USE NetAssumption
<1>0. \A n \in Nodes : timestamp[n] \in Nat /\ timestamp'[n] \in Nat /\ timestamp[n] <= timestamp'[n]
  BY StampsGrow
<1>a. \A m \in net : m.server \in Nodes /\ m.timestamp \in 1 .. timestamp'[m.server]
  BY <1>0 DEF Stamped, TypeOK, Message
<1>b. \A n, s \in Nodes, t \in Timestamps :
        <<s, t>> \in seen[n] => t \in 1 .. timestamp'[s] /\ records[n][s] # 0
  BY <1>0 DEF Stamped
<1>1. ASSUME NEW n \in Nodes, Start(n) PROVE Stamped'
  <2>1. timestamp'[n] = timestamp[n] + 1 /\ timestamp'[n] # 0
    BY <1>0, <1>1 DEF Start, TypeOK
  <2>2. \A m \in net' : m.timestamp \in 1 .. timestamp'[m.server]
    BY <1>0, <1>a, <1>1, <2>1 DEF Start, Send
  <2>3. records'[n][n] # 0 /\ \A k \in Nodes \ {n} : records'[k] = records[k] /\ seen'[k] = seen[k]
    BY <1>1, <2>1 DEF Start, TypeOK, NoRecords
  <2>4. seen'[n] = {<<n, timestamp'[n]>>}
    BY <1>1 DEF Start, TypeOK
  <2>5. ASSUME NEW k \in Nodes, NEW s \in Nodes, NEW t \in Timestamps, <<s, t>> \in seen'[k]
        PROVE  t \in 1 .. timestamp'[s] /\ records'[k][s] # 0
    <3>1. CASE k = n
      BY <1>0, <2>1, <2>3, <2>4, <2>5, <3>1
    <3>2. CASE k # n
      BY <1>b, <2>3, <2>5, <3>2
    <3> QED BY <3>1, <3>2
  <2>6. \A k \in (starting \cup up)' : records'[k][k] # 0
    BY <1>1, <2>3 DEF Start, Stamped, TypeOK
  <2> QED BY <2>2, <2>5, <2>6 DEF Stamped
<1>2. ASSUME NEW n \in Nodes, Announce(n) PROVE Stamped'
  <2>1. timestamp'[n] = timestamp[n] + 1 /\ timestamp'[n] # 0
    BY <1>0, <1>2 DEF Announce, TypeOK
  <2>2. \A m \in net' : m.timestamp \in 1 .. timestamp'[m.server]
    BY <1>0, <1>a, <1>2, <2>1 DEF Announce, Send
  <2>3. \A k, s \in Nodes : records[k][s] # 0 => records'[k][s] # 0
    BY <1>2, <2>1 DEF Announce, TypeOK
  <2>4. records'[n][n] # 0
    BY <1>2, <2>1 DEF Announce, TypeOK
  <2> QED BY <1>b, <1>2, <2>2, <2>3, <2>4 DEF Announce, Stamped, TypeOK
<1>3. ASSUME NEW n \in Nodes, Crash(n) PROVE Stamped'
  <2>1. \A k \in Nodes \ {n} : records'[k] = records[k] /\ seen'[k] = seen[k]
    BY <1>3 DEF Crash, TypeOK
  <2>2. seen'[n] = {} /\ net' = net /\ up' = up \ {n} /\ starting' = starting \ {n}
    BY <1>3 DEF Crash, TypeOK
  <2> QED BY <1>a, <1>b, <2>1, <2>2 DEF Stamped, TypeOK
<1>4. ASSUME NEW m \in net, HandleNodeRecord(m) PROVE Stamped'
  <2>1. /\ m.to \in Nodes /\ m.server \in Nodes /\ m.timestamp \in Timestamps
        /\ m.timestamp # 0 /\ m.timestamp \in 1 .. timestamp'[m.server]
    BY <1>a, <1>0 DEF TypeOK, Message
  <2>2. \A q \in net' : q.timestamp \in 1 .. timestamp'[q.server]
    BY <1>a, <1>4, <2>1 DEF HandleNodeRecord, Send
  <2>3. \A k, s \in Nodes : records[k][s] # 0 => records'[k][s] # 0
    BY <1>4, <2>1 DEF HandleNodeRecord, TypeOK
  <2>4. records'[m.to][m.server] # 0
    BY <1>4, <2>1 DEF HandleNodeRecord, TypeOK
  <2>5. ASSUME NEW k \in Nodes, NEW s \in Nodes, NEW t \in Timestamps, <<s, t>> \in seen'[k]
        PROVE  <<s, t>> \in seen[k] \/ (k = m.to /\ s = m.server /\ t = m.timestamp)
    BY <1>4, <2>1, <2>5 DEF HandleNodeRecord, TypeOK
  <2>6. \A k, s \in Nodes, t \in Timestamps :
          <<s, t>> \in seen'[k] => t \in 1 .. timestamp'[s] /\ records'[k][s] # 0
    BY <1>b, <2>1, <2>3, <2>4, <2>5
  <2>7. \A k \in (starting \cup up)' : records'[k][k] # 0
    BY <1>4, <2>3 DEF HandleNodeRecord, Stamped, TypeOK
  <2> QED BY <2>2, <2>6, <2>7 DEF Stamped
<1>5. ASSUME NEW m \in net, DiscardNodeRecord(m) \/ DialFails(m) \/ SendFails(m) PROVE Stamped'
  BY <1>a, <1>b, <1>5 DEF DiscardNodeRecord, DialFails, SendFails, Stamped
<1>6. ASSUME NEW n \in Nodes, Listen(n) PROVE Stamped'
  BY <1>a, <1>b, <1>6 DEF Listen, Stamped
<1>7. CASE UNCHANGED vars
  BY <1>a, <1>b, <1>7 DEF vars, Stamped
<1> QED BY <1>1, <1>2, <1>3, <1>4, <1>5, <1>6, <1>7 DEF Next, Deliver

\* Stamped holds in every reachable state.
LEMMA StampedInvariance == Spec => [](TypeOK /\ Stamped)
<1>1. Init => TypeOK
  BY InitIInv DEF IInv
<1>2. Init => Stamped
  BY DEF Init, Stamped
<1> QED BY <1>1, <1>2, TypeStep, StampedStep, PTL DEF Spec

\* While all nodes run and none crashes and no message is lost, every action keeps
\* Flooding: a message is consumed only by a node that has seen its record or sees
\* it now and forwards it (server.go).
LEMMA FloodingStep ==
  ASSUME NEW s \in Nodes, NEW t \in Timestamps,
         TypeOK, Stamped, Flooding(s, t), up = Nodes, Next, faults' = faults
  PROVE  Flooding(s, t)'
<1> USE NetAssumption
<1> DEFINE msg(p) == [to |-> p, server |-> s, timestamp |-> t]
<1>0. SUFFICES ASSUME timestamp'[s] >= t, NEW n \in Senders(s, t)', NEW p \in BootstrapPeers[n]
               PROVE  p \in Senders(s, t)' \/ msg(p) \in net'
  BY DEF Flooding
<1>a. n \in Nodes /\ p \in Nodes /\ t \in Nat /\ timestamp[s] \in Nat
  BY DEF Senders, TypeOK, Timestamps
<1>b. ASSUME timestamp[s] >= t, n \in Senders(s, t)
      PROVE  p \in Senders(s, t) \/ msg(p) \in net
  BY <1>b DEF Flooding
<1>1. ASSUME NEW k \in Nodes, Start(k) PROVE FALSE
  BY <1>1 DEF Start
<1>2. ASSUME NEW k \in Nodes, Announce(k)
      PROVE  p \in Senders(s, t)' \/ msg(p) \in net'
  <2>1. seen' = seen /\ net \subseteq net'
    BY <1>2 DEF Announce
  <2>2. CASE timestamp[s] >= t
    BY <1>0, <1>b, <2>1, <2>2 DEF Senders
  <2>3. CASE ~(timestamp[s] >= t)
    <3>1. k = s /\ timestamp'[s] = t
      BY <1>0, <1>a, <1>2, <2>3 DEF Announce, TypeOK
    <3>2. n = s
      BY <1>0, <1>a, <2>1, <2>3 DEF Senders, Stamped
    <3> QED BY <1>2, <3>1, <3>2 DEF Announce, Send, ActiveAddrs
  <2> QED BY <2>2, <2>3
<1>3. ASSUME NEW k \in Nodes, Crash(k) PROVE FALSE
  BY <1>3 DEF Crash, TypeOK
<1>4. ASSUME NEW m \in net, HandleNodeRecord(m)
      PROVE  p \in Senders(s, t)' \/ msg(p) \in net'
  <2>1. /\ m.to \in Nodes /\ m.server \in Nodes /\ m.timestamp \in Timestamps
        /\ m = [to |-> m.to, server |-> m.server, timestamp |-> m.timestamp]
    BY DEF TypeOK, Message
  <2>2. /\ timestamp' = timestamp
        /\ seen' = [seen EXCEPT ![m.to] = seen[m.to] \cup {<<m.server, m.timestamp>>}]
        /\ net' = (net \ {m}) \cup Send(m.to, m.server, m.timestamp)
    BY <1>4 DEF HandleNodeRecord
  <2>3. Senders(s, t) \subseteq Senders(s, t)'
    BY <2>1, <2>2 DEF Senders, TypeOK
  <2>4. CASE n \in Senders(s, t)
    <3>1. p \in Senders(s, t) \/ msg(p) \in net
      BY <1>0, <1>b, <2>2, <2>4
    <3>2. CASE m = msg(p)
      <4>1. m.to = p /\ m.server = s /\ m.timestamp = t
        BY <3>2
      <4>2. <<s, t>> \in seen'[p]
        BY <1>a, <2>2, <4>1 DEF TypeOK
      <4> QED BY <1>a, <4>2 DEF Senders
    <3>3. CASE m # msg(p)
      BY <2>2, <2>3, <3>1, <3>3
    <3> QED BY <3>2, <3>3
  <2>5. CASE n \notin Senders(s, t)
    <3>1. m.to = n /\ m.server = s /\ m.timestamp = t
      BY <1>0, <1>a, <2>1, <2>2, <2>5 DEF Senders, TypeOK
    <3> QED BY <2>2, <3>1 DEF Send, ActiveAddrs
  <2> QED BY <2>4, <2>5
<1>5. ASSUME NEW m \in net, DiscardNodeRecord(m)
      PROVE  p \in Senders(s, t)' \/ msg(p) \in net'
  <2>1. seen' = seen /\ timestamp' = timestamp /\ net' = net \ {m} /\ ~Accepts(m)
    BY <1>5 DEF DiscardNodeRecord
  <2>2. Senders(s, t)' = Senders(s, t)
    BY <2>1 DEF Senders
  <2>3. p \in Senders(s, t) \/ msg(p) \in net
    BY <1>0, <1>b, <2>1, <2>2
  <2>4. CASE m = msg(p)
    BY <1>a, <2>1, <2>2, <2>4 DEF Accepts, Senders
  <2> QED BY <2>1, <2>2, <2>3, <2>4
<1>6. ASSUME NEW m \in net, DialFails(m) PROVE FALSE
  BY <1>6 DEF DialFails, TypeOK, Message
<1>7. ASSUME NEW k \in Nodes, Listen(k)
      PROVE  p \in Senders(s, t)' \/ msg(p) \in net'
  BY <1>0, <1>b, <1>7 DEF Listen, Senders
<1>8. ASSUME NEW m \in net, SendFails(m) PROVE FALSE
  BY <1>8 DEF SendFails, TypeOK
<1> QED BY <1>1, <1>2, <1>3, <1>4, <1>5, <1>6, <1>7, <1>8 DEF Next, Deliver

\* When no message is on the way, the senders of an announced record are closed
\* under the bootstrap lists, and each of them has a record of the server.
LEMMA FloodedReach ==
  ASSUME NEW s \in Nodes, NEW t \in Timestamps,
         TypeOK, Stamped, Flooding(s, t), up = Nodes, timestamp[s] >= t, net = {}
  PROVE  \A n \in Reach[s] : records[n][s] # 0
<1>1. Senders(s, t) \in SUBSET Nodes /\ s \in Senders(s, t)
  BY DEF Senders
<1>2. Closed(Senders(s, t))
  BY DEF Flooding, Closed
<1>3. Reach[s] \subseteq Senders(s, t)
  BY <1>1, <1>2 DEF Reach, ClosedSets
<1>4. \A n \in Senders(s, t) : records[n][s] # 0
  BY DEF Senders, Stamped
<1> QED BY <1>3, <1>4

\* A step that is neither a crash nor a loss is not counted as a fault, and leaves
\* the running nodes running.
LEMMA FaultsCounted ==
  ASSUME TypeOK, [Next]_vars
  PROVE  /\ faults \in Nat
         /\ \/ faults' = faults + 1
            \/ faults' = faults /\ up \subseteq up' /\ up' \subseteq Nodes
<1>1. faults \in Nat /\ up' \subseteq Nodes
  BY NetAssumption, TypeStep DEF TypeOK
<1>2. ASSUME NEW n \in Nodes, Start(n) \/ Listen(n)
      PROVE  faults' = faults /\ up \subseteq up'
  BY <1>2 DEF Start, Listen
<1>3. ASSUME NEW n \in Nodes, Announce(n)
      PROVE  faults' = faults /\ up \subseteq up'
  BY <1>3 DEF Announce
<1>4. ASSUME NEW n \in Nodes, Crash(n)
      PROVE  faults' = faults + 1
  BY <1>4 DEF Crash
<1>5. ASSUME NEW m \in net, HandleNodeRecord(m) \/ DiscardNodeRecord(m) \/ DialFails(m)
      PROVE  faults' = faults /\ up \subseteq up'
  BY <1>5 DEF HandleNodeRecord, DiscardNodeRecord, DialFails
<1>6. ASSUME NEW m \in net, SendFails(m)
      PROVE  faults' = faults + 1
  BY <1>6 DEF SendFails
<1>7. CASE UNCHANGED vars
  BY <1>1, <1>7 DEF vars
<1> QED BY <1>1, <1>2, <1>3, <1>4, <1>5, <1>6, <1>7 DEF Next, Deliver

\* Once all nodes run, the next announcement of a server leaves no node in doubt:
\* if from then on no node crashes and no message between running nodes is lost,
\* then whenever no message is on the way every node that the bootstrap lists lead
\* to from the server has a record of it. It does not matter what crashed and what
\* was lost before, how the floods of other servers interleave with this one, or
\* that old messages arrive late (server.go handleNodeRecord, sendLine, main.go).
THEOREM FloodReachesAll ==
  ASSUME NEW s \in Nodes, NEW t \in Timestamps, NEW f \in Nat
  PROVE  Spec => []((up = Nodes /\ timestamp[s] < t /\ faults = f) =>
                      []((faults = f /\ timestamp[s] >= t /\ net = {}) =>
                           \A n \in Reach[s] : records[n][s] # 0))
<1> DEFINE Begin == up = Nodes /\ timestamp[s] < t /\ faults = f
           Inv   == faults > f \/ (faults = f /\ up = Nodes /\ Flooding(s, t))
           Ended == faults = f /\ timestamp[s] >= t /\ net = {}
           Known == \A n \in Reach[s] : records[n][s] # 0
<1>1. TypeOK /\ Begin => Inv
  BY NetAssumption DEF TypeOK, Timestamps, Flooding
<1>2. TypeOK /\ Stamped /\ Inv /\ [Next]_vars => Inv'
  <2> SUFFICES ASSUME TypeOK, Stamped, Inv, [Next]_vars PROVE Inv'
    OBVIOUS
  <2>1. /\ faults \in Nat
        /\ \/ faults' = faults + 1
           \/ faults' = faults /\ up \subseteq up' /\ up' \subseteq Nodes
    BY FaultsCounted
  <2>2. CASE faults > f \/ faults' # faults
    BY <2>1, <2>2
  <2>3. CASE faults = f /\ faults' = faults /\ Next
    <3>1. Flooding(s, t)'
      BY <2>3, FloodingStep
    <3>2. up' = Nodes
      BY <2>1, <2>3
    <3> QED BY <2>3, <3>1, <3>2
  <2>4. CASE faults = f /\ faults' = faults /\ UNCHANGED vars
    <3>1. Flooding(s, t)'
      BY <2>4 DEF vars, Flooding, Senders
    <3> QED BY <2>4, <3>1 DEF vars
  <2> QED BY <2>2, <2>3, <2>4
<1>3. TypeOK /\ Stamped /\ Inv /\ Ended => Known
  BY NetAssumption, FloodedReach DEF TypeOK
<1> HIDE DEF Begin, Inv, Ended, Known
<1>4. Spec => [](Begin => [](Ended => Known))
  BY <1>1, <1>2, <1>3, StampedInvariance, PTL DEF Spec
<1> QED BY <1>4 DEF Begin, Ended, Known
=============================================================================
