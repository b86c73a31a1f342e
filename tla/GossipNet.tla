----------------------------- MODULE GossipNet -----------------------------
(***************************************************************************)
(* The flooding of node records between the camo-gossip nodes (main.go,    *)
(* server.go, peer.go, heartbeat.go). What happens inside one node, with   *)
(* heartbeats, expiry and concurrent handlers, is module GossipStore; here *)
(* a handler is one step and a store is what it knows and has seen.        *)
(*                                                                         *)
(* A message is one connection: messages to the same node overtake each    *)
(* other. sendLine reports no error, so a message is lost when it is sent  *)
(* to a node that does not listen yet, and may be lost between two running *)
(* nodes as well. A node adds the remote address of every inbound connection to its peers, but that   *)
(* is the ephemeral port of a connection that is about to close: nothing   *)
(* listens there, so the peers a message can reach are the configured      *)
(* bootstrap peers, and the exclusion of the sender never applies to them. *)
(***************************************************************************)
EXTENDS Naturals, FiniteSets

CONSTANTS
  Nodes,
  BootstrapPeers,  \* the configured bootstrap peers of each node
  MaxTimestamp,    \* bound: records a node announces
  MaxFaults        \* bound: crashes, and messages lost between running nodes

ASSUME NetAssumption ==
  /\ BootstrapPeers \in [Nodes -> SUBSET Nodes]
  /\ MaxTimestamp \in Nat \ {0}
  /\ MaxFaults \in Nat

VARIABLES
  starting,   \* the nodes that have announced themselves and do not listen yet
  up,         \* the nodes that listen
  timestamp,  \* timestamp of the latest own record of a node, 0 before the first
  records,    \* per node: timestamp of the record stored for each server, 0 if none
  seen,       \* per node: the (server, timestamp) keys it has seen
  net,        \* messages on the way
  faults      \* crashes, and messages lost between running nodes, so far

vars == <<starting, up, timestamp, records, seen, net, faults>>

Timestamps == 0 .. MaxTimestamp
Message == [to : Nodes, server : Nodes, timestamp : Timestamps]

NoRecords == [s \in Nodes |-> 0]

Init ==
  /\ starting = {}
  /\ up = {}
  /\ timestamp = [n \in Nodes |-> 0]
  /\ records   = [n \in Nodes |-> NoRecords]
  /\ seen      = [n \in Nodes |-> {}]
  /\ net = {}
  /\ faults = 0

\* The addresses in activeAddrs at which a node listens.
ActiveAddrs(n) == BootstrapPeers[n]

\* sendLine to each of n's peers.
Send(n, s, t) == {[to |-> p, server |-> s, timestamp |-> t] : p \in ActiveAddrs(n)}

\* main: store the own record and announce it to the bootstrap peers.
Start(n) ==
  /\ n \notin starting \cup up
  /\ timestamp[n] < MaxTimestamp
  /\ starting' = starting \cup {n}
  /\ timestamp' = [timestamp EXCEPT ![n] = @ + 1]
  /\ records' = [records EXCEPT ![n] = [NoRecords EXCEPT ![n] = timestamp'[n]]]
  /\ seen' = [seen EXCEPT ![n] = {<<n, timestamp'[n]>>}]
  /\ net' = net \cup Send(n, n, timestamp'[n])
  /\ UNCHANGED <<up, faults>>

\* main: go srv.listen(), go bc.run(), when every announcement has been sent.
Listen(n) ==
  /\ n \in starting
  /\ starting' = starting \ {n}
  /\ up' = up \cup {n}
  /\ UNCHANGED <<timestamp, records, seen, net, faults>>

\* Mutation: announce updates the record and sends it to nobody.
AnnounceNothing(n) ==
  /\ n \in up
  /\ timestamp[n] < MaxTimestamp
  /\ timestamp' = [timestamp EXCEPT ![n] = @ + 1]
  /\ records' = [records EXCEPT ![n][n] = timestamp'[n]]
  /\ UNCHANGED <<starting, up, seen, net, faults>>

\* Mutation: the announced record is stamped later than the stored one.
AnnounceAhead(n) ==
  /\ n \in up
  /\ timestamp[n] < MaxTimestamp
  /\ timestamp' = [timestamp EXCEPT ![n] = @ + 1]
  /\ records' = [records EXCEPT ![n][n] = timestamp'[n]]
  /\ net' = net \cup Send(n, n, timestamp'[n] + 1)
  /\ UNCHANGED <<starting, up, seen, faults>>

\* broadcaster.announce
Announce(n) ==
  /\ n \in up
  /\ timestamp[n] < MaxTimestamp
  /\ timestamp' = [timestamp EXCEPT ![n] = @ + 1]
  /\ records' = [records EXCEPT ![n][n] = timestamp'[n]]
  /\ net' = net \cup Send(n, n, timestamp'[n])
  /\ UNCHANGED <<starting, up, seen, faults>>

\* Mutation: duplicates are not recognised.
AcceptsSeenToo(m) == m.server # m.to

\* handleNodeRecord stores and forwards a record of another server not seen yet.
Accepts(m) == m.server # m.to /\ <<m.server, m.timestamp>> \notin seen[m.to]

\* Mutation: a node answers with its own record.
ReplyToo(m) ==
  /\ m \in net
  /\ m.to \in up
  /\ Accepts(m)
  /\ records' = [records EXCEPT ![m.to][m.server] = m.timestamp]
  /\ seen' = [seen EXCEPT ![m.to] = @ \cup {<<m.server, m.timestamp>>}]
  /\ net' = (net \ {m}) \cup Send(m.to, m.server, m.timestamp)
              \cup {[to |-> m.server, server |-> m.to, timestamp |-> timestamp[m.to]]}
  /\ UNCHANGED <<starting, up, timestamp, faults>>

HandleNodeRecord(m) ==
  /\ m \in net
  /\ m.to \in up
  /\ Accepts(m)
  /\ records' = [records EXCEPT ![m.to][m.server] = m.timestamp]
  /\ seen' = [seen EXCEPT ![m.to] = @ \cup {<<m.server, m.timestamp>>}]
  /\ net' = (net \ {m}) \cup Send(m.to, m.server, m.timestamp)
  /\ UNCHANGED <<starting, up, timestamp, faults>>

\* The own record, or a duplicate.
DiscardNodeRecord(m) ==
  /\ m \in net
  /\ m.to \in up
  /\ ~Accepts(m)
  /\ net' = net \ {m}
  /\ UNCHANGED <<starting, up, timestamp, records, seen, faults>>

\* Nobody listens: net.Dial fails, sendLine returns, and nothing tries again.
DialFails(m) ==
  /\ m \in net
  /\ m.to \notin up
  /\ net' = net \ {m}
  /\ UNCHANGED <<starting, up, timestamp, records, seen, faults>>

\* The dial or the Write to a node that listens fails; sendLine ignores the one
\* error like the other.
SendFails(m) ==
  /\ m \in net
  /\ m.to \in up
  /\ faults < MaxFaults
  /\ faults' = faults + 1
  /\ net' = net \ {m}
  /\ UNCHANGED <<starting, up, timestamp, records, seen>>

\* The store is in memory; only the key pair, and so the server id, persists.
Crash(n) ==
  /\ n \in starting \cup up
  /\ faults < MaxFaults
  /\ faults' = faults + 1
  /\ starting' = starting \ {n}
  /\ up' = up \ {n}
  /\ records' = [records EXCEPT ![n] = NoRecords]
  /\ seen' = [seen EXCEPT ![n] = {}]
  /\ UNCHANGED <<timestamp, net>>

Deliver == \E m \in net : HandleNodeRecord(m) \/ DiscardNodeRecord(m) \/ DialFails(m)

Next ==
  \/ \E n \in Nodes : Start(n) \/ Listen(n) \/ Announce(n) \/ Crash(n)
  \/ Deliver
  \/ \E m \in net : SendFails(m)

Spec == Init /\ [][Next]_vars

\* Processes are started and come to listen, the announce ticker fires, and as
\* long as messages are on the way one is handled or its dial fails: the
\* operating system ends a dial that is not answered, so no goroutine is blocked
\* for ever. A send between running nodes never has to fail.
Fairness ==
  /\ \A n \in Nodes : WF_vars(Start(n)) /\ WF_vars(Listen(n)) /\ WF_vars(Announce(n))
  /\ WF_vars(Deliver)

FairSpec == Spec /\ Fairness

-----------------------------------------------------------------------------
(***************************************************************************)
(* Properties.                                                             *)
(***************************************************************************)

\* Types of the nodes' stores and of the messages.
TypeOK ==
  /\ starting \subseteq Nodes
  /\ up \subseteq Nodes
  /\ timestamp \in [Nodes -> Timestamps]
  /\ records \in [Nodes -> [Nodes -> Timestamps]]
  /\ seen \in [Nodes -> SUBSET (Nodes \X Timestamps)]
  /\ net \subseteq Message
  /\ faults \in 0 .. MaxFaults

\* A set of nodes that names no bootstrap peer outside of it.
Closed(S) == \A n \in S : BootstrapPeers[n] \subseteq S
ClosedSets == {S \in SUBSET Nodes : Closed(S)}

\* Who can learn of a server is settled by the bootstrap lists: a record never
\* leaves a set of nodes that contains its server and every bootstrap peer of
\* its members, whatever connections are made (server.go, peer.go).
RecordsFollowBootstrap ==
  \A S \in ClosedSets : \A s \in S, n \in Nodes \ S : records[n][s] = 0

\* The nodes a record of a server is flooded to.
Reach == [s \in Nodes |-> {n \in Nodes : \A S \in ClosedSets : s \in S => n \in S}]

\* Every server is known to the nodes that the bootstrap lists lead to from it.
ReachKnown == \A s \in Nodes : \A n \in Reach[s] : records[n][s] # 0

\* All nodes run, and each is going to announce its record once more.
AllRunning == up = Nodes /\ \A n \in Nodes : timestamp[n] < MaxTimestamp

\* Once all nodes run, the next announcements make every server known wherever
\* the bootstrap lists lead to from it, whatever was lost or crashed before:
\* nodes start in any order, and the dials to those that did not listen yet
\* failed. Only a crash or a loss after that excuses the network, because
\* nothing is sent again (main.go, server.go sendLine, handleNodeRecord).
Discovery ==
  \A f \in 0 .. MaxFaults : (AllRunning /\ faults = f) ~> (ReachKnown \/ faults > f)

\* The flood of finitely many announcements ends, though the bootstrap lists
\* may form cycles and a restarted node has forgotten what it has seen
\* (server.go, the deduplication).
FloodEnds == <>[](net = {})

=============================================================================
