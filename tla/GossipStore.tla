---------------------------- MODULE GossipStore ----------------------------
(***************************************************************************)
(* camo-gossip on one node: the record store, the goroutines that handle   *)
(* inbound messages, and the broadcaster's maintenance and announcements   *)
(* (store.go, server.go, heartbeat.go).                                    *)
(*                                                                         *)
(* Every inbound message has its own goroutine, which locks the store once *)
(* to look (isSeen, get) and once more to act (put, heartbeat): each of    *)
(* the two is an action. Messages come from validly signed records and     *)
(* heartbeats of other servers; they may be late, repeated and reordered.  *)
(* A record that fails verification or is our own is dropped without any   *)
(* effect. Servers' clocks agree, and a node is not its own bootstrap peer,*)
(* so that its own messages do not come back as heartbeats.                *)
(*                                                                         *)
(* Time is counted in ticks, several to the second: the deduplication key  *)
(* formats a timestamp with a resolution of one second.                    *)
(***************************************************************************)
EXTENDS Naturals

CONSTANTS
  Servers,         \* server ids
  Self,            \* this node
  Handlers,        \* goroutines that handle messages at the same time
  TicksPerSecond,  \* clock ticks in one second
  LivenessTimeout, \* livenessTimeout, in ticks
  RecordExpiry,    \* recordExpiry, in ticks
  MaxCheckGap,     \* longest time between two runs of expireAndCheck, in ticks
  MaxTime          \* bound: the last instant considered

ASSUME StoreAssumption ==
  /\ Self \in Servers
  /\ TicksPerSecond \in Nat \ {0}
  /\ LivenessTimeout \in Nat
  /\ RecordExpiry \in Nat
  /\ MaxCheckGap \in Nat \ {0}
  /\ MaxTime \in Nat \ {0}

VARIABLES
  now,       \* the clock
  records,   \* Record.Timestamp of the entry of a server, 0 if there is none
  lastSeen,  \* LastSeen of the entry
  active,    \* Active of the entry
  seen,      \* the deduplication keys in store.seen
  forwards,  \* how often a record with this key was handed to forwardRecord
  handler,   \* what each goroutine is about to do
  lastCheck  \* when expireAndCheck last ran, or the broadcaster was started

vars == <<now, records, lastSeen, active, seen, forwards, handler, lastCheck>>

Times  == 0 .. MaxTime
Others == Servers \ {Self}
Record == [server : Others, timestamp : Times]
Keys   == Servers \X Times

\* The timestamp formatted as RFC 3339: fractions of a second are cut off.
RFC3339(t) == t \div TicksPerSecond

recordKey(server, timestamp) == <<server, RFC3339(timestamp)>>

Idle == [pc |-> "idle", server |-> Self, timestamp |-> 0]

\* main stores the own record before any goroutine starts.
Init ==
  /\ now = 1
  /\ records  = [s \in Servers |-> IF s = Self THEN 1 ELSE 0]
  /\ lastSeen = [s \in Servers |-> IF s = Self THEN 1 ELSE 0]
  /\ active   = [s \in Servers |-> s = Self]
  /\ seen     = {recordKey(Self, 1)}
  /\ forwards = [k \in Keys |-> 0]
  /\ handler  = [h \in Handlers |-> Idle]
  /\ lastCheck = 1

Goto(h, pc, s, t) == handler' = [handler EXCEPT ![h] = [pc |-> pc, server |-> s, timestamp |-> t]]
Finish(h)         == handler' = [handler EXCEPT ![h] = Idle]

(***************************************************************************)
(* handleNodeRecord and handleHeartbeat.                                   *)
(***************************************************************************)

\* A record that is not seen yet; one that is is dropped here.
ReceiveRecord(h, r) ==
  /\ handler[h] = Idle
  /\ r.timestamp \in 1 .. now
  /\ recordKey(r.server, r.timestamp) \notin seen
  /\ Goto(h, "put", r.server, r.timestamp)
  /\ UNCHANGED <<now, records, lastSeen, active, seen, forwards, lastCheck>>

\* Mutation: put trusts the isSeen check its caller made before.
PutUnchecked(s, t) ==
  /\ seen'     = seen \cup {recordKey(s, t)}
  /\ records'  = [records EXCEPT ![s] = t]
  /\ lastSeen' = [lastSeen EXCEPT ![s] = now]
  /\ active'   = [active EXCEPT ![s] = TRUE]
  /\ forwards' = [forwards EXCEPT ![recordKey(s, t)] = @ + 1]

\* store.put, and forwardRecord when it returns true.
Put(s, t) ==
  /\ recordKey(s, t) \notin seen
  /\ seen'     = seen \cup {recordKey(s, t)}
  /\ records'  = [records EXCEPT ![s] = t]
  /\ lastSeen' = [lastSeen EXCEPT ![s] = now]
  /\ active'   = [active EXCEPT ![s] = TRUE]
  /\ forwards' = [forwards EXCEPT ![recordKey(s, t)] = @ + 1]

PutRecord(h) ==
  /\ handler[h].pc = "put"
  /\ Put(handler[h].server, handler[h].timestamp)
  /\ Finish(h)
  /\ UNCHANGED <<now, lastCheck>>

\* put returns false: another goroutine stored the record meanwhile.
PutDuplicate(h) ==
  /\ handler[h].pc = "put"
  /\ recordKey(handler[h].server, handler[h].timestamp) \in seen
  /\ Finish(h)
  /\ UNCHANGED <<now, records, lastSeen, active, seen, forwards, lastCheck>>

\* store.get finds the record the heartbeat is verified against.
ReceiveHeartbeat(h, s) ==
  /\ handler[h] = Idle
  /\ records[s] # 0
  /\ Goto(h, "heartbeat", s, 0)
  /\ UNCHANGED <<now, records, lastSeen, active, seen, forwards, lastCheck>>

\* Mutation: heartbeat brings back an entry that has expired meanwhile.
HeartbeatRestores(s) ==
  /\ records'  = [records EXCEPT ![s] = IF @ = 0 THEN 1 ELSE @]
  /\ lastSeen' = [lastSeen EXCEPT ![s] = now]
  /\ active'   = [active EXCEPT ![s] = TRUE]

\* store.heartbeat
Heartbeat(s) ==
  /\ lastSeen' = [lastSeen EXCEPT ![s] = IF records[s] # 0 THEN now ELSE @]
  /\ active'   = [active EXCEPT ![s] = records[s] # 0]
  /\ UNCHANGED records

ApplyHeartbeat(h) ==
  /\ handler[h].pc = "heartbeat"
  /\ Heartbeat(handler[h].server)
  /\ Finish(h)
  /\ UNCHANGED <<now, seen, forwards, lastCheck>>

(***************************************************************************)
(* The broadcaster goroutine, and time.                                    *)
(***************************************************************************)
Expired(s) == records[s] # 0 /\ now > records[s] + RecordExpiry

\* Mutation: liveness is judged by the age of the record, as expiry is.
CheckRecordAge ==
  /\ records'  = [s \in Servers |-> IF Expired(s) THEN 0 ELSE records[s]]
  /\ lastSeen' = [s \in Servers |-> IF Expired(s) THEN 0 ELSE lastSeen[s]]
  /\ active'   = [s \in Servers |-> /\ active[s] /\ ~Expired(s)
                                    /\ now <= records[s] + LivenessTimeout]
  /\ lastCheck' = now
  /\ UNCHANGED <<now, seen, forwards, handler>>

ExpireAndCheck ==
  /\ records'  = [s \in Servers |-> IF Expired(s) THEN 0 ELSE records[s]]
  /\ lastSeen' = [s \in Servers |-> IF Expired(s) THEN 0 ELSE lastSeen[s]]
  /\ active'   = [s \in Servers |-> /\ active[s] /\ ~Expired(s)
                                    /\ now <= lastSeen[s] + LivenessTimeout]
  /\ lastCheck' = now
  /\ UNCHANGED <<now, seen, forwards, handler>>

\* Mutation: the record is stamped with the time at which it expires.
AnnounceExpiry ==
  /\ records' = [records EXCEPT ![Self] = IF @ = 0 THEN 0 ELSE now + RecordExpiry]
  /\ UNCHANGED <<now, lastSeen, active, seen, forwards, handler, lastCheck>>

\* announce changes the timestamp of the record the store's own entry points
\* to; it calls neither put nor heartbeat.
Announce ==
  /\ records' = [records EXCEPT ![Self] = IF @ = 0 THEN 0 ELSE now]
  /\ UNCHANGED <<now, lastSeen, active, seen, forwards, handler, lastCheck>>

\* The goroutine that runs expireAndCheck also sends to the peers, one after
\* the other: the gap is expiryCheckInterval and the longest such round.
Tick ==
  /\ now < MaxTime /\ now < lastCheck + MaxCheckGap
  /\ now' = now + 1
  /\ UNCHANGED <<records, lastSeen, active, seen, forwards, handler, lastCheck>>

\* What list_peers answers, the candidates of camo-circuit: store.activeRecords.
activeRecords == {s \in Servers : active[s]}

Handle(h) ==
  \/ \E r \in Record : ReceiveRecord(h, r)
  \/ PutRecord(h) \/ PutDuplicate(h)
  \/ \E s \in Others : ReceiveHeartbeat(h, s)
  \/ ApplyHeartbeat(h)

Next == (\E h \in Handlers : Handle(h)) \/ ExpireAndCheck \/ Announce \/ Tick

Spec == Init /\ [][Next]_vars

-----------------------------------------------------------------------------
(***************************************************************************)
(* Properties.                                                             *)
(***************************************************************************)

\* Types of the store's fields and of the goroutines' local variables.
TypeOK ==
  /\ now \in Times
  /\ records \in [Servers -> Times]
  /\ lastSeen \in [Servers -> Times]
  /\ active \in [Servers -> BOOLEAN]
  /\ seen \subseteq Keys
  /\ forwards \in [Keys -> Nat]
  /\ handler \in [Handlers -> [pc : {"idle", "put", "heartbeat"},
                               server : Servers, timestamp : Times]]
  /\ lastCheck \in Times

\* However many copies of a record arrive and are handled at the same time, it
\* is forwarded at most once: the flood of a record ends (server.go, the check
\* before put and the one inside it).
ForwardedOnce == \A k \in Keys : forwards[k] <= 1

\* An entry that expired is gone for good: neither a heartbeat whose goroutine
\* looked the record up before, nor a late copy of the record brings it back;
\* only an announcement never seen does (server.go, store.go).
NoResurrection ==
  [][\A s \in Others : records[s] = 0 /\ records'[s] # 0 =>
       recordKey(s, records'[s]) \notin seen]_vars

\* camo-circuit is never given a node that has been silent for longer than
\* livenessTimeout and one gap between checks, nor one whose record is gone,
\* however heartbeats, late records and the two kinds of expiry interleave
\* (store.go, heartbeat and expireAndCheck; the own entry is subject to it too).
ListedIsLive ==
  \A s \in activeRecords :
    records[s] # 0 /\ now <= lastSeen[s] + LivenessTimeout + MaxCheckGap

=============================================================================
