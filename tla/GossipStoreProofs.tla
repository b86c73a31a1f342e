------------------------- MODULE GossipStoreProofs -------------------------
(***************************************************************************)
(* For any number of servers and of goroutines that handle messages at the *)
(* same time: a record is forwarded at most once, an expired entry does    *)
(* not come back, and list_peers names no node that fell silent too long   *)
(* ago.                                                                    *)
(***************************************************************************)
EXTENDS GossipStore, TLAPS

\* A key that was forwarded is in the seen set: what makes ForwardedOnce inductive.
ForwardedIsSeen == \A k \in Keys : forwards[k] # 0 => k \in seen

\* A listed node has an entry and was live at the last check, which is at most
\* MaxCheckGap old: what makes ListedIsLive inductive. A goroutine about to put a
\* record carries its timestamp, and 0 is none.
LiveAtCheck ==
  /\ now # 0 /\ lastCheck <= now /\ now <= lastCheck + MaxCheckGap
  /\ \A h \in Handlers : handler[h].pc = "put" => handler[h].timestamp # 0
  /\ \A s \in Servers : active[s] =>
       records[s] # 0 /\ lastCheck <= lastSeen[s] + LivenessTimeout

IInv == TypeOK /\ ForwardedOnce /\ ForwardedIsSeen /\ LiveAtCheck

\* Cutting off the fraction of a second stays within the bounded clock (record.go).
LEMMA KeyType ==
  ASSUME NEW s \in Servers, NEW t \in Times
  PROVE  recordKey(s, t) \in Keys
<1>1. t \div TicksPerSecond \in Nat /\ t \div TicksPerSecond <= t
  <2>1. t \in Nat /\ TicksPerSecond \in Nat /\ TicksPerSecond > 0
    BY StoreAssumption DEF Times
  <2> QED BY <2>1
<1> QED BY <1>1, StoreAssumption DEF recordKey, RFC3339, Keys, Times

\* The initial store holds the own record only (main.go).
LEMMA InitIInv == Init => IInv
<1> SUFFICES ASSUME Init PROVE IInv
  OBVIOUS
<1> USE StoreAssumption
<1>1. 0 \in Times /\ 1 \in Times /\ Self \in Servers
  BY DEF Times
<1>2. recordKey(Self, 1) \in Keys
  BY <1>1, KeyType
<1>3. active \in [Servers -> BOOLEAN]
  BY Zenon DEF Init
<1>4. TypeOK
  BY <1>1, <1>2, <1>3 DEF Init, TypeOK, Idle
<1>5. LiveAtCheck
  <2>1. \A s \in Servers : active[s] => s = Self
    BY Zenon DEF Init
  <2> QED BY <2>1 DEF Init, LiveAtCheck, Idle
<1> QED BY <1>1, <1>4, <1>5 DEF Init, IInv, ForwardedOnce, ForwardedIsSeen

\* Every action keeps the types (store.go, server.go, heartbeat.go).
LEMMA TypeStep == IInv /\ [Next]_vars => TypeOK'
<1> SUFFICES ASSUME IInv, [Next]_vars PROVE TypeOK'
  OBVIOUS
<1> USE StoreAssumption
<1>0. /\ TypeOK /\ 0 \in Times
      /\ \A s \in Others : s \in Servers
  BY DEF IInv, Times, Others
<1>1. ASSUME NEW h \in Handlers, NEW r \in Record, ReceiveRecord(h, r) PROVE TypeOK'
  <2>1. r.server \in Servers /\ r.timestamp \in Times
    BY <1>0 DEF Record
  <2> QED BY <1>0, <1>1, <2>1 DEF TypeOK, ReceiveRecord, Goto
<1>2. ASSUME NEW h \in Handlers, PutRecord(h) PROVE TypeOK'
  <2> DEFINE s == handler[h].server
             t == handler[h].timestamp
  <2>1. s \in Servers /\ t \in Times
    BY <1>0 DEF TypeOK
  <2>2. recordKey(s, t) \in Keys
    BY <2>1, KeyType
  <2>3. active' \in [Servers -> BOOLEAN]
    BY <1>0, <1>2, Zenon DEF TypeOK, PutRecord, Put
  <2>4. forwards' \in [Keys -> Nat]
    BY <1>0, <1>2, <2>2 DEF TypeOK, PutRecord, Put
  <2> QED BY <1>0, <1>2, <2>1, <2>2, <2>3, <2>4 DEF TypeOK, PutRecord, Put, Finish, Idle
<1>3. ASSUME NEW h \in Handlers, PutDuplicate(h) PROVE TypeOK'
  BY <1>0, <1>3 DEF TypeOK, PutDuplicate, Finish, Idle
<1>4. ASSUME NEW h \in Handlers, NEW s \in Others, ReceiveHeartbeat(h, s) PROVE TypeOK'
  BY <1>0, <1>4 DEF TypeOK, ReceiveHeartbeat, Goto
<1>5. ASSUME NEW h \in Handlers, ApplyHeartbeat(h) PROVE TypeOK'
  <2>1. active' \in [Servers -> BOOLEAN]
    BY <1>0, <1>5, Zenon DEF TypeOK, ApplyHeartbeat, Heartbeat
  <2> QED BY <1>0, <1>5, <2>1 DEF TypeOK, ApplyHeartbeat, Heartbeat, Finish, Idle
<1>6. CASE ExpireAndCheck
  <2>1. active' \in [Servers -> BOOLEAN]
    BY <1>6, Zenon DEF ExpireAndCheck
  <2> QED BY <1>0, <1>6, <2>1 DEF TypeOK, ExpireAndCheck
<1>7. CASE Announce
  BY <1>0, <1>7 DEF TypeOK, Announce
<1>8. CASE Tick
  BY <1>0, <1>8 DEF TypeOK, Tick, Times
<1>9. CASE UNCHANGED vars
  BY <1>0, <1>9 DEF TypeOK, vars
<1> QED BY <1>1, <1>2, <1>3, <1>4, <1>5, <1>6, <1>7, <1>8, <1>9 DEF Next, Handle

\* Every action keeps the other two conjuncts. Only put changes seen and forwards,
\* and it adds the key it counts (store.go).
LEMMA ForwardStep ==
  IInv /\ [Next]_vars => ForwardedOnce' /\ ForwardedIsSeen'
<1> SUFFICES ASSUME IInv, [Next]_vars
             PROVE  ForwardedOnce' /\ ForwardedIsSeen'
  OBVIOUS
<1> USE DEF IInv, ForwardedOnce, ForwardedIsSeen
<1>0. handler \in [Handlers -> [pc : {"idle", "put", "heartbeat"}, server : Servers, timestamp : Times]]
  BY DEF TypeOK
<1>1. ASSUME NEW h \in Handlers, NEW r \in Record, ReceiveRecord(h, r)
      PROVE  ForwardedOnce' /\ ForwardedIsSeen'
  BY <1>1 DEF ReceiveRecord
<1>2. ASSUME NEW h \in Handlers, PutRecord(h)
      PROVE  ForwardedOnce' /\ ForwardedIsSeen'
  <2> DEFINE key == recordKey(handler[h].server, handler[h].timestamp)
  <2>1. /\ key \notin seen
        /\ seen' = seen \cup {key}
        /\ forwards' = [forwards EXCEPT ![key] = @ + 1]
    BY <1>2 DEF PutRecord, Put
  <2>2. key \in Keys /\ forwards \in [Keys -> Nat]
    BY <1>0, KeyType DEF TypeOK
  <2> HIDE DEF key
  <2> QED BY <2>1, <2>2
<1>3. ASSUME NEW h \in Handlers, PutDuplicate(h)
      PROVE  ForwardedOnce' /\ ForwardedIsSeen'
  BY <1>3 DEF PutDuplicate
<1>4. ASSUME NEW h \in Handlers, NEW s \in Others, ReceiveHeartbeat(h, s)
      PROVE  ForwardedOnce' /\ ForwardedIsSeen'
  BY <1>4 DEF ReceiveHeartbeat
<1>5. ASSUME NEW h \in Handlers, ApplyHeartbeat(h)
      PROVE  ForwardedOnce' /\ ForwardedIsSeen'
  BY <1>5 DEF ApplyHeartbeat
<1>6. CASE ExpireAndCheck \/ Announce \/ Tick
  BY <1>6 DEF ExpireAndCheck, Announce, Tick
<1>7. CASE UNCHANGED vars
  BY <1>7 DEF vars
<1> QED BY <1>1, <1>2, <1>3, <1>4, <1>5, <1>6, <1>7 DEF Next, Handle

\* Every action keeps a listed node live at the last check: put and heartbeat
\* stamp LastSeen with the present, expireAndCheck clears Active of the others,
\* and the clock does not pass the next check (store.go, heartbeat.go).
LEMMA LiveStep == IInv /\ [Next]_vars => LiveAtCheck'
<1> SUFFICES ASSUME IInv, [Next]_vars PROVE LiveAtCheck'
  OBVIOUS
<1> USE StoreAssumption
<1>0. TypeOK /\ LiveAtCheck /\ (\A t \in Times : t \in Nat)
  BY DEF IInv, Times
<1>1. ASSUME NEW h \in Handlers, NEW r \in Record, ReceiveRecord(h, r) PROVE LiveAtCheck'
  <2>1. r.timestamp # 0
    BY <1>1 DEF ReceiveRecord
  <2> QED BY <1>0, <1>1, <2>1 DEF TypeOK, LiveAtCheck, ReceiveRecord, Goto
<1>2. ASSUME NEW h \in Handlers, PutRecord(h) PROVE LiveAtCheck'
  <2> DEFINE s == handler[h].server
             t == handler[h].timestamp
  <2>1. s \in Servers /\ t \in Times /\ t # 0
    BY <1>0, <1>2 DEF TypeOK, LiveAtCheck, PutRecord
  <2>2. \A x \in Servers : active'[x] => x = s \/ active[x]
    BY <1>0, <1>2, Zenon DEF TypeOK, PutRecord, Put
  <2>3. /\ records' = [records EXCEPT ![s] = t]
        /\ lastSeen' = [lastSeen EXCEPT ![s] = now]
        /\ handler' = [handler EXCEPT ![h] = Idle]
        /\ now' = now /\ lastCheck' = lastCheck
    BY <1>2 DEF PutRecord, Put, Finish
  <2>4. ASSUME NEW x \in Servers, active'[x]
        PROVE  records'[x] # 0 /\ lastCheck' <= lastSeen'[x] + LivenessTimeout
    BY <1>0, <2>1, <2>2, <2>3, <2>4 DEF TypeOK, LiveAtCheck
  <2> QED BY <1>0, <2>3, <2>4 DEF TypeOK, LiveAtCheck, Idle
<1>3. ASSUME NEW h \in Handlers, PutDuplicate(h) PROVE LiveAtCheck'
  BY <1>0, <1>3 DEF TypeOK, LiveAtCheck, PutDuplicate, Finish, Idle
<1>4. ASSUME NEW h \in Handlers, NEW s \in Others, ReceiveHeartbeat(h, s) PROVE LiveAtCheck'
  BY <1>0, <1>4 DEF TypeOK, LiveAtCheck, ReceiveHeartbeat, Goto
<1>5. ASSUME NEW h \in Handlers, ApplyHeartbeat(h) PROVE LiveAtCheck'
  <2> DEFINE s == handler[h].server
  <2>1. s \in Servers
    BY <1>0 DEF TypeOK
  <2>2. \A x \in Servers : active'[x] => (x = s /\ records[s] # 0) \/ (x # s /\ active[x])
    BY <1>0, <1>5, Zenon DEF TypeOK, ApplyHeartbeat, Heartbeat
  <2>3. /\ records' = records
        /\ lastSeen' = [lastSeen EXCEPT ![s] = IF records[s] # 0 THEN now ELSE @]
        /\ handler' = [handler EXCEPT ![h] = Idle]
        /\ now' = now /\ lastCheck' = lastCheck
    BY <1>5 DEF ApplyHeartbeat, Heartbeat, Finish
  <2>4. ASSUME NEW x \in Servers, active'[x]
        PROVE  records'[x] # 0 /\ lastCheck' <= lastSeen'[x] + LivenessTimeout
    BY <1>0, <2>1, <2>2, <2>3, <2>4 DEF TypeOK, LiveAtCheck
  <2> QED BY <1>0, <2>3, <2>4 DEF TypeOK, LiveAtCheck, Idle
<1>6. CASE ExpireAndCheck
  <2>1. ASSUME NEW x \in Servers, active'[x]
        PROVE  active[x] /\ ~Expired(x) /\ now <= lastSeen[x] + LivenessTimeout
    BY <1>6, <2>1, Zenon DEF ExpireAndCheck
  <2>2. ASSUME NEW x \in Servers, active'[x]
        PROVE  records'[x] # 0 /\ lastCheck' <= lastSeen'[x] + LivenessTimeout
    BY <1>0, <1>6, <2>1, <2>2 DEF TypeOK, LiveAtCheck, ExpireAndCheck
  <2> QED BY <1>0, <1>6, <2>2 DEF TypeOK, LiveAtCheck, ExpireAndCheck
<1>7. CASE Announce
  BY <1>0, <1>7 DEF TypeOK, LiveAtCheck, Announce
<1>8. CASE Tick
  BY <1>0, <1>8 DEF TypeOK, LiveAtCheck, Tick
<1>9. CASE UNCHANGED vars
  BY <1>0, <1>9 DEF LiveAtCheck, vars
<1> QED BY <1>1, <1>2, <1>3, <1>4, <1>5, <1>6, <1>7, <1>8, <1>9 DEF Next, Handle

\* The inductive invariant holds in every reachable state.
LEMMA Invariance == Spec => []IInv
<1>1. IInv /\ [Next]_vars => IInv'
  BY TypeStep, ForwardStep, LiveStep DEF IInv
<1> QED BY InitIInv, <1>1, PTL DEF Spec

\* For any number of goroutines and servers, however the copies of a record
\* interleave, put returns true for it once: it is forwarded at most once.
THEOREM ForwardsOnce == Spec => []ForwardedOnce
<1>1. IInv => ForwardedOnce
  BY DEF IInv
<1> QED BY Invariance, <1>1, PTL

\* For any number of goroutines and servers, an entry that has expired is
\* created again only by a record that was never seen.
THEOREM ExpiredStaysExpired == Spec => NoResurrection
<1> DEFINE Step == \A s \in Others : records[s] = 0 /\ records'[s] # 0 =>
                     recordKey(s, records'[s]) \notin seen
<1>1. IInv /\ [Next]_vars => [Step]_vars
  <2> SUFFICES ASSUME IInv, Next, NEW s \in Others, records[s] = 0, records'[s] # 0
               PROVE  recordKey(s, records'[s]) \notin seen
    OBVIOUS
  <2>0. records \in [Servers -> Times] /\ s \in Servers /\ s # Self
    BY DEF IInv, TypeOK, Others
  <2>1. ASSUME NEW h \in Handlers, PutRecord(h)
        PROVE  recordKey(s, records'[s]) \notin seen
    <3>1. records' = [records EXCEPT ![handler[h].server] = handler[h].timestamp]
      BY <2>1 DEF PutRecord, Put
    <3>2. s = handler[h].server /\ records'[s] = handler[h].timestamp
      BY <2>0, <3>1
    <3> QED BY <2>1, <3>2 DEF PutRecord, Put
  <2>2. ASSUME NEW h \in Handlers, ApplyHeartbeat(h)
        PROVE  FALSE
    BY <2>2 DEF ApplyHeartbeat, Heartbeat
  <2>3. CASE ExpireAndCheck \/ Announce \/ Tick
    BY <2>0, <2>3 DEF ExpireAndCheck, Announce, Tick
  <2> QED BY <2>1, <2>2, <2>3 DEF Next, Handle, ReceiveRecord, PutDuplicate, ReceiveHeartbeat
<1> QED BY Invariance, <1>1, PTL DEF Spec, NoResurrection

\* The store and the goroutines' local variables keep their types.
THEOREM TypesPreserved == Spec => []TypeOK
<1>1. IInv => TypeOK
  BY DEF IInv
<1> QED BY Invariance, <1>1, PTL

\* For any timeouts, any gap between two checks and any number of goroutines and
\* servers, list_peers names only nodes with a record that were heard of within
\* livenessTimeout and one gap.
THEOREM ListsLiveNodes == Spec => []ListedIsLive
<1>1. IInv => ListedIsLive
  <2> SUFFICES ASSUME IInv, NEW s \in activeRecords
               PROVE  records[s] # 0 /\ now <= lastSeen[s] + LivenessTimeout + MaxCheckGap
    BY DEF ListedIsLive
  <2>1. s \in Servers /\ active[s]
    BY Zenon DEF activeRecords
  <2>2. now \in Nat /\ lastCheck \in Nat /\ lastSeen[s] \in Nat
    BY <2>1 DEF IInv, TypeOK, Times
  <2> QED BY <2>1, <2>2, StoreAssumption DEF IInv, LiveAtCheck
<1> QED BY Invariance, <1>1, PTL
=============================================================================
