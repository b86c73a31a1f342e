----------------------- MODULE CircuitRotationProofs -----------------------
(***************************************************************************)
(* Proofs about CircuitRotation, for any devices, tokens, servers, keys    *)
(* and hop sets: the types, the agreement of the store's two maps, that    *)
(* only circuits that are out of the store are torn down, each once, and   *)
(* that no rotation ever adds a peer.                                      *)
(*                                                                         *)
(* IndexConsistent is inductive only together with the fact that the token *)
(* of a circuit that is being rotated in is not yet in the index.          *)
(* OldCircuitGone needs the history of a circuit on its way from the       *)
(* snapshot through a rotation to its teardown: at every stage at most one *)
(* of these refers to it, and the store has it at most for its device.     *)
(***************************************************************************)
EXTENDS CircuitRotation, TLAPS

\* The token of a circuit under construction is not in the index.
JobFresh == \A j \in job : byToken[j.new.token] = NoCircuit

IInv == TypeOK /\ IndexConsistent /\ JobFresh

\* The circuits of the snapshot have different tokens, and the store has one of
\* them, if at all, for its device.
SnapshotOnce ==
  /\ \A c, e \in todo : c.token = e.token => c = e
  /\ \A c \in todo, d \in Devices :
       circuits[d] # NoCircuit /\ circuits[d].token = c.token => d = c.imsi

\* The circuit that is being rotated out has left the snapshot and has no teardown
\* yet, the new one is of the same device and nobody else's, and the store has the
\* old one, if at all, for its device.
JobOnce ==
  \A j \in job :
    /\ j.new.imsi = j.old.imsi /\ j.new.token # j.old.token
    /\ \A c \in todo : c.token # j.old.token /\ c.token # j.new.token
    /\ \A td \in teardowns : td.old # j.old.token /\ td.old # j.new.token
    /\ \A d \in Devices :
         circuits[d] # NoCircuit /\ circuits[d].token = j.old.token => d = j.old.imsi

RInv == SnapshotOnce /\ JobOnce /\ OldCircuitGone

-----------------------------------------------------------------------------

\* newSessionToken returns a token that no circuit in the system has, so one
\* that is not in the index either.
LEMMA FreshToken ==
  ASSUME TypeOK, IndexConsistent, Fresh # {}
  PROVE  /\ newSessionToken \in Tokens
         /\ byToken[newSessionToken] = NoCircuit
         /\ newSessionToken \notin InUse
         /\ \A j \in job : j.new.token # newSessionToken
<1>1. newSessionToken \in Tokens /\ newSessionToken \notin InUse
  <2>1. \E t \in Tokens : t \in Fresh
    BY DEF Fresh
  <2>2. newSessionToken \in Tokens /\ newSessionToken \in Fresh
    BY <2>1 DEF newSessionToken
  <2> QED
    BY <2>2 DEF Fresh
<1>2. byToken[newSessionToken] = NoCircuit
  <2>1. SUFFICES ASSUME byToken[newSessionToken] # NoCircuit
                 PROVE  FALSE
    OBVIOUS
  <2> DEFINE c == byToken[newSessionToken]
  <2>2. c.token = newSessionToken /\ circuits[c.imsi] = c /\ c \in Circuit
    BY <1>1, <2>1 DEF TypeOK, IndexConsistent
  <2>3. c.imsi \in Devices
    BY <2>2 DEF Circuit
  <2>4. c \in Stored
    BY <2>1, <2>2, <2>3 DEF Stored
  <2> QED
    BY <1>1, <2>2, <2>4 DEF InUse
<1>3. \A j \in job : j.new.token # newSessionToken
  BY <1>1 DEF InUse
<1> QED
  BY <1>1, <1>2, <1>3

\* put keeps the two maps in agreement when the token is new.
LEMMA PutKeepsIndex ==
  ASSUME TypeOK, IndexConsistent,
         NEW c \in Circuit, byToken[c.token] = NoCircuit, PutCircuit(c)
  PROVE  /\ circuits' \in [Devices -> Circuit \cup {NoCircuit}]
         /\ byToken' \in [Tokens -> Circuit \cup {NoCircuit}]
         /\ IndexConsistent'
<1>1. c.imsi \in Devices /\ c.token \in Tokens /\ c # NoCircuit
  BY RotationAssumption DEF Circuit
<1>2. circuits' \in [Devices -> Circuit \cup {NoCircuit}]
  BY <1>1 DEF PutCircuit, TypeOK
<1>3. byToken' \in [Tokens -> Circuit \cup {NoCircuit}]
  BY <1>1 DEF PutCircuit, TypeOK
<1>4. ASSUME NEW d \in Devices, circuits'[d] # NoCircuit
      PROVE  circuits'[d].imsi = d /\ byToken'[circuits'[d].token] = circuits'[d]
  <2>1. CASE d = c.imsi
    BY <1>1, <2>1 DEF PutCircuit, TypeOK
  <2>2. CASE d # c.imsi
    <3> DEFINE e == circuits[d]
    <3>1. circuits'[d] = e
      BY <1>1, <2>2 DEF PutCircuit, TypeOK
    <3>2. e # NoCircuit /\ e \in Circuit /\ e.imsi = d /\ byToken[e.token] = e
      BY <1>4, <3>1 DEF IndexConsistent, TypeOK
    <3>3. e.token \in Tokens /\ e.token # c.token
      BY <3>2 DEF Circuit
    <3>4. circuits[c.imsi] # NoCircuit => circuits[c.imsi].token # e.token
      BY <1>1, <2>2, <3>2 DEF IndexConsistent
    <3>5. byToken'[e.token] = e
      BY <3>2, <3>3, <3>4 DEF PutCircuit
    <3> QED
      BY <3>1, <3>2, <3>5
  <2> QED
    BY <2>1, <2>2
<1>5. ASSUME NEW t \in Tokens, byToken'[t] # NoCircuit
      PROVE  byToken'[t].token = t /\ circuits'[byToken'[t].imsi] = byToken'[t]
  <2>1. CASE t = c.token
    BY <1>1, <2>1 DEF PutCircuit, TypeOK
  <2>2. CASE t # c.token
    <3> DEFINE e == byToken[t]
    <3>1. byToken'[t] = e /\ e # NoCircuit
      BY <1>5, <2>2 DEF PutCircuit
    <3>2. ~(circuits[c.imsi] # NoCircuit /\ t = circuits[c.imsi].token)
      BY <1>5, <2>2 DEF PutCircuit
    <3>3. e \in Circuit /\ e.token = t /\ circuits[e.imsi] = e
      BY <3>1 DEF IndexConsistent, TypeOK
    <3>4. e.imsi \in Devices /\ e.imsi # c.imsi
      BY <3>1, <3>2, <3>3 DEF Circuit
    <3>5. circuits'[e.imsi] = e
      BY <1>1, <3>3, <3>4 DEF PutCircuit, TypeOK
    <3> QED
      BY <3>1, <3>3, <3>5
  <2> QED
    BY <2>1, <2>2
<1> QED
  BY <1>2, <1>3, <1>4, <1>5 DEF IndexConsistent

\* remove keeps the two maps in agreement.
LEMMA RemoveKeepsIndex ==
  ASSUME TypeOK, IndexConsistent, NEW d \in Devices, RemoveCircuit(d)
  PROVE  /\ circuits' \in [Devices -> Circuit \cup {NoCircuit}]
         /\ byToken' \in [Tokens -> Circuit \cup {NoCircuit}]
         /\ IndexConsistent'
         /\ \A t \in Tokens : byToken[t] = NoCircuit => byToken'[t] = NoCircuit
<1> DEFINE c == circuits[d]
<1>1. c \in Circuit /\ c.imsi = d /\ byToken[c.token] = c /\ c.token \in Tokens
  BY DEF RemoveCircuit, TypeOK, IndexConsistent, Circuit
<1>2. /\ circuits' \in [Devices -> Circuit \cup {NoCircuit}]
      /\ byToken' \in [Tokens -> Circuit \cup {NoCircuit}]
      /\ \A t \in Tokens : byToken[t] = NoCircuit => byToken'[t] = NoCircuit
  BY <1>1 DEF RemoveCircuit, TypeOK
<1>3. ASSUME NEW e \in Devices, circuits'[e] # NoCircuit
      PROVE  circuits'[e].imsi = e /\ byToken'[circuits'[e].token] = circuits'[e]
  <2>1. e # d /\ circuits'[e] = circuits[e]
    BY <1>3 DEF RemoveCircuit, TypeOK
  <2>2. circuits[e] \in Circuit /\ circuits[e].imsi = e
           /\ byToken[circuits[e].token] = circuits[e] /\ circuits[e].token \in Tokens
    BY <1>3, <2>1 DEF TypeOK, IndexConsistent, Circuit
  <2>3. circuits[e].token # c.token
    BY <1>1, <2>1, <2>2
  <2> QED
    BY <1>1, <2>1, <2>2, <2>3 DEF RemoveCircuit, TypeOK
<1>4. ASSUME NEW t \in Tokens, byToken'[t] # NoCircuit
      PROVE  byToken'[t].token = t /\ circuits'[byToken'[t].imsi] = byToken'[t]
  <2>1. t # c.token /\ byToken'[t] = byToken[t]
    BY <1>1, <1>4 DEF RemoveCircuit, TypeOK
  <2>2. byToken[t] \in Circuit /\ byToken[t].token = t
           /\ circuits[byToken[t].imsi] = byToken[t] /\ byToken[t].imsi \in Devices
    BY <1>4, <2>1 DEF TypeOK, IndexConsistent, Circuit
  <2>3. byToken[t].imsi # d
    BY <2>1, <2>2
  <2> QED
    BY <2>1, <2>2, <2>3 DEF RemoveCircuit, TypeOK
<1> QED
  BY <1>2, <1>3, <1>4 DEF IndexConsistent

-----------------------------------------------------------------------------

\* What Build returns when a token is free.
LEMMA BuildIsCircuit ==
  ASSUME IInv, Fresh # {}, NEW d \in Devices, NEW hops \in HopSets
  PROVE  /\ Build(d, hops) \in Circuit
         /\ Build(d, hops).imsi = d
         /\ Build(d, hops).hops = hops
         /\ byToken[Build(d, hops).token] = NoCircuit
         /\ Build(d, hops).token \notin InUse
         /\ \A j \in job : j.new.token # Build(d, hops).token
<1>1. /\ newSessionToken \in Tokens
      /\ byToken[newSessionToken] = NoCircuit
      /\ newSessionToken \notin InUse
      /\ \A j \in job : j.new.token # newSessionToken
  BY FreshToken DEF IInv
<1>2. hops \in SUBSET Hop
  BY RotationAssumption
<1> QED
  BY <1>1, <1>2 DEF Build, Circuit

\* put of a circuit whose token is not in the index.
LEMMA PutKeepsInv ==
  ASSUME IInv, NEW c \in Circuit, byToken[c.token] = NoCircuit, PutCircuit(c)
  PROVE  /\ circuits' \in [Devices -> Circuit \cup {NoCircuit}]
         /\ byToken' \in [Tokens -> Circuit \cup {NoCircuit}]
         /\ IndexConsistent'
         /\ \A t \in Tokens : t # c.token /\ byToken[t] = NoCircuit =>
               byToken'[t] = NoCircuit
<1>1. TypeOK /\ IndexConsistent
  BY DEF IInv
<1>2. /\ circuits' \in [Devices -> Circuit \cup {NoCircuit}]
      /\ byToken' \in [Tokens -> Circuit \cup {NoCircuit}]
      /\ IndexConsistent'
  BY <1>1, PutKeepsIndex
<1>3. \A t \in Tokens : t # c.token /\ byToken[t] = NoCircuit => byToken'[t] = NoCircuit
  BY DEF PutCircuit
<1> QED
  BY <1>2, <1>3

\* The invariant holds initially.
LEMMA InitInv == Init => IInv
  BY RotationAssumption
  DEF Init, WGInit, IInv, TypeOK, IndexConsistent, JobFresh

\* Every step keeps the invariant.
LEMMA NextInv == IInv /\ [Next]_vars => IInv'
<1>1. SUFFICES ASSUME IInv, [Next]_vars PROVE IInv'
  OBVIOUS
<1>2. ASSUME NEW d \in Devices, SessionCreated(d) PROVE IInv'
  <2>1. PICK hops \in HopSets : PutCircuit(Build(d, hops))
    BY <1>2 DEF SessionCreated
  <2> DEFINE c == Build(d, hops)
  <2>2. /\ c \in Circuit /\ c.hops = hops
        /\ byToken[c.token] = NoCircuit
        /\ \A j \in job : j.new.token # c.token
    BY <1>1, <1>2, BuildIsCircuit DEF SessionCreated
  <2> HIDE DEF c
  <2>4. /\ circuits' \in [Devices -> Circuit \cup {NoCircuit}]
        /\ byToken' \in [Tokens -> Circuit \cup {NoCircuit}]
        /\ IndexConsistent'
        /\ \A t \in Tokens : t # c.token /\ byToken[t] = NoCircuit => byToken'[t] = NoCircuit
    BY <1>1, <2>1, <2>2, PutKeepsInv DEF c
  <2>5. TypeOK'
    BY <1>1, <1>2, <2>4 DEF IInv, TypeOK, SessionCreated, ForgetDue, rotationVars, wgVars
  <2>6. JobFresh'
    <3>1. job' = job /\ \A j \in job : j.new.token \in Tokens
      BY <1>1, <1>2 DEF IInv, TypeOK, Job, Circuit, SessionCreated, rotationVars
    <3> QED
      BY <1>1, <2>2, <2>4, <3>1 DEF IInv, JobFresh
  <2> QED
    BY <2>4, <2>5, <2>6 DEF IInv
<1>3. ASSUME NEW d \in Devices, SessionTerminated(d) PROVE IInv'
  <2>1. TypeOK /\ IndexConsistent /\ RemoveCircuit(d)
    BY <1>1, <1>3 DEF IInv, SessionTerminated
  <2>2. /\ circuits' \in [Devices -> Circuit \cup {NoCircuit}]
        /\ byToken' \in [Tokens -> Circuit \cup {NoCircuit}]
        /\ IndexConsistent'
        /\ \A t \in Tokens : byToken[t] = NoCircuit => byToken'[t] = NoCircuit
    BY <2>1, RemoveKeepsIndex
  <2>3. TypeOK'
    BY <1>1, <1>3, <2>2 DEF IInv, TypeOK, SessionTerminated, ForgetDue, rotationVars, wgVars
  <2>4. JobFresh'
    BY <1>1, <1>3, <2>2
    DEF IInv, TypeOK, JobFresh, Job, Circuit, SessionTerminated, rotationVars
  <2> QED
    BY <2>2, <2>3, <2>4 DEF IInv
<1>4. ASSUME CheckRotations PROVE IInv'
  <2>1. /\ todo' = Stored /\ job' = job /\ due' = due
        /\ UNCHANGED <<storeVars, teardowns, failures, sessions, expiries, wgVars>>
    BY <1>4 DEF CheckRotations
  <2>2. Stored \subseteq Circuit
    BY <1>1 DEF IInv, TypeOK, Stored
  <2> QED
    BY <1>1, <2>1, <2>2
    DEF IInv, TypeOK, IndexConsistent, JobFresh, storeVars, wgVars
<1>5. ASSUME NEW c \in todo, NotDue(c) \/ RotateFails(c) PROVE IInv'
  <2>1. /\ todo' = todo \ {c} /\ job' = job /\ due' \subseteq due
        /\ failures' \in {failures, failures + 1}
        /\ UNCHANGED <<storeVars, teardowns, sessions, expiries, wgVars>>
    BY <1>5 DEF NotDue, RotateFails, ForgetDue
  <2> QED
    BY <1>1, <2>1
    DEF IInv, TypeOK, IndexConsistent, JobFresh, storeVars, wgVars
<1>6. ASSUME NEW c \in todo, RotateBuilds(c) PROVE IInv'
  <2>1. PICK hops \in HopSets :
          job' = {[old |-> c, new |-> Build(c.imsi, hops), left |-> hops]}
    BY <1>6 DEF RotateBuilds
  <2>2. c \in Circuit /\ c.imsi \in Devices
    BY <1>1 DEF IInv, TypeOK, Circuit
  <2> DEFINE new == Build(c.imsi, hops)
  <2>3. new \in Circuit /\ new.hops = hops /\ byToken[new.token] = NoCircuit
    BY <1>1, <1>6, <2>2, BuildIsCircuit DEF RotateBuilds
  <2> HIDE DEF new
  <2>4. hops \in SUBSET Hop
    BY RotationAssumption
  <2>5. job' = {[old |-> c, new |-> new, left |-> hops]}
    BY <2>1 DEF new
  <2>6. /\ todo' = todo \ {c} /\ due' \subseteq due
        /\ UNCHANGED <<storeVars, teardowns, failures, sessions, expiries, wgVars>>
    BY <1>6 DEF RotateBuilds, ForgetDue
  <2>7. TypeOK'
    <3>1. job' \subseteq Job /\ \A i, j \in job' : i = j
      BY <2>2, <2>3, <2>4, <2>5 DEF Job
    <3> QED
      BY <1>1, <2>6, <3>1 DEF IInv, TypeOK, storeVars, wgVars
  <2>8. IndexConsistent'
    BY <1>1, <2>6 DEF IInv, IndexConsistent, storeVars
  <2>9. JobFresh'
    BY <2>3, <2>5, <2>6 DEF JobFresh, storeVars
  <2> QED
    BY <2>7, <2>8, <2>9 DEF IInv
<1>7. ASSUME NEW j \in job, NEW h \in j.left, AddWGPeer(j, h) PROVE IInv'
  <2>1. j \in Job /\ h \in Hop /\ h.key \in WGKeys
    BY <1>1 DEF IInv, TypeOK, Job, Hop
  <2>2. /\ job' = {[j EXCEPT !.left = j.left \ {h}]}
        /\ UNCHANGED <<storeVars, due, todo, teardowns, failures, sessions, expiries>>
    BY <1>7 DEF AddWGPeer
  <2>3. [j EXCEPT !.left = j.left \ {h}] \in Job
          /\ [j EXCEPT !.left = j.left \ {h}].new = j.new
    BY <2>1 DEF Job
  <2>4. wgPeers' \subseteq WGKeys /\ wgRunning' \in BOOLEAN
    BY <1>1, <1>7, <2>1 DEF IInv, TypeOK, AddWGPeer, AddPeer
  <2>5. TypeOK'
    BY <1>1, <2>2, <2>3, <2>4 DEF IInv, TypeOK, storeVars
  <2>6. IndexConsistent'
    BY <1>1, <2>2 DEF IInv, IndexConsistent, storeVars
  <2>7. JobFresh'
    BY <1>1, <2>2, <2>3 DEF IInv, JobFresh, storeVars
  <2> QED
    BY <2>5, <2>6, <2>7 DEF IInv
<1>8. ASSUME NEW j \in job, RotatePuts(j) PROVE IInv'
  <2> DEFINE td == [old |-> j.old.token, new |-> j.new.hops, left |-> j.old.hops]
  <2>1. /\ j.new \in Circuit /\ j.new.hops \subseteq Hop
        /\ j.old.token \in Tokens /\ j.old.hops \subseteq Hop
        /\ byToken[j.new.token] = NoCircuit
    BY <1>1 DEF IInv, TypeOK, JobFresh, Job, Circuit
  <2>2. /\ PutCircuit(j.new) /\ job' = {} /\ teardowns' = teardowns \cup {td}
        /\ due' \subseteq due
        /\ UNCHANGED <<todo, failures, sessions, expiries, wgVars>>
    BY <1>8 DEF RotatePuts, ForgetDue
  <2>3. /\ circuits' \in [Devices -> Circuit \cup {NoCircuit}]
        /\ byToken' \in [Tokens -> Circuit \cup {NoCircuit}]
        /\ IndexConsistent'
    BY <1>1, <2>1, <2>2, PutKeepsInv
  <2>4. td \in Teardown
    BY <2>1 DEF Teardown
  <2>5. TypeOK'
    BY <1>1, <2>2, <2>3, <2>4 DEF IInv, TypeOK, wgVars
  <2>6. JobFresh'
    BY <2>2 DEF JobFresh
  <2> QED
    BY <2>3, <2>5, <2>6 DEF IInv
<1>9. ASSUME NEW td \in teardowns, NEW h \in td.left, TeardownHop(td, h) PROVE IInv'
  <2> DEFINE rest == [td EXCEPT !.left = td.left \ {h}]
  <2>1. td \in Teardown /\ h \in Hop /\ h.key \in WGKeys
    BY <1>1 DEF IInv, TypeOK, Teardown, Hop
  <2>2. rest \in Teardown
    BY <2>1 DEF Teardown
  <2> HIDE DEF rest
  <2>3. /\ teardowns' \subseteq teardowns \cup {rest}
        /\ UNCHANGED <<storeVars, due, todo, job, failures, sessions, expiries>>
    BY <1>9 DEF TeardownHop, rest
  <2>4. wgPeers' \subseteq WGKeys /\ wgRunning' \in BOOLEAN
    BY <1>1, <1>9 DEF IInv, TypeOK, TeardownHop, RemovePeer, wgVars
  <2>5. TypeOK'
    BY <1>1, <2>2, <2>3, <2>4 DEF IInv, TypeOK, storeVars
  <2>6. IndexConsistent' /\ JobFresh'
    BY <1>1, <2>3 DEF IInv, IndexConsistent, JobFresh, storeVars
  <2> QED
    BY <2>5, <2>6 DEF IInv
<1>10. ASSUME NEW c \in Stored \cup todo, RotateAtPasses(c) PROVE IInv'
  <2>1. c.token \in Tokens
    BY <1>1 DEF IInv, TypeOK, Stored, Circuit
  <2>2. /\ due' = due \cup {c.token} /\ expiries' = expiries + 1
        /\ UNCHANGED <<storeVars, todo, job, teardowns, failures, sessions, wgVars>>
    BY <1>10 DEF RotateAtPasses, rotationVars
  <2> QED
    BY <1>1, <2>1, <2>2
    DEF IInv, TypeOK, IndexConsistent, JobFresh, storeVars, wgVars
<1>11. ASSUME Restart PROVE IInv'
  BY <1>1, <1>11
  DEF IInv, TypeOK, IndexConsistent, JobFresh, Restart, WGStart,
      storeVars, rotationVars
<1>12. ASSUME UNCHANGED vars PROVE IInv'
  BY <1>1, <1>12
  DEF IInv, TypeOK, IndexConsistent, JobFresh, vars, storeVars,
      rotationVars, wgVars
<1> QED
  BY <1>1, <1>2, <1>3, <1>4, <1>5, <1>6, <1>7, <1>8, <1>9, <1>10, <1>11, <1>12
  DEF Next, CheckNext, JobNext, TeardownNext, Time

\* The inductive invariant holds in every reachable state.
THEOREM Invariance == Spec => []IInv
  BY InitInv, NextInv, PTL DEF Spec

\* The store, the rotation manager's local state and the peer table keep their
\* types, and there is never more than one rotation at a time.
THEOREM TypesPreserved == Spec => []TypeOK
<1>1. IInv => TypeOK
  BY DEF IInv
<1> QED
  BY <1>1, Invariance, PTL

\* The two maps of the circuit store agree in every reachable state, for any
\* number of devices and any interleaving of rotations and session events.
THEOREM StoreIndexed == Spec => []IndexConsistent
<1>1. IInv => IndexConsistent
  BY DEF IInv
<1> QED
  BY <1>1, Invariance, PTL

-----------------------------------------------------------------------------

\* The stored circuits after a put: the new one for its device, the old ones for
\* the others.
LEMMA PutStores ==
  ASSUME TypeOK, NEW c \in Circuit, PutCircuit(c), NEW d \in Devices, circuits'[d] # NoCircuit
  PROVE  \/ d = c.imsi /\ circuits'[d] = c
         \/ d # c.imsi /\ circuits'[d] = circuits[d]
BY DEF TypeOK, PutCircuit, Circuit

\* The history of the circuits under rotation holds initially.
LEMMA InitRotation == Init => RInv
BY DEF Init, RInv, SnapshotOnce, JobOnce, OldCircuitGone

\* Every step keeps it.
LEMMA NextRotation == IInv /\ RInv /\ [Next]_vars => RInv'
<1>1. SUFFICES ASSUME IInv, RInv, [Next]_vars PROVE RInv'
  OBVIOUS
<1>2. TypeOK /\ IndexConsistent /\ SnapshotOnce /\ JobOnce /\ OldCircuitGone
  BY <1>1 DEF IInv, RInv
<1>3. ASSUME NEW d \in Devices, SessionCreated(d) PROVE RInv'
  <2>1. PICK hops \in HopSets : PutCircuit(Build(d, hops))
    BY <1>3 DEF SessionCreated
  <2> DEFINE c == Build(d, hops)
  <2>2. c \in Circuit /\ c.token \notin InUse
    BY <1>1, <1>3, BuildIsCircuit DEF SessionCreated
  <2> HIDE DEF c
  <2>3. /\ \A e \in todo : e.token # c.token
        /\ \A j \in job : j.old.token # c.token
        /\ \A td \in teardowns : td.old # c.token
    BY <2>2 DEF InUse
  <2>4. \A e \in Devices : circuits'[e] # NoCircuit => circuits'[e] \in {c, circuits[e]}
    BY <1>2, <2>1, <2>2, PutStores DEF c
  <2>5. todo' = todo /\ job' = job /\ teardowns' = teardowns
    BY <1>3 DEF SessionCreated, rotationVars
  <2>6. SnapshotOnce'
    BY <1>2, <2>3, <2>4, <2>5 DEF SnapshotOnce
  <2>7. JobOnce'
    BY <1>2, <2>3, <2>4, <2>5 DEF JobOnce
  <2>8. OldCircuitGone'
    BY <1>2, <2>3, <2>4, <2>5 DEF OldCircuitGone
  <2> QED
    BY <2>6, <2>7, <2>8 DEF RInv
<1>4. ASSUME NEW d \in Devices, SessionTerminated(d) PROVE RInv'
  <2>1. \A e \in Devices : circuits'[e] # NoCircuit => circuits'[e] = circuits[e]
    BY <1>2, <1>4 DEF SessionTerminated, RemoveCircuit, TypeOK
  <2>2. todo' = todo /\ job' = job /\ teardowns' = teardowns
    BY <1>4 DEF SessionTerminated, rotationVars
  <2> QED
    BY <1>2, <2>1, <2>2 DEF RInv, SnapshotOnce, JobOnce, OldCircuitGone
<1>5. ASSUME CheckRotations PROVE RInv'
  <2>1. /\ todo' = Stored /\ job = {} /\ job' = {} /\ teardowns' = teardowns
        /\ circuits' = circuits
    BY <1>5 DEF CheckRotations, storeVars
  <2>2. \A c \in Stored : \E d \in Devices : c = circuits[d] /\ c # NoCircuit /\ c.imsi = d
    BY <1>2 DEF Stored, IndexConsistent
  <2>3. \A d, e \in Devices : /\ circuits[d] # NoCircuit /\ circuits[e] # NoCircuit
                              /\ circuits[d].token = circuits[e].token
                              => d = e
    BY <1>2 DEF IndexConsistent
  <2>4. SnapshotOnce'
    BY <2>1, <2>2, <2>3 DEF SnapshotOnce
  <2>5. OldCircuitGone'
    BY <1>2, <2>1, <2>2 DEF OldCircuitGone
  <2> QED
    BY <2>1, <2>4, <2>5 DEF RInv, JobOnce
<1>6. ASSUME NEW c \in todo, NotDue(c) \/ RotateFails(c) PROVE RInv'
  <2>1. todo' \subseteq todo /\ job' = job /\ teardowns' = teardowns /\ circuits' = circuits
    BY <1>6 DEF NotDue, RotateFails, storeVars
  <2> QED
    BY <1>2, <2>1 DEF RInv, SnapshotOnce, JobOnce, OldCircuitGone
<1>7. ASSUME NEW c \in todo, RotateBuilds(c) PROVE RInv'
  <2>1. PICK hops \in HopSets :
          job' = {[old |-> c, new |-> Build(c.imsi, hops), left |-> hops]}
    BY <1>7 DEF RotateBuilds
  <2>2. c.imsi \in Devices
    BY <1>2 DEF TypeOK, Circuit
  <2> DEFINE new == Build(c.imsi, hops)
  <2>3. new.imsi = c.imsi /\ new.token \notin InUse
    BY <1>1, <1>7, <2>2, BuildIsCircuit DEF RotateBuilds
  <2> HIDE DEF new
  <2>4. job' = {[old |-> c, new |-> new, left |-> hops]}
    BY <2>1 DEF new
  <2>5. todo' = todo \ {c} /\ teardowns' = teardowns /\ circuits' = circuits
    BY <1>7 DEF RotateBuilds, storeVars
  <2>6. /\ \A e \in todo : e.token # new.token
        /\ \A td \in teardowns : td.old # new.token
    BY <2>3 DEF InUse
  <2>7. \A e \in todo \ {c} : e.token # c.token
    BY <1>2 DEF SnapshotOnce
  <2>8. \A td \in teardowns : td.old # c.token
    BY <1>2 DEF OldCircuitGone
  <2>9. \A d \in Devices : circuits[d] # NoCircuit /\ circuits[d].token = c.token => d = c.imsi
    BY <1>2 DEF SnapshotOnce
  <2>10. JobOnce'
    <3>1. SUFFICES ASSUME NEW j \in job'
                   PROVE  /\ j.new.imsi = j.old.imsi /\ j.new.token # j.old.token
                          /\ \A e \in todo' : e.token # j.old.token /\ e.token # j.new.token
                          /\ \A td \in teardowns' : td.old # j.old.token /\ td.old # j.new.token
                          /\ \A d \in Devices :
                               circuits'[d] # NoCircuit /\ circuits'[d].token = j.old.token
                                 => d = j.old.imsi
      BY DEF JobOnce
    <3>2. j.old = c /\ j.new = new
      BY <2>4
    <3> QED
      BY <2>3, <2>5, <2>6, <2>7, <2>8, <2>9, <3>2
  <2>11. SnapshotOnce' /\ OldCircuitGone'
    BY <1>2, <2>5 DEF SnapshotOnce, OldCircuitGone
  <2> QED
    BY <2>10, <2>11 DEF RInv
<1>8. ASSUME NEW j \in job, NEW h \in j.left, AddWGPeer(j, h) PROVE RInv'
  <2> DEFINE k == [j EXCEPT !.left = j.left \ {h}]
  <2>1. k.old = j.old /\ k.new = j.new
    BY <1>2 DEF TypeOK, Job
  <2>2. job' = {k} /\ todo' = todo /\ teardowns' = teardowns /\ circuits' = circuits
    BY <1>8 DEF AddWGPeer, storeVars
  <2> HIDE DEF k
  <2> QED
    BY <1>2, <2>1, <2>2 DEF RInv, SnapshotOnce, JobOnce, OldCircuitGone
<1>9. ASSUME NEW j \in job, RotatePuts(j) PROVE RInv'
  <2> DEFINE td == [old |-> j.old.token, new |-> j.new.hops, left |-> j.old.hops]
  <2>1. td.old = j.old.token /\ j.new \in Circuit
    BY <1>2 DEF TypeOK, Job
  <2>2. /\ job' = {} /\ todo' = todo /\ teardowns' = teardowns \cup {td}
        /\ PutCircuit(j.new)
    BY <1>9 DEF RotatePuts
  <2> HIDE DEF td
  <2>3. /\ j.new.imsi = j.old.imsi /\ j.new.token # j.old.token
        /\ \A c \in todo : c.token # j.old.token /\ c.token # j.new.token
        /\ \A e \in teardowns : e.old # j.old.token /\ e.old # j.new.token
        /\ \A d \in Devices :
             circuits[d] # NoCircuit /\ circuits[d].token = j.old.token => d = j.old.imsi
    BY <1>2 DEF JobOnce
  <2>4. \A d \in Devices : circuits'[d] # NoCircuit =>
          \/ d = j.new.imsi /\ circuits'[d] = j.new
          \/ d # j.new.imsi /\ circuits'[d] = circuits[d]
    BY <1>2, <2>1, <2>2, PutStores
  <2>5. SnapshotOnce'
    BY <1>2, <2>2, <2>3, <2>4 DEF SnapshotOnce
  <2>6. \A d \in Devices : circuits'[d] # NoCircuit =>
          \A e \in teardowns' : circuits'[d].token # e.old
    <3>1. SUFFICES ASSUME NEW d \in Devices, circuits'[d] # NoCircuit, NEW e \in teardowns'
                   PROVE  circuits'[d].token # e.old
      OBVIOUS
    <3>2. CASE e = td
      BY <2>1, <2>3, <2>4, <3>1, <3>2
    <3>3. CASE e \in teardowns
      BY <1>2, <2>3, <2>4, <3>1, <3>3 DEF OldCircuitGone
    <3> QED
      BY <2>2, <3>2, <3>3
  <2>7. \A e \in teardowns', c \in todo' : c.token # e.old
    BY <1>2, <2>1, <2>2, <2>3 DEF OldCircuitGone
  <2>8. \A e, f \in teardowns' : e.old = f.old => e = f
    BY <1>2, <2>1, <2>2, <2>3 DEF OldCircuitGone
  <2>9. OldCircuitGone'
    BY <2>6, <2>7, <2>8 DEF OldCircuitGone
  <2> QED
    BY <2>2, <2>5, <2>9 DEF RInv, JobOnce
<1>10. ASSUME NEW td \in teardowns, NEW h \in td.left, TeardownHop(td, h) PROVE RInv'
  <2> DEFINE rest == [td EXCEPT !.left = td.left \ {h}]
  <2>1. rest.old = td.old
    BY <1>2 DEF TypeOK, Teardown
  <2> HIDE DEF rest
  <2>2. /\ teardowns' \subseteq (teardowns \ {td}) \cup {rest}
        /\ todo' = todo /\ job' = job /\ circuits' = circuits
    BY <1>10 DEF TeardownHop, rest, storeVars
  <2>3. SnapshotOnce' /\ JobOnce'
    BY <1>2, <2>1, <2>2 DEF SnapshotOnce, JobOnce
  <2>4. \A e, f \in teardowns' : e.old = f.old => e = f
    BY <1>2, <2>1, <2>2 DEF OldCircuitGone
  <2>5. \A e \in teardowns' : \E f \in teardowns : f.old = e.old
    BY <2>1, <2>2
  <2>6. OldCircuitGone'
    BY <1>2, <2>2, <2>4, <2>5 DEF OldCircuitGone
  <2> QED
    BY <2>3, <2>6 DEF RInv
<1>11. ASSUME \/ Restart
              \/ \E c \in Stored \cup todo : RotateAtPasses(c)
              \/ UNCHANGED vars
       PROVE  RInv'
  <2>1. todo' = todo /\ job' = job /\ teardowns' = teardowns /\ circuits' = circuits
    BY <1>11 DEF Restart, RotateAtPasses, vars, storeVars, rotationVars
  <2> QED
    BY <1>2, <2>1 DEF RInv, SnapshotOnce, JobOnce, OldCircuitGone
<1> QED
  BY <1>1, <1>3, <1>4, <1>5, <1>6, <1>7, <1>8, <1>9, <1>10, <1>11
  DEF Next, CheckNext, JobNext, TeardownNext, Time

\* For any devices, tokens and hop sets: what a teardown works on is a circuit that
\* has left the store for good, that no check rotates again and that has no second
\* teardown.
THEOREM TearsDownOldOnly == Spec => []OldCircuitGone
<1>1. RInv => OldCircuitGone
  BY DEF RInv
<1>2. Spec => []RInv
  BY InitRotation, NextRotation, Invariance, PTL DEF Spec
<1> QED
  BY <1>1, <1>2, PTL

\* add_peer rejects what a rotation asks for, whatever form the announced address
\* has: an address that resolves as an endpoint has a port, and with "/32" behind
\* the port it is no CIDR; an empty one gives the CIDR "/32".
LEMMA RotationArgumentsInvalid ==
  ASSUME NEW address \in AddressForm, NEW key
  PROVE  ~ValidPeer(key, address, Slash32(address))
<1>1. CASE address = ""
  BY <1>1 DEF ValidPeer, Slash32, ParseCIDR
<1>2. CASE address = "ip"
  BY <1>2 DEF ValidPeer, ResolveUDPAddr
<1>3. CASE address = "ip:port"
  BY <1>3 DEF ValidPeer, Slash32, ParseCIDR
<1> QED
  BY <1>1, <1>2, <1>3 DEF AddressForm

\* No step of the program ever adds a peer to the interface, whatever addresses
\* the servers announce and whatever circuits are built: rotate ignores the
\* errors of add_peer, and all it ever changes in the interface is to remove
\* peers (camo-circuit main.go rotate, camo-wireguard main.go addPeer).
THEOREM RotationNeverAddsPeers == Spec => [][wgPeers' \subseteq wgPeers]_vars
<1>1. IInv /\ [Next]_vars => [wgPeers' \subseteq wgPeers]_vars
  <2>1. SUFFICES ASSUME IInv, Next, NEW k \in wgPeers', k \notin wgPeers
                 PROVE  FALSE
    OBVIOUS
  <2>2. PICK j \in job : \E h \in j.left : AddWGPeer(j, h)
    BY <2>1 DEF Next, SessionCreated, SessionTerminated, CheckRotations, CheckNext, NotDue,
       RotateFails, RotateBuilds, JobNext, RotatePuts, TeardownNext, TeardownHop, RemovePeer,
       Time, RotateAtPasses, Restart, WGStart, wgVars
  <2>3. PICK h \in j.left : AddWGPeer(j, h)
    BY <2>2
  <2>4. h.server \in Servers
    BY <2>1 DEF IInv, TypeOK, Job, Hop
  <2>5. AddressOf[h.server] \in AddressForm
    BY <2>4, RotationAssumption
  <2>6. ~ValidPeer(h.key, AddressOf[h.server], Slash32(AddressOf[h.server]))
    BY <2>5, RotationArgumentsInvalid
  <2> QED
    BY <2>1, <2>3, <2>6 DEF AddWGPeer, AddPeer
<1> QED
  BY <1>1, Invariance, PTL DEF Spec
=============================================================================
