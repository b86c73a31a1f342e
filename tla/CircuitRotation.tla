-------------------------- MODULE CircuitRotation --------------------------
(***************************************************************************)
(* camo-circuit: the circuit store and the rotation manager, composed with *)
(* the WireGuard daemon it commands (circuit.go, main.go).                 *)
(*                                                                         *)
(* One goroutine checks every 30 seconds which circuits are past RotateAt. *)
(* It takes a snapshot of the store and rotates the circuits of it one     *)
(* after the other: build, one add_peer per hop, put. Every rotation       *)
(* leaves a goroutine that sleeps and then removes the peers of the old    *)
(* circuit, one command per hop. A lock section of the store, a command    *)
(* and a build are one step each.                                          *)
(*                                                                         *)
(* What build returns is described by CircuitBuild; here it is any member  *)
(* of HopSets. Nothing in the repository calls put and remove when device  *)
(* sessions begin and end: SessionCreated and SessionTerminated stand for  *)
(* that handler, which the store's interface is made for.                  *)
(***************************************************************************)
EXTENDS WireGuard, Naturals

CONSTANTS
  Devices,      \* device IMSIs
  Tokens,       \* session tokens
  Servers,      \* server ids
  AddressOf,    \* the form of the WireGuard address a server announces
  HopSets,      \* the hops of the circuits build can return
  NoCircuit,    \* no entry in a map of the store
  MaxFailures,  \* bound: how often a gossip query or a build may fail
  MaxSessions,  \* bound: how many sessions may be created
  MaxExpiries   \* bound: how many circuits may become due

Hop     == [server : Servers, key : WGKeys]
Circuit == [imsi : Devices, token : Tokens, hops : SUBSET Hop]

ASSUME RotationAssumption ==
  /\ HopSets \subseteq SUBSET Hop
  /\ Configured \subseteq WGKeys
  /\ AddressOf \in [Servers -> AddressForm]
  /\ NoCircuit \notin Circuit
  /\ MaxFailures \in Nat
  /\ MaxSessions \in Nat
  /\ MaxExpiries \in Nat

VARIABLES
  circuits,   \* circuitStore.circuits
  byToken,    \* circuitStore.byToken
  due,        \* tokens of circuits whose RotateAt has passed
  todo,       \* circuits of the snapshot that are still to be checked
  job,        \* the rotation under way, or {}
  teardowns,  \* goroutines that remove old peers
  failures,   \* rotations that have failed so far
  sessions,   \* sessions created so far
  expiries    \* circuits that have become due so far

storeVars    == <<circuits, byToken>>
rotationVars == <<todo, job, teardowns, failures>>
vars         == <<storeVars, due, rotationVars, sessions, expiries, wgVars>>

\* The local variables of rotate: the old circuit, the new circuit, and the hops
\* of the latter that are not yet added as peers. Those of a teardown: the token of
\* the old circuit, the hops of the new one and the old hops not yet dealt with.
Job      == [old : Circuit, new : Circuit, left : SUBSET Hop]
Teardown == [old : Tokens, new : SUBSET Hop, left : SUBSET Hop]

Stored == {circuits[d] : d \in Devices} \ {NoCircuit}

Init ==
  /\ circuits  = [d \in Devices |-> NoCircuit]
  /\ byToken   = [t \in Tokens |-> NoCircuit]
  /\ due       = {}
  /\ todo      = {}
  /\ job       = {}
  /\ teardowns = {}
  /\ failures  = 0
  /\ sessions  = 0
  /\ expiries  = 0
  /\ WGInit

(***************************************************************************)
(* The store.                                                              *)
(***************************************************************************)

\* Mutation: put leaves the token of the circuit it replaces in the index.
PutKeepsOldToken(c) ==
  /\ circuits' = [circuits EXCEPT ![c.imsi] = c]
  /\ byToken'  = [byToken EXCEPT ![c.token] = c]

PutCircuit(c) ==
  /\ circuits' = [circuits EXCEPT ![c.imsi] = c]
  /\ byToken'  = [t \in Tokens |->
                    IF t = c.token THEN c
                    ELSE IF circuits[c.imsi] # NoCircuit /\ t = circuits[c.imsi].token
                    THEN NoCircuit ELSE byToken[t]]

RemoveCircuit(d) ==
  /\ circuits[d] # NoCircuit
  /\ circuits' = [circuits EXCEPT ![d] = NoCircuit]
  /\ byToken'  = [byToken EXCEPT ![circuits[d].token] = NoCircuit]

(***************************************************************************)
(* newSessionToken draws 16 random bytes: a token that no circuit has to   *)
(* which something in the program still refers.                            *)
(***************************************************************************)
InUse == {c.token : c \in Stored \cup todo \cup {j.old : j \in job} \cup {j.new : j \in job}}
           \cup {td.old : td \in teardowns}
Fresh == Tokens \ InUse
newSessionToken == CHOOSE t \in Tokens : t \in Fresh

\* Only of circuits that are stored or in the snapshot is RotateAt looked at.
ForgetDue == due' = due \cap {c.token : c \in (Stored \cup todo)'}

Build(d, hops) == [imsi |-> d, token |-> newSessionToken, hops |-> hops]

(***************************************************************************)
(* The session handler (external), and time.                               *)
(***************************************************************************)
SessionCreated(d) ==
  /\ sessions < MaxSessions /\ Fresh # {}
  /\ \E hops \in HopSets : PutCircuit(Build(d, hops))
  /\ sessions' = sessions + 1
  /\ UNCHANGED <<rotationVars, expiries, wgVars>>
  /\ ForgetDue

SessionTerminated(d) ==
  /\ RemoveCircuit(d)
  /\ UNCHANGED <<rotationVars, sessions, expiries, wgVars>>
  /\ ForgetDue

\* RotateAt of a circuit passes, whatever is still under way for its device: the
\* commands to the WireGuard daemon have no deadline.
RotateAtPasses(c) ==
  /\ c.token \notin due /\ expiries < MaxExpiries
  /\ expiries' = expiries + 1
  /\ due' = due \cup {c.token}
  /\ UNCHANGED <<storeVars, rotationVars, sessions, wgVars>>

(***************************************************************************)
(* checkRotations and rotate.                                              *)
(***************************************************************************)

\* Mutation: the ticker starts a goroutine for every check (go r.checkRotations()).
CheckRotationsConcurrently ==
  /\ Stored # {}
  /\ todo' = Stored
  /\ UNCHANGED <<storeVars, due, job, teardowns, failures, sessions, expiries, wgVars>>

CheckRotations ==
  /\ todo = {} /\ job = {} /\ Stored # {}
  /\ todo' = Stored
  /\ UNCHANGED <<storeVars, due, job, teardowns, failures, sessions, expiries, wgVars>>

\* Mutation: Before instead of After.
PastRotateAtBefore(c) == c.token \notin due

PastRotateAt(c) == c.token \in due

NotDue(c) ==
  /\ job = {} /\ c \in todo /\ ~PastRotateAt(c)
  /\ todo' = todo \ {c}
  /\ UNCHANGED <<storeVars, job, teardowns, failures, sessions, expiries, wgVars>>
  /\ ForgetDue

\* The gossip query or build returns an error: the old circuit stays.
RotateFails(c) ==
  /\ job = {} /\ c \in todo /\ PastRotateAt(c)
  /\ failures < MaxFailures
  /\ failures' = failures + 1
  /\ todo' = todo \ {c}
  /\ UNCHANGED <<storeVars, job, teardowns, sessions, expiries, wgVars>>
  /\ ForgetDue

\* Mutation: rotations run concurrently (go m.rotate(c)).
RotateBuildsConcurrently(c) ==
  /\ c \in todo /\ PastRotateAt(c) /\ Fresh # {}
  /\ \E hops \in HopSets :
       job' = job \cup {[old |-> c, new |-> Build(c.imsi, hops), left |-> hops]}
  /\ todo' = todo \ {c}
  /\ UNCHANGED <<storeVars, teardowns, failures, sessions, expiries, wgVars>>
  /\ ForgetDue

\* build returns; whether the device still has circuit c is not asked again.
RotateBuilds(c) ==
  /\ job = {} /\ c \in todo /\ PastRotateAt(c) /\ Fresh # {}
  /\ \E hops \in HopSets :
       job' = {[old |-> c, new |-> Build(c.imsi, hops), left |-> hops]}
  /\ todo' = todo \ {c}
  /\ UNCHANGED <<storeVars, teardowns, failures, sessions, expiries, wgVars>>
  /\ ForgetDue

\* The allowed IP that rotate asks for: the announced address with "/32".
Slash32(address) ==
  CASE address = ""        -> "/32"
    [] address = "ip"      -> "ip/32"
    [] address = "ip:port" -> "ip:port/32"

\* addWGPeer for one hop; an error is logged and ignored.
AddWGPeer(j, h) ==
  /\ h \in j.left
  /\ AddPeer(h.key, AddressOf[h.server], Slash32(AddressOf[h.server]))
  /\ job' = {[j EXCEPT !.left = @ \ {h}]}
  /\ UNCHANGED <<storeVars, due, todo, teardowns, failures, sessions, expiries>>

\* The new circuit is stored and the teardown goroutine started.
RotatePuts(j) ==
  /\ j.left = {}
  /\ PutCircuit(j.new)
  /\ job' = {}
  /\ teardowns' = teardowns \cup
       {[old |-> j.old.token, new |-> j.new.hops, left |-> j.old.hops]}
  /\ UNCHANGED <<todo, failures, sessions, expiries, wgVars>>
  /\ ForgetDue

hopInCircuit(hops, server) == \E h \in hops : h.server = server

\* One hop of a teardown; the goroutine ends with the last one.
TeardownHop(td, h) ==
  /\ h \in td.left
  /\ IF hopInCircuit(td.new, h.server) THEN UNCHANGED wgVars ELSE RemovePeer(h.key)
  /\ teardowns' = (teardowns \ {td}) \cup
                  (IF td.left = {h} THEN {} ELSE {[td EXCEPT !.left = @ \ {h}]})
  /\ UNCHANGED <<storeVars, due, todo, job, failures, sessions, expiries>>

(***************************************************************************)
(* The specification.                                                      *)
(***************************************************************************)
CheckNext   == \E c \in todo : NotDue(c) \/ RotateFails(c) \/ RotateBuilds(c)
JobNext     == \E j \in job : RotatePuts(j) \/ \E h \in j.left : AddWGPeer(j, h)
TeardownNext == \E td \in teardowns : \E h \in td.left : TeardownHop(td, h)
Time        == \E c \in Stored \cup todo : RotateAtPasses(c)
Restart     == WGStart /\ UNCHANGED <<storeVars, due, rotationVars, sessions, expiries>>

Next ==
  \/ \E d \in Devices : SessionCreated(d) \/ SessionTerminated(d)
  \/ CheckRotations \/ CheckNext \/ JobNext \/ TeardownNext
  \/ Time \/ Restart

Spec == Init /\ [][Next]_vars

\* The ticker fires, the sleeps end, and a gossip query or a command to the
\* WireGuard daemon returns, if only with an error: the daemon may be down, which
\* a dial finds out at once, but one that accepts a command and never answers would
\* block the manager, because wgCommand sets no deadline. Nothing is assumed about
\* sessions.
Fairness ==
  /\ WF_vars(CheckRotations)
  /\ WF_vars(CheckNext)
  /\ WF_vars(JobNext)
  /\ WF_vars(TeardownNext)

FairSpec == Spec /\ Fairness

-----------------------------------------------------------------------------
(***************************************************************************)
(* Properties.                                                             *)
(***************************************************************************)

\* Types of the store and of the goroutines' local variables; there is at most
\* one rotation at a time.
TypeOK ==
  /\ circuits \in [Devices -> Circuit \cup {NoCircuit}]
  /\ byToken \in [Tokens -> Circuit \cup {NoCircuit}]
  /\ due \subseteq Tokens
  /\ todo \subseteq Circuit
  /\ job \subseteq Job /\ \A i, j \in job : i = j
  /\ teardowns \subseteq Teardown
  /\ failures \in Nat
  /\ sessions \in Nat
  /\ expiries \in Nat
  /\ wgPeers \subseteq WGKeys
  /\ wgRunning \in BOOLEAN

\* The two maps of the store agree whatever rotations and session events
\* interleave: a stored circuit is found by its token, and a token leads to no
\* circuit that was replaced or removed (circuit.go put, remove).
IndexConsistent ==
  /\ \A d \in Devices : circuits[d] # NoCircuit =>
       circuits[d].imsi = d /\ byToken[circuits[d].token] = circuits[d]
  /\ \A t \in Tokens : byToken[t] # NoCircuit =>
       byToken[t].token = t /\ circuits[byToken[t].imsi] = byToken[t]

\* A circuit is torn down only when it is no longer the circuit of a device, no
\* check will rotate it again, and it has one teardown: although rotate never asks
\* whether the store still has the circuit of its snapshot, session events replace
\* and remove circuits meanwhile, and teardowns of several rotations run side by
\* side (main.go checkRotations, rotate).
OldCircuitGone ==
  \A td \in teardowns :
    /\ \A d \in Devices : circuits[d] # NoCircuit => circuits[d].token # td.old
    /\ \A c \in todo : c.token # td.old
    /\ \A e \in teardowns : e.old = td.old => e = td

Due(d) == circuits[d] # NoCircuit /\ circuits[d].token \in due

\* A circuit past its RotateAt does not stay in the store, however many session
\* events change the store during the checks, and whether the WireGuard daemon runs
\* or is down, as long as gossip queries and builds do not fail for ever and every
\* call returns (main.go checkRotations).
DueCircuitReplaced == \A d \in Devices : Due(d) ~> ~Due(d)

-----------------------------------------------------------------------------
(***************************************************************************)
(* A statement of the documentation that the code breaks.                  *)
(***************************************************************************)

\* camo-wireguard main.go: "Peers are added dynamically when circuits are
\* constructed": when a rotation stores a circuit, its hops are peers.
PeersAddedWithCircuit ==
  [][\A j \in job : RotatePuts(j) => \A h \in j.new.hops : h.key \in wgPeers]_vars
=============================================================================
