# TLA+ models of CAMO

CAMO is a set of Go daemons that run on every distribution server and talk over
Unix sockets (within a node) and TCP (between nodes). This directory holds TLA+
models of them, TLC configurations that check small instances, and TLAPS proofs.
`PROJECT.json` lists, for every definition, the source lines it translates.

## The system

| part | state | operations | who interacts |
|---|---|---|---|
| SIM pool (`camo-simpool`: `pool.go`, `rotation.go`, `api.go`) | the state, session and fail count of each SIM; token → SIM map | allocate, release, initial promotion, rotation, delayed drain | API connections, the rotator, one goroutine per drain, all under one mutex |
| liveness monitor (`liveness.go`) | the pass it is in, the probe in flight | check active, check dormant, retry with backoff | reads the pool without the mutex, writes with it |
| circuit constructor (`camo-circuit/constructor.go`) | local variables of one `build` | scoring sort, middle hops, exit | called by the rotation manager with what gossip returned |
| circuit store and rotation manager (`camo-circuit`) | circuit per device | rotate when due, tear down after 5 s | gossip, WireGuard |
| WireGuard manager (`camo-wireguard`) | the kernel's peer table | add, remove, list | rotation manager |
| gossip node (`camo-gossip`: `store.go`, `server.go`, `heartbeat.go`) | records, last-seen times, seen keys | receive record, receive heartbeat, expire, announce | one goroutine per connection, one broadcaster |
| gossip network (`main.go`, `peer.go`, `server.go`) | the stores of all nodes, messages on the way | start, listen, announce, flood, lose a message, crash | nodes along their bootstrap lists |
| APN core adapter (`camo-apncore`) | sessions, routes, two event channels and the pump between them | connect, disconnect, list, log events, set and clear route | the goroutines that drive the mock, the pump, `forwardEvents` |

What makes these parts hard to test: probes that apply a state read before a
slow call; drains that act on a list made 30 seconds before; retried calls;
concurrent copies of one record; late and reordered records; nodes that start
in any order, crash and forget; rotations that work on a snapshot and tear down
later; events sent after the lock is released; loops whose every choice is random. The hazards
in `PROJECT.json` name them line by line, with the properties that cover them.

## Modules

**SimPool** models `camo-simpool`. Each section under the mutex is one action:
`Allocate`, `Release`, `InitActiveSubset`, `Rotate`, `Drain`. A probe is two
actions: `VisitProbe` reads the SIM's state (in the code: without the mutex),
`ProbeFails` or `ProbeSucceeds` applies the result to whatever the SIM has
become. Map iteration in Go has random order, so `Pick(S, n)` is any n members of
S. Time survives as comparisons only: `usedSince` is `LastActive.After(lastRotation)`,
`draining` holds the lists of sleeping drain goroutines, and a backoff that has
not elapsed is `VisitSkip`. `Spec` allows any caller; `FreshSpec` has callers that
do not reuse the token of a live session.

**SimLease** is what the pool promises: exclusive, stable leases. SimPool
implements it under the mapping `holder <- currentSession`.

**SimBackoff** is the liveness monitor seen from one SIM, with time: the age of
`LastHealthCheck`, the hourly tick, passes that take up to `PassTime`. It asks when a
SIM is probed again. It extends **Backoff**, which is `backoffDuration`: `Round` is one
round of its loop. SimPool has all SIMs and their interplay, but no clock.

**CircuitBuild** is one run of `constructor.build`: `Start` draws the hop count,
`SelectMiddleHop` is an iteration of the loop in `selectMiddleHops`, `SelectExit`
draws the exit; the error returns are `NotViable`, `TooFewNodes`, `NoExit`. The
order `scoreNodes` produces is a rank given with the network; **ScoreNodes** is
that sort itself, comparison by comparison.

**CircuitRotation** is the circuit store and the rotation manager. `CheckRotations`
takes the snapshot, `RotateBuilds` or `RotateFails` ends the gossip query and the build
for one circuit of it, `AddWGPeer` is one command, `RotatePuts` stores the circuit and
starts a teardown goroutine, and `TeardownHop` is one hop of that. What `build` returns is
any member of `HopSets`; CircuitBuild says what that can be. Nothing in the repository
calls `put` and `remove` when device sessions begin and end, so `SessionCreated` and
`SessionTerminated` are marked external. `due` stands for `RotateAt` having passed, which may
happen whatever is still under way for the device: commands to the WireGuard daemon have no
deadline, so teardowns may take any time. A teardown carries the token of the circuit it
works on, which the code has in its closure.

**WireGuard** is the daemon that serves these commands, as operators that are part of
CircuitRotation's steps. An address is its form (empty, IP, IP and port), which decides
what `ResolveUDPAddr` and `ParseCIDR` accept; a key is valid, undecodable or too short for
the log line that slices it, which ends the daemon until it is restarted.

**GossipStore** is one gossip node with a clock. A message handler looks
(`ReceiveRecord`, `ReceiveHeartbeat`) and then acts (`PutRecord`, `ApplyHeartbeat`)
in two separate lock sections. Several ticks make a second, because the
deduplication key cuts fractions of a second off. `Announce` changes the timestamp
of the own entry in place, since the broadcaster and the store share the record.
`expireAndCheck` shares its goroutine with the sending of heartbeats and
announcements, whose dials have no timeout of their own; the time between two
checks is therefore a parameter, `MaxCheckGap`, and not simply 60 seconds.
`activeRecords` is what `list_peers` answers and `build` starts from.
Clocks of the servers are taken to agree.

**GossipNet** is the network of nodes, where a handler is one step. A message is
one TCP connection: reordered freely, lost when the node does not run or, at most
`MaxFaults` times counted with the crashes, when the dial or the write to a running node fails.
A node announces itself (`Start`) before it listens (`Listen`). Addresses learned
from inbound connections are ephemeral ports where nothing listens, so
`ActiveAddrs` is the bootstrap list. The store is lost in a crash.

**ApnAdapter** is `camo-apncore` with the mock adapter. A session changes under the
lock; the event is sent after it, in a step of its own, into a channel of bounded
capacity, passes the pump of the wrapper (receive, then send) and a second channel, and
reaches `forwardEvents`, which logs it. `logged` is what the last line about a device says.
Any number of goroutines (`Callers`) call `SimulateConnect` and `SimulateDisconnect` for the
devices that `Drives` gives them, and one device may have several. A goroutine is in one call
at a time and stays in it until its event is sent. **SessionFeed** is what the log may be
relied on for, one queue per goroutine; ApnAdapter implements it, with the queue of a
goroutine mapped to its events in both channels, the pump and its own send. For that mapping
an event carries the goroutine that sends it, which nothing else reads.

The `MC*` modules give constants and symmetry; the `*Proofs` modules hold theorems.
Operators marked "Mutation" are plausible bugs of the definition that follows
them; a property is kept only if some mutation breaks it.

## What the runs check

| run | instance | result |
|---|---|---|
| `pool_any` | 4 SIMs, target 2, 1 token, 2 overlapping drains, 1 outage, any caller | a token leads to a SIM that serves it, even after a repeated allocate; until a probe fails the active subset keeps its target size and busy SIMs stay in it |
| `pool_fresh` | 4 SIMs, target 2, 2 tokens, 2 outages, fresh tokens | a rotation refills the subset; a session's SIM serves that session alone; no SIM is leaked; SimLease is implemented |
| `pool_fair` | 2 SIMs, target 1, 2 tokens, 2 outages, fair | unavailable SIMs recover; an exhausted subset grows |
| `circuit_build` | all networks of 3 or of 5 candidates, at most 2 of them exits, in 2 jurisdictions or none | circuits are well formed; constraints are relaxed, and builds fail, only when forced |
| `gossip_store` | 1 remote server, 2 handlers, 6 ticks, checks at most 2 ticks apart | a record is forwarded once; expired entries stay away; no node silent for too long is listed |
| `gossip_net` | 3 nodes, two that are peers of each other and one that names one of them and that no list names, 2 announcements each, 1 fault (a crash or a failed send), fair | records follow bootstrap lists; floods end; announcements reach every node the lists lead to unless there is a fault after all nodes run |
| `circuit_rotation` | 2 devices, 3 servers with addresses of every form, an undecodable and an empty key, 2 sessions, 2 expiries, 1 failed rotation, fair | the store's maps agree; only circuits that left the store are torn down, each once; a due circuit does not stay |
| `apn_events` | 2 goroutines, 1 device that both drive and 1 that the first drives alone, channels of capacity 1, 2 TEIDs, fair | what is on its way ends with the truth, and the end of a session is logged, for the device with one driver; SessionFeed is implemented for both, its fairness included |
| `sim_backoff` | units of 20 minutes, 1 h and 4 h, passes up to 40 minutes, 5 failures | a SIM that is not active is probed in time; the backoff doubles up to its maximum |

Properties that an outage or a crash may legitimately end say so themselves:
`ActiveFloor` and `BusySIMIsActive` hold while `outages = 0`, and `ExhaustionEnds` and
`Discovery` allow for an outage and for a fault. The runs include them, so the
cases on either side are explored together.

The bounds are the smallest at which the cases of interest happen: four SIMs with
a target of two leave room for a SIM that is retired, one that is promoted and one
that is busy; two tokens allow sharing and reuse; one outage during a drain or a
probe is what stale state needs, and two outages leave a rotation more to refill
than it replaces; five candidates exceed both the top-three window
and the longest middle section; expiry, liveness timeout and the one-second key
all fall within six ticks. Channels of capacity one are full after one event,
so every sender waits at some point, and two TEIDs wrap at once. Two expiries allow a
circuit to be replaced twice, or the circuits of two devices at the same time; the
five tokens exceed the circuits that two sessions and two expiries lead to. Five
failures pass the cap of the backoff, which two reach. Deadlock checking is off where
the program ends (`build`, the sort) or where a bound (announcements, sessions,
expiries) ends the behaviour.

Fairness. Tickers fire, sleeps end and `Check` returns: weak fairness of the
rotator, the drains and the monitor's steps. An hourly tick stays in its channel
until `select` takes it, hence strong fairness of `StartCheckDormant`. The backoff
is capped by `maxBackoffInterval` and restarts only when a probe is made, hence
strong fairness of `Retry`. In GossipNet, nodes are started, come to listen and announce, and
as long as messages are on the way one is handled or its dial to a node that does not run
fails. In CircuitRotation the ticker fires, sleeps end, and every gossip query and every
command returns, if only with an error; gossip queries and builds fail finitely often
(`MaxFailures`), and nothing is assumed of sessions. The WireGuard daemon may be down, which
a dial finds out at once. One that accepts a command and never answers is excluded, and
`DueCircuitReplaced` would not hold with it: `wgCommand` sets no deadline
(`main.go:189` of camo-circuit). In ApnAdapter the pump and
`forwardEvents` go on, and strong fairness of `Send` is the FIFO queue of goroutines that
wait on a Go channel. Callers are never assumed to do anything.

## Where the code and its documentation differ

Three runs show behaviours that a comment or the specification rules out; the
quotes are in `PROJECT.json` under findings.

* `pool_failed`: a drain makes an unavailable SIM dormant, so a rotation can promote
  it without a successful probe.
* `circuit_peers`: `rotate` passes one string as endpoint and, with "/32", as allowed IP.
  No string is accepted as both, so a rotation stores a circuit none of whose hops
  is a peer. The run uses "ip:port", the documented form; `RotationNeverAddsPeers` proves it
  of every form.
* `score_nodes`: `constructor.go:207` says "sorted by uptime then SIM pool size descending";
  `score` adds the two, so 98% with two SIMs comes before 99% with none. The run sorts all
  lists of up to 4 nodes of 6 kinds; that the result is a stable sort by score is proved
  (`Sorts`).

Further differences, read in the code and reflected in the models without a run
of their own:

* A successful retry applies a state read before the probe (`liveness.go:98`), so
  `markDormant`, which "moves an unavailable SIM back to dormant" (`pool.go:122`), can
  retire a SIM that became active meanwhile.
* Two consecutive middle hops may be in one jurisdiction although nodes of others
  are left below the top of the list (`constructor.go:180`; the comment at line 79
  excludes it). `RelaxedOnlyWhenForced` is what does hold.
* `put` (`store.go:56`) replaces a newer record by an older one that arrives late;
  section 9.2 asks for newer ones only.
* Records travel along bootstrap lists only (`server.go:46` learns ephemeral ports), so
  two nodes behind one bootstrap node never learn of each other; section 9.2 promises
  "the full network". `Discovery` and `RecordsFollowBootstrap` are what does hold.
* Heartbeats are not forwarded (`server.go:109`): a node known through others only is
  listed until livenessTimeout and a check after its record arrived.
* A node that fell silent is listed for up to one gap between checks longer than the
  300 seconds of section 9.2; `ListedIsLive` states the bound that holds.
* A teardown looks at its own replacement only (`main.go:121` of camo-circuit) and
  removes peers that circuits of other devices use; a session that ends during a
  rotation leaves a circuit behind (`main.go:113`). It compares server ids and removes
  keys: that servers do not announce one another's keys is checked nowhere, and if they
  did, a teardown would remove a peer of its own replacement. Since no rotation ever adds a
  peer (`RotationNeverAddsPeers`), the peers that can go are those of the configuration.
* `forwardEvents` only logs (`api.go:124-135` of camo-apncore), as its own comment says, although `api.go:38-39` says that
  the server "forwards session events to camo-circuit" and lines 58-60 that connected listeners
  receive them: no listener learns anything. The lines it logs by default hold the IMSI and
  the start and end of sessions, which section 6.2, B4, says defaults to off.
* The mock adapter is documented as "Thread-safe" (`mock.go:45`). Its maps are, but two
  goroutines that drive one device may send their events in the other order (`mock.go:114` and
  `:130` come after the unlock), and the log then ends with a session that is gone. This is why
  `LogAccountedFor` and `TerminationLogged` are about devices with one driver.
* A dormant SIM may wait longer for its check than the 3600 seconds of section 7.9: the
  ticker has that period, and a pass takes time. `ProbedInTime` states the bound that holds,
  an interval and a pass, and the backoff for a SIM that failed.
* The deduplication key of a record has a resolution of one second (`record.go:131`): the
  record of a node that restarts within the second is taken for a duplicate.
* `RotationInterval` (`main.go:22` of camo-circuit) is read from the configuration and never
  used, and `rotate` programs no routes, step 2 of section 10.3.
* `add_peer` and `remove_peer` panic after the fact on a key of fewer than eight
  characters (`main.go:226` and `:234` of camo-wireguard).
* `allocate` (`pool.go:68`) does not ask whether the token already has a SIM; a
  repeated call leaves the first SIM busy. This is why `NoLeakedSIM` is stated for
  fresh callers (`FreshSpec`).
* The empty token marks a SIM as idle (`pool.go:68`), so a session under it would not
  own its SIM. The proof of `SessionsExclusive` assumes `NoSession` is not a token.
* A SIM that fails a probe and recovers goes dormant during its session
  (`pool.go:127`), and a drain after an outage can undercut `minActiveCount`
  (`rotation.go:167`). This is why `BusySIMIsActive` and `ActiveFloor` stop at the
  first outage.
* Promotions are not matched by retirements while SIMs are busy (`rotation.go:126`):
  the subset can outgrow the 60% of the specification (section 7.4).
* `allocate` never reads `LastActive`, whatever its comment says (`pool.go:50`).
* Exit-capable nodes may be middle hops (`constructor.go:172`), the three
  jurisdictions are required of the candidates and not of the circuit
  (`constructor.go:64`).
* Nothing refreshes `LastSeen` of a node's own entry (`store.go:125`), so it becomes
  inactive.

## What is proved

Proved with TLAPS for all values of the constants that satisfy the named
assumptions (`ConstantsAssumption`, `BuildAssumption`, `StoreAssumption`,
`NetAssumption`, `RotationAssumption`, `AdapterAssumption`, `CapAssumption`, `PassAssumption`).
Every invariant and every action property that a passing run checks has a theorem.

* **SimPoolProofs.** `TypeCorrect`; `SessionsExclusive`, inductive together with the
  types, needing that the empty token is not used; `NoSIMLeaks` and
  `PoolImplementsLease` for fresh tokens, where `SessionOwnsSIM` and `NoLeakedSIM` are
  inverse to each other and only jointly inductive; `BusyStaysActive` and
  `FloorHolds` up to the first outage, `RotationsRefill` throughout. `FloorHolds` rests on
  `FloorInv`: the active subset has, above the target, one SIM for every retirement that is
  pending in any drain. That is a count on purpose. With overlapping drains a SIM can be on
  two lists, and be retired by one, promoted again and retired by the other, so
  "the active SIMs on no list reach the target" is not inductive; the count is, because
  a rotation promotes at least as many SIMs as it puts on its list and a drain retires at
  most as many as leave with its list. `RotationsMakeAvailable` is the step that
  `ExhaustionEnds` depends on: a rotation promotes a SIM if there is a dormant one, and before
  the first outage a dormant SIM is idle.
* **CircuitBuildProofs.** `BuildsWellFormed`, from an invariant that separates the hops
  chosen from the nodes remaining; `RelaxesOnlyWhenForced`, which needs in addition that
  what remains is exactly what the hops leave of the candidates;
  `FailsOnlyForWantOfExit`, which counts: distinct hops and remaining nodes together are the
  candidates, so nodes run out only if there are fewer candidates than middle hops.
* **ScoreNodesProofs.** `Sorts`: the inner and the outer loop of the insertion sort keep an
  order (by score, then by position in the input) on the part sorted so far, except at the
  element being inserted, and every step leaves a permutation of the input. It states its
  hypotheses on the constants itself (`ScoreConstants`).
* **GossipStoreProofs.** `ForwardsOnce`, inductive with "what was forwarded is in the
  seen set"; `ExpiredStaysExpired`, an action property; `ListsLiveNodes`, inductive as "a
  listed node has an entry and was live at the last check, which is recent".
* **GossipNetProofs.** `BootstrapDecides`: for every set closed under bootstrap lists,
  neither the records nor the messages of its servers leave it. `FloodReachesAll` is the
  safety half of `Discovery`: once all nodes run, every peer of a node that sent an announced
  record has seen it or has it on the way (`Flooding`), as long as no node crashes and no
  send between running nodes fails; when nothing is on the way the senders are therefore a closed set, which contains `Reach`. It
  starts from any reachable state in which all nodes run, whatever faults came before, and
  `Discovery` says in addition that the flood ends or another fault happens.
* **CircuitRotationProofs.** `StoreIndexed` rests on the freshness of tokens: the token of
  the rotation under way is in neither map (`JobFresh`). `TearsDownOldOnly` follows a circuit
  from the snapshot (`SnapshotOnce`) through a rotation (`JobOnce`) to its teardown: at each
  stage nothing else refers to it, and the store has it at most for its own device, where
  the put replaces it. `RotationNeverAddsPeers` follows from what the two parsers behind
  `add_peer` accept.
* **ApnAdapterProofs.** `FeedIsComplete`: for a device with one driver, the event being sent,
  else the last one in the channels, else the log tells the session. The lemmas are about the
  concatenation of the two channels and the pump, which a pump step leaves alone.
  `RefinesFeed`: every step is a step of SessionFeed or leaves its variables alone, with the
  queue of a goroutine mapped to a scan (`Changes`) of all that is on its way. The lemmas say
  what the scan yields when an event is added at either end.
* **SimBackoffProofs.** `BackoffDoubles`: the loop computes the interval times a power of two,
  capped. `RetriesInTime`, from an invariant (`SinceTurn`) that relates the time since the last
  probe to the time since the tick whose pass dealt with the SIM and to the age of
  `LastHealthCheck`.

`Changes` and `AfterRounds` are recursive functions. What they compute for every input is
proved from the fact that a set of natural numbers has a least element
(`LeastElement`): there is no least input at which the claim fails.

Only model-checked: the liveness properties (`UnavailableRecovers`, `ExhaustionEnds`,
`Discovery`, `FloodEnds`, `DueCircuitReplaced`, `TerminationLogged`) and the fairness that
`ImplementsFeed` includes. They need ENABLED and fairness, which the prover does not
reason about.

## What is not modelled

* Cryptography: a message that fails verification has no effect. JSON framing, logging,
  configuration files and the containers under `deploy`.
* The kernel's WireGuard device, the real APN core and the carrier checks: they are
  outside the repository, and the models allow them any answer the code provides for.
* `set_route` and `clear_route` of the APN adapter: they write a map that nothing in the
  repository reads. The read-only commands (`list_sessions`, `stats`, `get_node`, `node_info`, the WireGuard
  `list_peers`) change no state, and no other daemon in the repository sends them.
* Heartbeats between several nodes with time. GossipStore has heartbeats and time on
  one node, GossipNet several nodes without time; the product is too large to
  explore, and what it would add follows from `ListedIsLive`.
* The key file (`keys.go`): one `os.WriteFile` call. What a crash leaves of the file is up
  to the file system, and the code has no recovery to check.
* The float product in `targetCount`: `ActiveShare` is a constant, and the proofs hold for
  each of its values.
* Growth: the seen set, the learned addresses and, while SIMs are busy, the active subset
  have no bound in the code that a property could state.
