# V2ProDock in TLA+

V2ProDock keeps N local proxy instances serving. Each instance is one xray child
on a SOCKS port of its own, behind an HTTP bridge; the upstreams it may use come
from subscription sources. The daemon (`v2proxy/`, Go) finds a distinct working
upstream for every instance, replaces those that die, refreshes the pool, and
offers stable endpoints that forward each client to the best instance. The
gateway (`vpn-gateway/`, shell) consumes the daemon from another container.

This directory holds TLA+ models of the parts where goroutines share state, the
TLC configurations that check them, and TLAPS proofs about nine of them.
`PROJECT.json` maps every definition to the lines it models and lists the
hazards, the runs, one mutation of the code per checked property, the findings
and the theorems.

## 1. Inventory

| Part | State it keeps | Operations | Hard because |
|---|---|---|---|
| Source breaker (`srcBreaker`, manager.go) | failures and rests per source | `allow`, `note` | refreshes of the ticker and of POST /refresh overlap between the two calls |
| Startup (`Start` manager.go, `startShared`, `tryConfigs` selector.go) | rounds, `used`, probe ledger (`bad`, `claimed`), child and index per instance | rounds of up to `probeWorkers` scans | the ledger and `used` have separate locks, seven exits from a scan, deadlines, retries |
| Failover (`HealthCheckAll`, `WatchdogCheck`, `SwitchToNextExcluding`, `RefreshSubscriptions`, `reconcileActive`, `recoverInstance`) | pool, active index, strikes, child and mutex per instance, statuses | check, strike, switch, swap, restore, update, retain, rotate, recover | a switch holds the instance's mutex for its snapshot and its swap but not for the search of a minute between them; statuses are under another mutex |
| /check (`CheckURL`, urlcheck.go) | cache with TTL and limit, in-flight table | get, begin, probe, finish | single flight, requests of different depth, clients that leave |
| Stable endpoints (aggregate.go, `probeRelay`) | the relay gate | ladder, dial, fail over, relay, probe | a ladder is made once and walked for seconds, a dial budget is shared, the gate's probe is a client of the gate |
| HTTP bridge (httpproxy.go) | connection slots, open connections, egress ledger | plain request, CONNECT, dial with timeout, relay pair | four goroutines per request, late dials, half-closed tunnels |
| Idle detection (`ServingTraffic`, `servingClients`, `procSocketEvidence`) | egress ledger, `servingUnproven` | is an instance serving clients? | two reads of /proc that the daemon's own probe may fall between, blindness with a clock, and seconds between the answer and the swap it allows |
| Children and their prune (selector.go, watchdog.go, proc_unix.go) | processes, `xrayCmd` and `tempPIDs` per instance | launch, register, stop, kill what nobody owns | a child runs before it is registered; the prune reads one instance after the other |
| Probing (`raceProbe`, `classifyProbe`, healthcheck.go) | none | race of probe legs, verdict | the verdict depends on the order of the answers |
| Subscriptions (`FetchSubscription`, `fetchMergedReport`, subscription.go) | none between refreshes | fetch with retries, merge, parse, rank | parallel merge, partial failure, an older refresh that reports last |
| xray config (selector.go), processes (proc_*.go) | none | render JSON, start and kill process groups | pure construction; system calls |
| API (api.go) | none | status, proxies, refresh, check | it reads; the operations it starts are above |
| Main, configuration, logger | flags, constants | loops, parsing, output | order of start |
| Gateway (vpn-gateway/watchdog.sh, entrypoint.sh) | pinned upstream, tunnel process, device and routes, proof failures, status.json | pin, start, prove, re-pin, revive, drop | acts on answers of an earlier second; a start or a proof fails half-way |
| Installer, clean-IP scan | none between runs | one-shot scripts | - |

How they interact: `main` opens the stable endpoints, runs `Start` and then the
health loop (`HealthCheckAll`, `WatchdogCheck`, `probeRelay`) and the
subscription ticker; the API may start another refresh at any time. Statuses,
under the manager's mutex `m.mu`, are what the endpoints, the API and the loops
read of each other; instances are behind `s.mu` each; the egress ledger goes
from the relays of bridge and endpoints to the health check, where it vouches
for an instance whose probe failed.

What makes the parts correct: no upstream on two serving ports, and no claim
without a holder (startup); the index and the child agree and the system finds
its way back to service (failover); rests are earned, bounded and come to an end
(breaker), and a source that is back is in the pool again (subscriptions); one
flight per URL, nobody left waiting, cached answers as deep as asked (/check);
the right head of a ladder, and a client that is relayed or cut (endpoints); bounded handlers and no connection left behind
(bridge); no owned child killed and no orphan left (prune); no verdict that one
target's bad day decides, no client cut that was seen, and no slow instance kept
for ever (probing and idle detection); a proof that is one of the tunnel, and a
way back to it from every state (gateway).

## 2. Modules

| Module | Models | State and code |
|---|---|---|
| `SourceBreaker` | breaker, the refreshes around it and the parallel fetch of the sources | `fails`, `skip` are the maps of the struct, an absent key of `skip` is `NotResting`; `merged`, `failed` are what `fetchMergedReport` returns, `pool` the configs of an instance; one action per `allow`, `note`, fetch and `UpdateConfigs` |
| `Populate` | startup | `phase`, `round` are the locals of `Start`; `bad`, `claimed` the ledger; `used` the map of `Start`; a worker's `pc` stops wherever another goroutine can see it |
| `Assignment` | what startup promises of owners | an instance gets at most one upstream, for good, of its own, before startup ends |
| `Serving` | what startup and failover promise of ports | a port goes from one upstream to another through silence only, and no upstream is on two ports; `serving` is `xray` in both |
| `Failover`, `FailoverMC` | health loop, watchdog, refreshes, recoveries | `configs`, `active`, `fails`, `xray`, `mu` per instance are `ProxySelector`; one action per critical section; a swap is several steps (stop, launch, verify, restore), as what it does to the port is visible without the mutex; so is a rotation (`AskPeers`, `CandidateWins`, `Rotate`), which probes for seconds between two readings of the pool |
| `Probe` | the race of a probe's targets | `got`, `first` are what has come out of the channel of `raceProbe`, `verdict` is `classifyProbe` of what it returns |
| `Rotation` | one instance under its health loop, its clients and the refreshes that may rotate it; contains `Probe` | `fails`, `lat`, `measured`, `noted`, `unproven` are `failCount`, `lastLatency`, `lastProbe`, the egress ledger and `servingUnproven`, the last three as ages; `own`, `seen` the locals of `procSocketEvidence`; one action per read of /proc, per lock and per decision of `reconcileActive` |
| `UrlCheck` | /check | `stored`, `at`, `cached` are `entries`; `inflight` the flight table; get, begin and finish are one step each |
| `Aggregate` | endpoints and relay gate | `ok`, `latency`, `streak` are the fields of the statuses a ladder reads; `stage` where the goroutine of a connection stands, `left` its failover budget. A ladder is the function that puts each status in its place: behind all that come before it in the two lists of `orderedAlive` |
| `Bridge` | HTTP bridge | `slots`, `holding` are `connSem` and the `sync.Once` of every release; `dial`, `reaping` the dialling goroutine and its reaper; `dirs`, `pair` the relays |
| `RelaysMC` | both | the two are independent, and are checked side by side |
| `Children`, `ChildrenMC` | xray processes and the prune | `proc` is what /proc knows, with zombies; `xrayCmd`, `tempPIDs` the registrations; `pc`, `child` the swaps and probes that have a child in their hands; `prune`, `at`, `found`, `keep` the locals of `pruneOrphanXray` and `managedPIDs`, which reads one registration a step |
| `Gateway` | vpn-gateway/watchdog.sh | `pin` is CURRENT_SOCKS, `fails` PROOF_FAILS, `hev`, `device`, `route` the tunnel; `status` the file; a step ends wherever the script waits for an answer |
| `SourceBreakerProofs`, `PopulateProofs`, `FailoverProofs`, `RotationProofs`, `UrlCheckProofs`, `RelayProofs`, `ChildrenProofs`, `GatewayProofs` | proofs | section 5 |

`Populate` and `Failover` meet at a state, not at a step: what `Start` leaves
behind (`Handover`) is what `Failover`'s `Init` allows. `Bridge` and `Aggregate` are both read by `RelayProofs`,
which is why the formulas of the second have names of their own (`AggInit`,
`AggNext`, `AggSpec`). The bytes that endpoints and bridge enter in the egress
ledger are `Bytes` in `Rotation`, which reads it.

Operators introduced as "Mutated" in a module are wrong forms of the definition
that follows them. No specification uses one: they are what the properties have
been tried against.

### Abstractions

- A config is its `Key()`. A pool is a set of keys chosen by the environment, so
  no order of a shuffle is left out. In `SourceBreaker` the configs of a source
  are the source. A fetch of it is one action, possible whenever the source is
  in the state that the fetch would find at its last attempt: attempts before
  that change nothing.
- Verdicts of probes are choices, constrained by which upstreams work.
  `Populate` lets a healthy upstream be throttled or its child starve but never
  be rejected; a bad one may do anything, even be adopted, and a child may die as
  soon as it is adopted (`Crash`). In `Failover` upstreams die and revive.
- `Failover` chooses the winner of a search at its snapshot. The search itself
  reads nothing that others write; whatever happens to the winner, the pool or
  the instance until the swap is interleaved. In the same way `CandidateWins`
  stands where a rotation reads the pool (manager.go:779) and chooses the candidate
  that will win; whatever happens during its probe is interleaved before `Rotate`,
  which reads the pool again, as the switch then does once more.
- The semaphore that spaces out the recoveries of a refresh is left out: a
  recovery waits for mutexes only. A permit is held by a recovery that ends, so
  this leaves out a wait and no circle.
- In `Bridge` the descriptor of a dial counts as open from its answer. The SOCKS
  handshake before it holds one too; if it never ends, the dialling goroutine and
  its reaper stay with it.
- `MayRetain` reads the strikes of the instance and the active configs of its
  peers in one step; the code does so under one mutex after the other. With two
  instances, as in the runs, the peer-by-peer reading of `buildExcluding` is
  exact.
- `SkipCheck`: an instance checked less than an interval ago is skipped, as
  `ShouldCheck` does; since a check ends a little after its tick, that is
  possible on every second tick, and never on two in a row.
- `Rotation` has one instance, and time in it is the ages of things, in ticks of
  its health loop. A swap always leaves a child; which one, and the swaps that
  do not, are `Failover`'s. The tables of `procNetTCPFiles` are read in one step,
  after the read of `procOwnInodes`. A direct client is connected to the port of
  the child; of a bridged one the child sees a connection of the daemon.
- `m.mu` is not a variable: what it protects are single reads and writes of
  statuses, and nothing waits for an `s.mu` while another goroutine holds that
  one and waits for `m.mu`.
- Strikes are counted to `FailThreshold` and breaker failures to `FailCap`, the
  last values the code tells apart.
- In `Aggregate`, time is what silent dials take; a refused dial is free. In
  `Bridge`, "the wait is over" is a choice in competition with what is waited
  for. The requests of `Bridge` are those of all instances, as `connSem` is
  global; `noted` is the ledger of one instance.
- An answer in `UrlCheck` is only the depth it is labelled with.
- In `Children` a pid is never used again, and the scan of /proc is one step: a
  process it would have met half-way is met by the next tick or is no process
  any more when it is to be killed. `Grace` waits until a child that was found
  unregistered is registered: the grace of 500 ms (watchdog.go:111) is longer
  than the 100 ms of `xrayCrashDetect` between `cmd.Start` and the registration.
  That is an assumption about time that the code makes too; `GraceOverTrusts`
  shows what depends on it. `tempMu`, which makes the probes of one instance
  launch one after the other, is left out: more interleavings, not fewer.
  Launches of startup are not there, as the prune runs after it.
- In `Gateway` an address is an exit and the loop's messages are left out. The
  old tunnel process is gone before the new one starts (the script gives it a
  second), and without the rule and the route of table 100 a proof through the
  tunnel has no answer (watchdog.sh:188-194); both are taken from the script.
  A failing request for the list is an empty list.

## 3. Runs

| Run | Bounds | What it shows |
|---|---|---|
| `breaker` | 2 sources that come and go, ticker and API refresher, threshold 2, rest of 2 refreshes | With overlapping refreshes a rest is backed by enough failures in a row and ends; a source that stays up is in the pool for good. Two refreshers are enough: every race is between an `allow`, `note` or `UpdateConfigs` and one other. |
| `populate` | 3 instances, 2 upstreams (one healthy), 2 permits, 2 rounds, 2 attempts, `serveMinReady` 2 | Uniqueness within and across rounds, no lost claim, honest statuses, an end, the states that `Failover` begins with (`Handover`), and `Assignment` and `Serving` implemented (`KeepsPromises`). More instances than permits, so that somebody queues, and than upstreams, so that rounds run out. |
| `failover` | 2 instances, 3 upstreams, startup has served both or one; 4 mishaps, children that died during startup among them, or one refresh | Until the refresh, `Serving` is implemented: no upstream on two ports, not even while a winner is being verified; ports fall silent between two upstreams always; nothing but `RetainActive` parts index and child; the refresh ends; and the instances heal, although it may drop the active config of one in the middle of a switch. Four mishaps are enough for strikes at the threshold, a winner that dies in the swap and a restore that fails. A started recovery, the refresh and the health loop work on the same instances. A refresh weighs as much as all mishaps: both together take TLC more than a few minutes, so a fault beside a refresh is left to the proofs, which have no bounds. |
| `url_check` | 2 callers, 3 URLs, cache of 2, depths -1..2 | One flight per URL, no joiner forgotten, a bounded cache without errors, whose answers are as deep as asked, an answer for everyone. One URL more than fit the cache, so that eviction happens. |
| `relays` | 3 requests on 1 slot; 1 client of an endpoint and the relay probe, 3 instances, budget 3 in shares of 2, 3 reports | Bridge: handlers are bounded, late dials and failed hijacks leave no connection open, tunnels close as a whole, and every handler returns unless its client stalls its body. Endpoint: a ladder is whole and in tiers, its head is the instance the older single-backend rule would pick, silent candidates do not starve the others, no client is kept waiting. |
| `children` | 2 instances, 1 prober, 1 orphan, 3 launches | The prune spares every child that is registered or about to be, and kills the orphan although swaps keep it waiting for mutexes. Three launches are a swap that is rejected and restored beside a probe. |
| `rotation` | 1 refresher, 1 direct and 1 bridged client, 2 legs (one of Telegram's kind), threshold 2, graces of 1 and 2 ticks | In every order of answers a probe that is accepted is not outvoted; what a failed race is taken for depends on the order (see below); no rotation cuts a direct client that its scan could have seen; blindness gives a child up after a whole grace of its own and not before, and a slow instance is left in the end. Graces of 1 and 2 ticks keep the order of the real ones (90 s, 5 refreshes); a check is over before the next tick, as in the code. |
| `gateway` | 2 instances, 2 exits, 3 proof failures to a rotation, 2 tries of the first loop | A proof is one of the upstream it names although the instances may share an exit, and from every state that flaps, dying tunnels, half-done starts and restarts leave behind, a calm world leads to a proven tunnel that stays. Three failures, not ten: the count is only compared with its limit. |

Three upstreams for two instances is the smallest number for which a switch has
a choice; three reports reach all three regimes of the ladder's partition. With
these bounds a status, a latency or an upstream changes at every point of
somebody else's walk, search or swap.

### Disagreements between the code and what it says of itself

Each of these is a run in which TLC finds the sentence violated:

| Run | The sentence | What the code does |
|---|---|---|
| `recovered_unique` | "unique-claim guarded" (manager.go:677-679) | `recoverInstance` compares the key it switched to with the exclusions it searched with (manager.go:690), which that key never is one of. A key a peer took meanwhile goes unnoticed. |
| `failover_rotation` | "so the instance can never strand on a random third proxy" (manager.go:798-800) | The exclusions of a rotation are made from one reading of the pool (manager.go:801-806), its switch makes another. If an overlapping refresh replaces the pool between the two, whatever is new is a candidate, and the switch may land on it. |
| `breaker_rearm` | "failure re-arms" (manager.go:67-68) | The key of a spent rest stays in `skip` at 0, so `note` (manager.go:111) never arms a second one: a dead source is then fetched on every refresh until it succeeds once. |
| `bridge_connect` | "released by the RELAY PAIR, not by this handler's defer" (httpproxy.go:270) | The handler's `defer releaseSlot()` (httpproxy.go:284) runs as soon as the relays are started. `MAX_CONNS` does not bound tunnels. |

These were met while reading the code or by giving a run other bounds; the models
translate what the code does, and no run is about them:

| The sentence | What the code does |
|---|---|
| "Watch one health tick for `relay egress alive`" (docs/CF_RELAY_WORKER.md:35-36) | `probeRelay` (manager.go:600) connects to the relay endpoint, which closes every connection while `relayAlive` is false (aggregate.go:89-93); nothing else sets it: theorem `RelayStaysDark`. |
| "the API is always current" (watchdog.sh:46-47), "ok=false means VPN disabled/not booted yet" (api.go:24) | status.json outlives the gateway that wrote it, and nothing clears it: after a restart, or with the gateway disabled, GET /vpn goes on answering with the last proof until the new life first writes. |
| "a shallower one must NOT satisfy a deeper request" (urlcheck.go:81-83, 354-355) | Only cached entries are compared with the depth. A caller that joins a flight takes its answer, however shallow (urlcheck.go:358): the exception in `OnlyJoinersAreShort`. |
| "throttled targets staying inconclusive" (healthcheck.go:208-211) | A race that nobody wins returns its first answer, whatever the others are: a target that throttles is inconclusive if it answers first, and is outvoted by a silent or failing one that came before it. So `VerdictIsJust` says of a rejection only that no answer was accepted and that the first was not a throttled one. |
| "no legitimate long-poll is ever at risk because of a transient table read" (constants.go:226-228) | The clock of blind scans is cleared by a proven scan or a new child only. Recent bytes short-circuit the scan (manager.go:758), so a single blind read of long ago and a second one now are a grace that has expired (selector.go:187-194). `ExpiryIsEarned` is what is left: the child has been there for that long. |
| "Together they make idleness a PROVEN condition" (manager.go:750-756) | A client of the bridge or of a stable endpoint whose connection has been silent for longer than `egressGrace` is not counted: its socket at the child is the daemon's own. It is cut by a rotation, as any client is by a failover. `SeenIsSpared` is about direct clients. |
| "pool order IS the preference order" (subscription.go:145-160) | `orderByDPIRank` is undone by `shuffleConfigs` at startup (manager.go:467) and in every refresh (manager.go:650). |
| "Start only returns when ALL instances hold a working proxy" (main.go:168) | It also returns with `serveMinReady` of them, and with none when its rounds are spent (manager.go:428-442, 512-526): `Handover`. |
| "Detect immediate crashes" (selector.go:1093) | The check is `processAlive`, whose signal 0 also reaches an unreaped child (proc_unix.go:27-30), so on unix a child that crashed at once passes it. The wait for its port finds out. |

What `RecoveredIsUnique` finds is also why `ImplementsServing` claims unique ports
until the first refresh only: after it, two goroutines that search at the same time
can end on one upstream, and what is left of `Serving` is that ports fall silent in
between (`PortsFallSilent`). That index and child agree is not an invariant
either: the health loop may switch an instance between the `UpdateConfigs` that
dropped its active config and the `RetainActive` that puts it back, which leaves
the index on the retained config and the child on another. `OnlyRetainParts` says
that this is the only way. The index never leaves the pool, though
(`IndexNeverDangles`), and `Heals` shows that such an instance is served all the
same.

## 4. Fairness

Liveness is checked under weak fairness of whole goroutines, with two exceptions:

- loops that tick for ever (`subscriptionLoop`, `healthCheckLoop`) and calls
  that return: probes, binds, fetches and dials have timeouts in the code;
- waiters for a mutex or a permit: Go's mutexes and channels serve waiters in
  turn. In the models a goroutine's step is only briefly disabled by a swap, and
  weak fairness of the holder ends the swap;
- nothing obliges the world: upstreams, crashes, throttling, POST /refresh,
  clients, bodies, tunnels and the target of a dial have no fairness. A plain
  request has deadlines for its connection to the target only (httpproxy.go:208),
  and `http.Server` has one for the header only (httpproxy.go:119-123): a client
  that stops in the middle of its body pins its handler and the slot. So the
  step after `Sent` is fair and `Sent` itself, which ends when the body does, is
  not, and `EveryHandlerReturns` speaks of a request up to the place "send" and
  from the place "head" on. `Heals`
  says what happens in the long run, when no refresh is in progress any more:
  if every instance either is served or has a working upstream that neither it
  nor a peer has as active, then every instance is served and reported ok;
- `Rotation`, an exception: a refresh is strongly fair, as the mutex it needs again
  and again is free between checks, and `sync.Mutex` hands itself over after a
  millisecond. So are two outcomes, and this is an assumption about the world:
  that a refresh that goes on probing candidates comes upon one that is faster
  (every refresh shuffles the pool, so the first `rotateMaxCandidates` are other
  ones each time), and that what has won twice on a port of its own is adopted
  on the serving one some time. `SlowIsLeft` asks what the daemon makes of such
  a world. Its conclusion allows for one way out: a daemon that scan after scan
  dials the child between its two reads of /proc, and takes its own socket for a
  client's;
- `Children`, the other exception: the prune is strongly fair. It waits for the mutex of an instance
  that swaps may take again and again, and Go's `sync.Mutex` hands itself over to
  a waiter after a millisecond. A swap ends, as each of its waits has a limit;
  nothing obliges one to begin;
- `Gateway`: the script, every wait of which has a limit, with the restart by
  Docker that its exit relies on (`restart: unless-stopped`), and a tunnel
  process that lives gets its device. The list, exits, deaths and kills have no
  fairness; `Recovers` speaks of a world in which they have ceased, but in which
  the list goes on being reordered by latency.

`SourceBreaker`, `Populate`, `Failover`, `Rotation`, `UrlCheck`, `Children` and
`Gateway` are checked for deadlock; `Bridge` and `Aggregate` end when their clients have gone.

## 5. Proofs

`SourceBreakerProofs`, for any sources, refreshers and constants:

- `RestsAreEarned`: `Spec => []RestNeedsFailures`. Inductive with `TypeOK`:
  `note` is the only writer of both maps and `allow` never makes a key.

`PopulateProofs`, for any instances, upstreams, permits, rounds and attempts:

- `TypeCorrect`, `Uniqueness` (`OneHolder`): uniqueness is not inductive. A
  claim keeps the workers of one round apart, but a round starts with a fresh
  ledger, and what keeps its workers from an upstream of an earlier round is
  their copy of `used`. `IInv` joins both: who holds a key of this round has it
  claimed (`HeldIsClaimed`), a candidate is not among the keys served when the
  round began (`CandidatesAreFree`, `Known`), `used` is the inverse of the
  instances that are ok (`UsedIsOk`), and workers work for missing instances.
- `StatusIsTrue` (`StatusIsServed`): by `IInv` and `Port`, what the child of an
  instance is at each place of a scan.
- `ClaimsAreHeld` (`NoClaimIsLost`), `LedgerIsFair` (`HealthyIsNotPoisoned`): by
  `IInv` and one strengthening each.
- `HandsOver` (`Handover`): a return finds every worker gone, so `Port` says of
  each instance that it is ok and served or has nothing left; `OneHolder` makes
  what is active unique.
- `Refinement`: `Spec => Abstract!Spec`. Registration is `Assign`, whose
  condition that no peer owns the key is lemma `NeverTaken`; a return is `End`;
  everything else stutters, because no round touches an instance that is ok.
- `Promises` (`KeepsPromises`) adds `Serving`. What is on a port is held by the
  instance of that port (`ServedIsHeld`), so a child that starts, whose key its
  worker holds, starts with one that is on no other port; and a worker launches
  only with its own port silent (`Port`).

`UrlCheckProofs`, for any callers, URLs, depths and limits:

- `SingleFlight` (`OneFlight`), `NoJoinerIsForgotten` (`JoinedIsFlying`): who is
  in the table of flights leads, and, which makes it inductive, who leads is in
  the table (`LeadersAreListed`). `LandFlights` shows that finish, the one step
  that changes several callers, keeps both.
- `CacheIsBounded` (`CacheIsSound`): `StoreFits`, from the way victims are chosen
  before the entry is written.
- `CacheIsDeepEnough` (`OnlyJoinersAreShort`): who answers without having joined
  has led, and has its own depth, or has hit an entry that was compared with it
  (`DepthIsKept`, which follows a request from its first step).

`FailoverProofs`, for any instances, upstreams, refreshers and bounds, and with
refreshes that overlap in any way:

- `TypeCorrect`, with `RetainsAKey`: between the test of `MayRetain` and
  `RetainActive` the retained config is one.
- `SwapsExclude`: what is in a swap holds the mutex of its instance, whose port is
  silent but for the winner that is being verified (`SwapsHold`), and what holds a
  mutex is in a swap (`HoldersSwap`), where it asks for no other: no circle of
  waiters. This is inductive only with `RecoveriesAreOwned`, that a refresh does
  not restart a recovery that is at work, and so cannot lose one that holds a
  mutex; wg.Wait is what makes it so.
- `PortsFallSilent`: `Spec` implements `Serving!PortSpec`. Only a swap brings a
  child to a port, the winner or what was there before, and then the port is
  silent. A crash or the stop of another swap cannot come between.
- `IndexNeverDangles`: `active` is in `configs` or is no key. A swap sets the index
  at its end to a winner that it looked up in the pool at its start
  (`WinnersAreListed`): the pool is still the same, because `UpdateConfigs` and
  `RetainActive` wait for the mutex.
- `IndexFollowsChild` (`OnlyRetainParts`): at its end, a swap has what `SwapsHold`
  says on the port, and so sets the index to the child, or leaves the port silent;
  what moves the index outside a swap, but for `RetainActive`, takes it away.
  Faults beside refreshes, which the run leaves out, are in the theorem.
- `ServesAsPromised` (`ImplementsServing`) is about refreshes too: the first half
  is `PortsFallSilent`, the second claims something until the first of them. It is
  not inductive. `AloneInv` joins four facts: until the first refresh nobody but
  the health loop is at work (`OthersIdle`, as only a refresh starts anybody and
  is counted), a child is the active config or the winner being verified
  (`ChildIsKnown`), active configs are unique (`ActiveIsUnique`), and a switch
  excludes what its peers have as active for as long as it lasts, with a winner
  that is none of them and the old key that is still the active one
  (`ExclusionsHold`).

`RotationProofs`, for any legs, clients, refreshers and limits:

- `RaceIsJust` (`VerdictIsJust`): a race has a first answer as soon as it has
  one, and nothing accepted while it has no verdict.
- `ExpiryIsRare` (`ExpiryIsEarned`): the clock of blind scans is never older than
  the child, because everything that brings a new child stops the clock.
- `SeenAreSpared` (`SeenIsSpared`): from a scan that found nobody on, every direct
  client that is connected has come since.

`RelayProofs`, of the bridge, for any requests and any `MAX_CONNS`:

- `Bounded` (`HandlersAreBounded`): `Accounting`, every token is in `connSem` or
  with one request, and `BusyHolds`, who is busy has one. `ReleaseBalances` is
  the lemma about the release that may come twice.
- `NoLeak` (`NothingLeaks`): with `DialsAreAwaited`, the answer of a dial has
  somebody who takes it.

And of the stable endpoints, for any instances, clients, latencies, streaks and
budgets:

- `LaddersAreTiered` (`LadderIsTiered`) and `HeadsAreBest` (`HeadIsBest`) need no
  induction over the run: they hold of every ladder that well-typed statuses can
  be made into. The place of a status is how many come before it (`Before` is a
  strict total order), so two statuses have different places (`PlacesDiffer`),
  and by the pigeonhole principle every place is taken (`PlaceIsTaken`): the
  ladder is a permutation (`LadderIsWhole`), ordered as the two lists are. Its
  head has nobody before it, in each of the three regimes (`HeadIsPicked`).
- `SilenceCosts` (`SilenceIsShared`): inductive with `WalksInOrder` (a candidate
  once passed is not dialled again), `SpentInShares` (what is left and the shares of the silent
  candidates together are the budget, as long as any is left) and `CutAtAnEnd`
  (nobody is cut before the end of the ladder or of the budget).
- `RelayStaysDark`: the gate of the relay endpoint stays shut, since its probe can
  only be relayed once it is open (`GateIsShut`). No property of a run states it:
  it is the second table of section 3 that does.

`ChildrenProofs`, for any instances, probers and pids:

- `OwnedAreSpared` (`OwnedIsSpared`): the second reading decides. When it begins,
  whoever holds a child that was found has registered it, and what is launched
  from then on was not found (`NewbornsAreNotFound`). So whatever is found and
  owned where the reading has been is in `keep` (`Kept`, which is relative to how
  far the reading has come), and victims are what is not. `Hands` and
  `Registered` say who has which child at each place of a swap or a probe, and
  that no two have the same.

`GatewayProofs`, for any instances, exits and limits:

- `ProofsAreOfThePin` (`VerifiedIsTheTunnel`): two exits that agree say nothing
  about upstreams, so an invariant must. A start takes the route away, and only
  its end brings it back, with the pin (`RouteIsPin`); so a proof that has an
  answer through the tunnel has it from a process that reads the pin, and during
  a proof the pin is its target (`Working`).

All of them rest on the named assumptions of their modules and nothing else. Type
correctness is a theorem of each (`TypeCorrect`; `BridgeTypeCorrect` and
`AggTypeCorrect` in `RelayProofs`), which is why the runs of these modules do not
check `TypeOK`. Every safety property of every passing run is proved, and none
under a hypothesis beyond those assumptions.

Model-checked only: what is live. `SourcesReturn`, `RestEnds`, `StartReturns`,
`Heals`, `RefreshEnds`, `EveryoneIsAnswered`, `ClientsAreSettled`,
`EveryHandlerReturns`, `TunnelsCloseTogether`, `Recovers`, `OrphansDie` and
`SlowIsLeft` need fairness and ENABLED, which are beyond the prover.

## 6. Not modelled

- POST /refresh during startup (manager.go:652 behind the claims of the workers
  of manager.go:480-506): both are modelled, apart. A recovery knows nothing of
  the claims of a round, so it may take what a worker is about to register.
- A /check that runs out of its budget caches a partial answer under the full
  depth (urlcheck.go:417-431): `UrlCheck` labels an answer with the depth asked
  for, as the code does, and not with the probes that were made.
- The rebinding of a dead bridge listener by the watchdog (watchdog.go:177-185),
  and of the endpoints: nothing in the program closes a listener.
- The composition of `Rotation` with `Failover`: their states multiply.
  `Failover` takes from `Rotation` that an instance may be slow and idle, or not,
  at any time; `Rotation` takes from `Failover` that a swap ends, with a child.
- The parsers of subscription lines, the DPI ranking, xray's JSON, flags,
  environment, logging, system calls, the installer and the clean-IP scan:
  formatting, I/O, no shared state.

## 7. Plan

1. `StartupRefresh`: `Populate` with the recoveries of `Failover` in its way, and
   what of `Assignment` is left.
2. Partial answers in `UrlCheck`.
3. Of `ImplementsServing`, what is left after a refresh: which interleavings of
   recoveries and health loop put an upstream on two ports.
4. Faults beside a refresh for TLC too: `Heals` is checked with either, and is
   not one that can be proved.
