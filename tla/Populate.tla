------------------------------- MODULE Populate -------------------------------
(***************************************************************************)
(* Startup: ProxyManager.Start (v2proxy/manager.go) and the scan it runs   *)
(* on every instance, ProxySelector.startShared / tryConfigs               *)
(* (v2proxy/selector.go).                                                  *)
(*                                                                         *)
(* Start works in rounds. Each round fetches a pool, hands a shuffled copy *)
(* to every instance that is not ok, makes a fresh probe ledger and runs   *)
(* one worker per missing instance, at most Workers of them at a time. A   *)
(* worker walks its copy: it skips what another instance serves, what the  *)
(* ledger calls bad and what another worker has claimed, and starts xray   *)
(* on its own serving port for the rest, until a probe adopts one. Workers *)
(* share two things, each behind a lock of its own: the ledger (bad and    *)
(* claimed) and the map used of the keys that instances serve.             *)
(*                                                                         *)
(* A config is its Key(). The order of a worker's copy is whatever the     *)
(* shuffle made it, so a worker picks any candidate it has not visited.    *)
(***************************************************************************)
EXTENDS Integers, FiniteSets

CONSTANTS
    Instances,      \* the proxy instances
    Keys,           \* the upstreams the subscriptions may list
    Healthy,        \* the upstreams whose xray starts and whose probes are not rejected
    NoKey,          \* no upstream
    NoInst,         \* no instance
    Workers,        \* probeWorkers, the permits of the semaphore
    MaxRounds,      \* maxPopulateRounds
    MaxAttempts,    \* probeMaxAttempts
    ServeMinReady   \* serveMinReady

ASSUME PopulateAssumption ==
    /\ IsFiniteSet(Instances) /\ Instances # {}
    /\ Healthy \subseteq Keys
    /\ NoKey \notin Keys
    /\ NoInst \notin Instances
    /\ Workers \in Nat \ {0}
    /\ MaxRounds \in Nat \ {0}
    /\ MaxAttempts \in Nat \ {0}
    /\ ServeMinReady \in Nat \ {0}

VARIABLES
    phase,      \* of Start: fetching a pool, probing it, or returned
    round,      \* the round Start is in
    status,     \* InstanceStatus.Status
    configs,    \* ProxySelector.configs, as a set of keys
    active,     \* the key at activeIndex
    xray,       \* the upstream of the child on the serving port
    used,       \* Start's map from served key to instance
    bad,        \* probeShared.bad
    claimed,    \* probeShared.claimed
    late,       \* the workers whose probeTimeout has passed
    pc,         \* where each worker stands
    excl,       \* a worker's copy of the keys of used
    todo,       \* the candidates a worker has still to visit in this pass
    key,        \* the candidate in a worker's hands
    respectBad, \* FALSE in the retry pass of startShared
    skipped,    \* this pass has counted a candidate worth a retry
    attempt     \* the attempts a worker has spent

coordVars  == <<phase, round, configs>>
ledgerVars == <<bad, claimed>>
scanVars == <<excl, todo, respectBad, skipped, attempt>>
workerVars == <<pc, key, scanVars>>
vars == <<coordVars, status, active, xray, used, ledgerVars, late, workerVars>>

\* "off" between rounds, "queued" for a permit, "attempt" at the head of the
\* attempt loop, "scan" at the head of tryConfigs, "claim" between isBad and
\* tryClaim, "launch", "bind" and "probe" on the way to a verdict, "adopted"
\* between startShared and the check of used.
Places == {"off", "queued", "attempt", "scan", "claim", "launch", "bind", "probe",
           "adopted"}

TypeOK ==
    /\ phase \in {"fetch", "probing", "served"}
    /\ round \in 0..MaxRounds
    /\ status \in [Instances -> {"starting", "ok", "down"}]
    /\ configs \in [Instances -> SUBSET Keys]
    /\ active \in [Instances -> Keys \cup {NoKey}]
    /\ xray \in [Instances -> Keys \cup {NoKey}]
    /\ used \in [Keys -> Instances \cup {NoInst}]
    /\ bad \subseteq Keys
    /\ claimed \subseteq Keys
    /\ late \subseteq Instances
    /\ pc \in [Instances -> Places]
    /\ excl \in [Instances -> SUBSET Keys]
    /\ todo \in [Instances -> SUBSET Keys]
    /\ key \in [Instances -> Keys \cup {NoKey}]
    /\ respectBad \in [Instances -> BOOLEAN]
    /\ skipped \in [Instances -> BOOLEAN]
    /\ attempt \in [Instances -> 0..MaxAttempts]

Init ==
    /\ phase = "fetch"
    /\ round = 0
    /\ status = [i \in Instances |-> "starting"]
    /\ configs = [i \in Instances |-> {}]
    /\ active = [i \in Instances |-> NoKey]
    /\ xray = [i \in Instances |-> NoKey]
    /\ used = [k \in Keys |-> NoInst]
    /\ bad = {}
    /\ claimed = {}
    /\ late = {}
    /\ pc = [i \in Instances |-> "off"]
    /\ excl = [i \in Instances |-> {}]
    /\ todo = [i \in Instances |-> {}]
    /\ key = [i \in Instances |-> NoKey]
    /\ respectBad = [i \in Instances |-> TRUE]
    /\ skipped = [i \in Instances |-> FALSE]
    /\ attempt = [i \in Instances |-> 0]

Missing == {i \in Instances : status[i] # "ok"}
Alive == {i \in Instances : status[i] = "ok"}
Served == {k \in Keys : used[k] # NoInst}

-------------------------------------------------------------------------------
\* Start: the rounds.

\* serveReady(alive, total), for a total of at least one instance.
ServeReady ==
    /\ Alive # {}
    /\ \/ Alive = Instances
       \/ Cardinality(Alive) >= ServeMinReady

\* UpdateConfigs re-anchors the active config by key: it survives a pool that
\* still lists it and is lost otherwise.
Reanchor(i, pool) == IF active[i] \in pool THEN active[i] ELSE NoKey

\* Mutated: a round that does not count, and one that hands the new pool to the
\* instances that serve as well.
FetchPoolUncounted(pool) ==
    /\ phase = "fetch"
    /\ round < MaxRounds
    /\ phase' = "probing"
    /\ configs' = [i \in Instances |-> IF i \in Missing THEN pool ELSE configs[i]]
    /\ active' = [i \in Instances |-> IF i \in Missing THEN Reanchor(i, pool) ELSE active[i]]
    /\ pc' = [i \in Instances |-> IF i \in Missing THEN "queued" ELSE "off"]
    /\ bad' = {}
    /\ claimed' = {}
    /\ late' = {}
    /\ attempt' = [i \in Instances |-> 0]
    /\ UNCHANGED <<round, status, xray, used, excl, todo, key, respectBad, skipped>>

FetchPoolForAll(pool) ==
    /\ phase = "fetch"
    /\ round < MaxRounds
    /\ phase' = "probing"
    /\ round' = round + 1
    /\ configs' = [i \in Instances |-> pool]
    /\ active' = [i \in Instances |-> Reanchor(i, pool)]
    /\ pc' = [i \in Instances |-> IF i \in Missing THEN "queued" ELSE "off"]
    /\ bad' = {}
    /\ claimed' = {}
    /\ late' = {}
    /\ attempt' = [i \in Instances |-> 0]
    /\ UNCHANGED <<status, xray, used, excl, todo, key, respectBad, skipped>>

\* A round whose fetch yielded a pool: every missing instance gets a copy and a
\* worker. Instances that are ok keep their configs.
FetchPool(pool) ==
    /\ phase = "fetch"
    /\ round < MaxRounds
    /\ phase' = "probing"
    /\ round' = round + 1
    /\ configs' = [i \in Instances |-> IF i \in Missing THEN pool ELSE configs[i]]
    /\ active' = [i \in Instances |-> IF i \in Missing THEN Reanchor(i, pool) ELSE active[i]]
    /\ pc' = [i \in Instances |-> IF i \in Missing THEN "queued" ELSE "off"]
    /\ bad' = {}
    /\ claimed' = {}
    /\ late' = {}
    /\ attempt' = [i \in Instances |-> 0]
    /\ UNCHANGED <<status, xray, used, excl, todo, key, respectBad, skipped>>

\* fetchPoolWithRetry failed; the round is spent all the same.
FetchFailed ==
    /\ phase = "fetch"
    /\ round < MaxRounds
    /\ round' = round + 1
    /\ UNCHANGED <<phase, configs, status, active, xray, used, ledgerVars, late, workerVars>>

\* Start returns: what is not ok by now heals in the background.
Return ==
    /\ phase' = "served"
    /\ status' = [i \in Instances |-> IF i \in Missing THEN "down" ELSE "ok"]
    /\ UNCHANGED <<round, configs, active, xray, used, ledgerVars, late, workerVars>>

GiveUp ==
    /\ phase = "fetch"
    /\ round = MaxRounds
    /\ Return

\* wg.Wait: a round ends when every worker of it has.
RoundOver ==
    /\ phase = "probing"
    /\ \A i \in Instances : pc[i] = "off"

\* Mutated: any instance is enough to return.
ServeWithAny ==
    /\ RoundOver
    /\ Alive # {}
    /\ Return

ServeEarly ==
    /\ RoundOver
    /\ ServeReady
    /\ Return

NextRound ==
    /\ RoundOver
    /\ ~ServeReady
    /\ phase' = "fetch"
    /\ UNCHANGED <<round, configs, status, active, xray, used, ledgerVars, late, workerVars>>

-------------------------------------------------------------------------------
\* A worker's scan of its candidates.

Running == {i \in Instances : pc[i] \notin {"off", "queued"}}

Goto(i, place) == pc' = [pc EXCEPT ![i] = place]

Acquire(i) ==
    /\ pc[i] = "queued"
    /\ Cardinality(Running) < Workers
    /\ Goto(i, "attempt")
    /\ UNCHANGED <<coordVars, status, active, xray, used, ledgerVars, late, key, scanVars>>

\* The probeTimeout of a worker runs out.
Expire(i) ==
    /\ i \in Running
    /\ i \notin late
    /\ late' = late \cup {i}
    /\ UNCHANGED <<coordVars, status, active, xray, used, ledgerVars, workerVars>>

\* Mutated: used is not consulted.
AttemptUnfiltered(i) ==
    /\ pc[i] = "attempt"
    /\ Goto(i, "scan")
    /\ todo' = [todo EXCEPT ![i] = configs[i]]
    /\ UNCHANGED <<coordVars, status, active, xray, used, ledgerVars, late, key, excl,
                   respectBad, skipped, attempt>>

\* startShared with a fresh copy of used: its keys are skipped in both passes,
\* so the scan is over the other ones.
Attempt(i) ==
    /\ pc[i] = "attempt"
    /\ Goto(i, "scan")
    /\ excl' = [excl EXCEPT ![i] = Served]
    /\ todo' = [todo EXCEPT ![i] = configs[i] \ Served]
    /\ UNCHANGED <<coordVars, status, active, xray, used, ledgerVars, late, key,
                   respectBad, skipped, attempt>>

\* The head of tryConfigs' loop: a bad config is counted and passed over.
Visit(i, k) ==
    /\ pc[i] = "scan"
    /\ i \notin late
    /\ k \in todo[i]
    /\ todo' = [todo EXCEPT ![i] = @ \ {k}]
    /\ IF respectBad[i] /\ k \in bad
       THEN /\ skipped' = [skipped EXCEPT ![i] = TRUE]
            /\ UNCHANGED <<pc, key>>
       ELSE /\ Goto(i, "claim")
            /\ key' = [key EXCEPT ![i] = k]
            /\ UNCHANGED skipped
    /\ UNCHANGED <<coordVars, status, active, xray, used, ledgerVars, late, excl,
                   respectBad, attempt>>

\* tryClaim, a critical section of its own: the ledger may have changed since
\* isBad was asked.
TryClaim(i) ==
    /\ pc[i] = "claim"
    /\ IF key[i] \in claimed
       THEN /\ Goto(i, "scan")
            /\ key' = [key EXCEPT ![i] = NoKey]
            /\ UNCHANGED claimed
       ELSE /\ Goto(i, "launch")
            /\ claimed' = claimed \cup {key[i]}
            /\ UNCHANGED key
    /\ UNCHANGED <<coordVars, status, active, xray, used, bad, late, scanVars>>

\* The candidate is given up and its child stopped. markBad and unclaim are two
\* critical sections, but no reader of the ledger can tell them from one: while
\* a key is bad and still claimed, nobody else can claim it. The child is stopped
\* after unclaim, which no peer sees: it is behind the mutex of the instance.
GiveBack(i, isBad, counted) ==
    /\ bad' = IF isBad THEN bad \cup {key[i]} ELSE bad
    /\ claimed' = claimed \ {key[i]}
    /\ xray' = [xray EXCEPT ![i] = NoKey]
    /\ key' = [key EXCEPT ![i] = NoKey]
    /\ skipped' = [skipped EXCEPT ![i] = @ \/ counted]
    /\ Goto(i, "scan")
    /\ UNCHANGED <<coordVars, status, active, used, late, excl, todo, respectBad, attempt>>

\* Mutated: a starved bind poisons the ledger, a throttled probe keeps its claim,
\* a rejected candidate keeps its child.
NeverBoundIsBad(i) ==
    /\ pc[i] = "bind"
    /\ GiveBack(i, TRUE, FALSE)

UnprovenKeepsClaim(i) ==
    /\ pc[i] = "probe"
    /\ xray' = [xray EXCEPT ![i] = NoKey]
    /\ key' = [key EXCEPT ![i] = NoKey]
    /\ Goto(i, "scan")
    /\ UNCHANGED <<coordVars, status, active, used, ledgerVars, late, scanVars>>

RejectKeepsChild(i) ==
    /\ pc[i] = "probe"
    /\ key[i] \notin Healthy
    /\ bad' = bad \cup {key[i]}
    /\ claimed' = claimed \ {key[i]}
    /\ key' = [key EXCEPT ![i] = NoKey]
    /\ Goto(i, "scan")
    /\ UNCHANGED <<coordVars, status, active, xray, used, late, scanVars>>

StartFailed(i) ==
    /\ pc[i] = "launch"
    /\ key[i] \notin Healthy
    /\ GiveBack(i, TRUE, FALSE)

\* startXray stops a child that is still on the port before it starts its own.
Started(i) ==
    /\ pc[i] = "launch"
    /\ xray' = [xray EXCEPT ![i] = key[i]]
    /\ Goto(i, "bind")
    /\ UNCHANGED <<coordVars, status, active, used, ledgerVars, late, key, scanVars>>

Bound(i) ==
    /\ pc[i] = "bind"
    /\ Goto(i, "probe")
    /\ UNCHANGED <<coordVars, status, active, xray, used, ledgerVars, late, key, scanVars>>

\* The child exited before it bound: a dead config.
Exited(i) ==
    /\ pc[i] = "bind"
    /\ key[i] \notin Healthy
    /\ GiveBack(i, TRUE, FALSE)

\* The child is alive but has not bound in time: a starved host, which proves
\* nothing about the upstream.
NeverBound(i) ==
    /\ pc[i] = "bind"
    /\ GiveBack(i, FALSE, respectBad[i])

\* verdictAdopt: the claim is kept.
Adopt(i) ==
    /\ pc[i] = "probe"
    /\ active' = [active EXCEPT ![i] = key[i]]
    /\ key' = [key EXCEPT ![i] = NoKey]
    /\ Goto(i, "adopted")
    /\ UNCHANGED <<coordVars, status, xray, used, ledgerVars, late, scanVars>>

\* verdictUnproven: the probe target throttled us.
Unproven(i) ==
    /\ pc[i] = "probe"
    /\ GiveBack(i, FALSE, FALSE)

Reject(i) ==
    /\ pc[i] = "probe"
    /\ key[i] \notin Healthy
    /\ GiveBack(i, TRUE, FALSE)

\* A worker is done with its scan: its locals go out of scope.
Forget(i) ==
    /\ excl' = [excl EXCEPT ![i] = {}]
    /\ todo' = [todo EXCEPT ![i] = {}]
    /\ respectBad' = [respectBad EXCEPT ![i] = TRUE]
    /\ skipped' = [skipped EXCEPT ![i] = FALSE]

PassOver(i) ==
    /\ pc[i] = "scan"
    /\ i \in late \/ todo[i] = {}

\* The retry pass, if the first one counted a candidate. It starts even when
\* the first one ended at the deadline, and then ends at once.
Retry(i) ==
    /\ PassOver(i)
    /\ respectBad[i]
    /\ skipped[i]
    /\ todo' = [todo EXCEPT ![i] = configs[i] \ excl[i]]
    /\ respectBad' = [respectBad EXCEPT ![i] = FALSE]
    /\ skipped' = [skipped EXCEPT ![i] = FALSE]
    /\ UNCHANGED <<coordVars, status, active, xray, used, ledgerVars, late, pc, key, excl,
                   attempt>>

\* startShared failed: the instance stays missing until the next round.
ScanFailed(i) ==
    /\ PassOver(i)
    /\ ~(respectBad[i] /\ skipped[i])
    /\ Goto(i, "off")
    /\ Forget(i)
    /\ UNCHANGED <<coordVars, status, active, xray, used, ledgerVars, late, key, attempt>>

\* startShared succeeded: the key is entered in used, unless another instance
\* has it, and then the attempt is repeated while attempts and time are left.
Register(i) ==
    /\ pc[i] = "adopted"
    /\ IF used[active[i]] = NoInst
       THEN /\ used' = [used EXCEPT ![active[i]] = i]
            /\ status' = [status EXCEPT ![i] = "ok"]
            /\ Goto(i, "off")
            /\ UNCHANGED attempt
       ELSE /\ attempt' = [attempt EXCEPT ![i] = @ + 1]
            /\ Goto(i, IF attempt[i] + 1 < MaxAttempts /\ i \notin late
                       THEN "attempt" ELSE "off")
            /\ UNCHANGED <<used, status>>
    /\ Forget(i)
    /\ UNCHANGED <<coordVars, active, xray, ledgerVars, late, key>>

\* The child of an adopted upstream dies. Start does not look at it again: that is for
\* the loops that follow.
Crash(i) ==
    /\ phase # "served"
    /\ pc[i] = "adopted" \/ status[i] = "ok"
    /\ xray[i] # NoKey
    /\ xray' = [xray EXCEPT ![i] = NoKey]
    /\ UNCHANGED <<coordVars, status, active, used, ledgerVars, late, workerVars>>

-------------------------------------------------------------------------------
Coordinator ==
    \/ \E pool \in SUBSET Keys \ {{}} : FetchPool(pool)
    \/ FetchFailed
    \/ GiveUp
    \/ ServeEarly
    \/ NextRound

Step(i) ==
    \/ Acquire(i)
    \/ Attempt(i)
    \/ \E k \in Keys : Visit(i, k)
    \/ TryClaim(i)
    \/ StartFailed(i) \/ Started(i)
    \/ Bound(i) \/ Exited(i) \/ NeverBound(i)
    \/ Adopt(i) \/ Unproven(i) \/ Reject(i)
    \/ Retry(i) \/ ScanFailed(i)
    \/ Register(i)

\* Start has returned: the instances belong to the loops of main.
Returned == phase = "served" /\ UNCHANGED vars

Next ==
    \/ Coordinator
    \/ \E i \in Instances : Step(i) \/ Expire(i) \/ Crash(i)
    \/ Returned

Spec == Init /\ [][Next]_vars

\* Every call a worker or the coordinator makes returns: probes and binds have
\* timeouts, and the semaphore is a channel, which serves its waiters in turn.
FairSpec ==
    /\ Spec
    /\ WF_vars(Coordinator)
    /\ \A i \in Instances : WF_vars(Step(i))

-------------------------------------------------------------------------------
\* Properties.

\* A claim has a holder: a worker between tryClaim and its verdict, or an
\* instance that adopted the key. A claim without one would hide a working
\* upstream from every instance for the rest of the round.
Holds(i, k) ==
    \/ pc[i] \in {"launch", "bind", "probe"} /\ key[i] = k
    \/ pc[i] = "adopted" /\ active[i] = k
    \/ status[i] = "ok" /\ active[i] = k

NoClaimIsLost == \A k \in claimed : \E i \in Instances : Holds(i, k)

\* "The same candidate is never tested twice" at a time, and no upstream is ever
\* on two serving ports: claims keep the workers of a round apart, used keeps
\* rounds apart (tryClaim, selector.go; the comment on shuffleConfigs).
OneHolder ==
    \A i, j \in Instances, k \in Keys : Holds(i, k) /\ Holds(j, k) => i = j

\* What the API reports as ok is served: the active config, the entry of used and the
\* child on the port agree, unless the child has died since; and an instance no worker
\* is trying to fill has neither a child nor an active config left over from a failed
\* scan.
StatusIsServed ==
    \A i \in Instances :
        /\ status[i] = "ok" =>
              /\ active[i] \in configs[i]
              /\ xray[i] \in {active[i], NoKey}
              /\ used[active[i]] = i
        /\ status[i] # "ok" /\ pc[i] \in {"off", "queued", "scan", "claim"} =>
              /\ active[i] = NoKey
              /\ xray[i] = NoKey

\* "Unproven is not dead": a starved bind or a throttled probe target never
\* enters a working upstream in the ledger every peer reads (tryConfigs).
HealthyIsNotPoisoned == bad \cap Healthy = {}

\* What Start leaves to the loops of main, whether or not it got anywhere: it has enough
\* instances to serve or has spent its rounds; index, status and child of every instance
\* agree, unless the child has died; none is left starting, which no loop would explain;
\* and no upstream is active twice. These are the states Failover begins with.
Handover ==
    phase = "served" =>
        /\ ServeReady \/ round = MaxRounds
        /\ \A i \in Instances :
              /\ xray[i] \in {active[i], NoKey}
              /\ active[i] \in configs[i] \cup {NoKey}
              /\ status[i] = IF active[i] = NoKey THEN "down" ELSE "ok"
        /\ \A i, j \in Instances : active[i] = active[j] => i = j \/ active[i] = NoKey

\* Start implements Assignment: to be ok is to own the active upstream. Later
\* rounds work for the missing instances only, and never move one that serves.
Owner == [i \in Instances |-> IF status[i] = "ok" THEN active[i] ELSE NoKey]

Abstract == INSTANCE Assignment WITH owner <- Owner, ended <- phase = "served"

ImplementsAssignment == Abstract!Spec

\* And it implements Serving: every child a worker tries, its own candidates one after
\* the other, starts on a silent port and with an upstream that is on no other port.
Ports == INSTANCE Serving WITH serving <- xray

ImplementsServing == Ports!Spec

\* What Start promises those who come after it, of owners and of ports.
KeepsPromises == ImplementsAssignment /\ ImplementsServing

\* Startup ends, whatever the sources and the upstreams do: "bounded startup".
StartReturns == <>(phase = "served")
===============================================================================
