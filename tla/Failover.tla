------------------------------- MODULE Failover -------------------------------
(***************************************************************************)
(* The instances after startup, and the goroutines that keep them serving: *)
(* the health loop (HealthCheckAll, then WatchdogCheck, over all instances *)
(* in turn), every RefreshSubscriptions (the ticker's and those of POST    *)
(* /refresh) and the recoverInstance goroutines a refresh starts.          *)
(*                                                                         *)
(* All of them end in SwitchToNextExcluding (v2proxy/selector.go), which   *)
(* holds the instance's mutex only twice: for the snapshot at its start    *)
(* and for the swap at its end. The search for a winner runs without it,   *)
(* so two goroutines may be switching one instance at the same time, or    *)
(* two instances to the same upstream.                                     *)
(*                                                                         *)
(* A step is what happens inside one critical section. A swap is several   *)
(* steps, because what it does to the port is visible without the mutex.   *)
(*                                                                         *)
(* What the world does to the program, one upstream dying or reviving, a   *)
(* child crashing, a probe target throttling, a start failing, is a mishap *)
(* and there are at most MaxMishaps of them.                               *)
(***************************************************************************)
EXTENDS Integers, FiniteSets

CONSTANTS
    N,              \* instances
    Keys,           \* upstreams
    NoKey,          \* no upstream
    Health,         \* the goroutine of healthCheckLoop
    Refreshers,     \* the goroutines that run RefreshSubscriptions
    Free,           \* the holder of a mutex nobody holds
    FailThreshold,  \* healthFailThreshold
    Pools,          \* bound: the pools the sources may yield, as sets of keys
    Starts,         \* bound: the pools and upstreams startup may have left the instances with
    MaxRefreshes,   \* bound: refreshes that find a pool
    MaxMishaps,     \* bound: faults of the environment
    RefreshWeight   \* bound: how many of them a refresh stands for

Instances == 1..N
Recoveries == Refreshers \X Instances
Threads == {Health} \cup Refreshers \cup Recoveries

ASSUME FailoverAssumption ==
    /\ N \in Nat \ {0}
    /\ NoKey \notin Keys
    /\ Health \notin Refreshers \cup Recoveries
    /\ Refreshers \cap Recoveries = {}
    /\ Free \notin Threads
    /\ FailThreshold \in Nat \ {0}
    /\ Pools \subseteq SUBSET Keys \ {{}}
    /\ MaxRefreshes \in Nat
    /\ MaxMishaps \in Nat
    /\ RefreshWeight \in Nat

ASSUME StartsAssumption ==
    Starts \subseteq [Instances -> [pool : SUBSET Keys, key : Keys \cup {NoKey}]]

VARIABLES
    \* An instance: ProxySelector and its InstanceStatus.
    configs,    \* the pool, as a set of keys
    active,     \* the key at activeIndex
    fails,      \* failCount
    xray,       \* the upstream of the child on the serving port
    mu,         \* the goroutine inside the swap, which holds s.mu
    status,     \* what the API reports
    recent,     \* the instances whose lastCheck is less than an interval old
    \* A goroutine.
    pc,         \* where it stands
    at,         \* the instance it works on
    why,        \* what it works on that instance for
    excl,       \* the keys SwitchToNextExcluding may not take
    old,        \* oldKey of the snapshot
    win,        \* the winner of the search
    prev,       \* what a refresh has found active: prevActive, `active` of reconcileActive
    cand,       \* the candidate that a rotation has proved
    tries,      \* the attempts of recoverInstance
    pool,       \* what a refresh has fetched
    \* The world.
    up,         \* the upstreams that work
    refreshes,  \* refreshes so far
    mishaps     \* faults so far

instVars == <<configs, active, fails, xray, mu, status, recent>>
jobVars == <<at, why, excl, old, win, prev, cand, tries, pool>>
worldVars == <<up, refreshes, mishaps>>
vars == <<instVars, pc, jobVars, worldVars>>

Places == {"idle", "check", "markok", "markdown", "exclude", "snapshot", "swap", "launch",
           "verify", "restore", "switched", "failed", "dial", "prev", "update", "status",
           "reconcile", "retain?", "retain", "rotate", "try", "surgical", "wait"}
Reasons == {"health", "watchdog", "reconcile", "vanished", "rotate", "recover"}

TypeOK ==
    /\ configs \in [Instances -> SUBSET Keys]
    /\ active \in [Instances -> Keys \cup {NoKey}]
    /\ fails \in [Instances -> 0..FailThreshold]
    /\ xray \in [Instances -> Keys \cup {NoKey}]
    /\ mu \in [Instances -> Threads \cup {Free}]
    /\ status \in [Instances -> {"ok", "down"}]
    /\ recent \subseteq Instances
    /\ pc \in [Threads -> Places]
    /\ at \in [Threads -> Instances]
    /\ why \in [Threads -> Reasons]
    /\ excl \in [Threads -> SUBSET Keys]
    /\ old \in [Threads -> Keys \cup {NoKey}]
    /\ win \in [Threads -> Keys \cup {NoKey}]
    /\ prev \in [Threads -> Keys \cup {NoKey}]
    /\ cand \in [Threads -> Keys \cup {NoKey}]
    /\ tries \in [Threads -> 0..2]
    /\ pool \in [Refreshers -> SUBSET Keys]
    /\ up \subseteq Keys
    /\ refreshes \in 0..MaxRefreshes
    /\ mishaps \in 0..MaxMishaps

\* Startup has given every instance an upstream of its own, or none: the latest pool had
\* none for it, or its rounds were spent before there was a pool. The upstreams and the
\* children may have died since, which counts as mishaps; an instance without an upstream
\* is down and has nothing on its port: the states of Handover in Populate.
Init ==
    /\ \E start \in Starts :
          /\ configs = [i \in Instances |-> start[i].pool]
          /\ active = [i \in Instances |-> start[i].key]
    /\ \A i \in Instances : active[i] \in configs[i] \cup {NoKey}
    /\ \A i, j \in Instances : active[i] = active[j] => i = j \/ active[i] = NoKey
    /\ xray \in [Instances -> Keys \cup {NoKey}]
    /\ \A i \in Instances : xray[i] \in {active[i], NoKey}
    /\ fails = [i \in Instances |-> 0]
    /\ mu = [i \in Instances |-> Free]
    /\ status = [i \in Instances |-> IF active[i] = NoKey THEN "down" ELSE "ok"]
    /\ recent = {}
    /\ pc = [t \in Threads |-> "idle"]
    /\ at = [t \in Threads |-> IF t \in Recoveries THEN t[2] ELSE 1]
    /\ why = [t \in Threads |-> IF t = Health THEN "health"
                                ELSE IF t \in Refreshers THEN "reconcile" ELSE "recover"]
    /\ excl = [t \in Threads |-> {}]
    /\ old = [t \in Threads |-> NoKey]
    /\ win = [t \in Threads |-> NoKey]
    /\ prev = [t \in Threads |-> NoKey]
    /\ cand = [t \in Threads |-> NoKey]
    /\ tries = [t \in Threads |-> 0]
    /\ pool = [r \in Refreshers |-> {}]
    /\ up \in SUBSET Keys
    /\ refreshes = 0
    /\ mishaps \in 0..MaxMishaps
    /\ mishaps = Cardinality({i \in Instances : xray[i] # active[i]})

-------------------------------------------------------------------------------
Goto(t, place) == pc' = [pc EXCEPT ![t] = place]

\* s.mu of instance i can be taken.
Unlocked(i) == mu[i] = Free

\* What a probe through the serving port finds: TestProxyQuick races its targets, and
\* one that accepts is enough.
Answers(i) == xray[i] \in up

\* What a probe through a throwaway child on a port of its own finds.
Proves(k) == k \in up

StopChild(i) == xray' = [xray EXCEPT ![i] = NoKey]

Mishap ==
    /\ mishaps < MaxMishaps
    /\ mishaps' = mishaps + 1

\* Mutated: no peer is asked.
PeersNobody(i) == {}

\* buildExcluding(i): what the peers have as active, read under their mutexes.
PeersActive(i) == {active[j] : j \in Instances \ {i}} \ {NoKey}

PeersUnlocked(i) == \A j \in Instances \ {i} : Unlocked(j)

\* The goroutine is done with instance at[t] and turns to the next one, if any:
\* the health loop goes twice over the instances, checking and then dialling; a
\* refresh waits for its recoveries after its last one.
Advance(t) ==
    /\ excl' = [excl EXCEPT ![t] = {}]
    /\ old' = [old EXCEPT ![t] = NoKey]
    /\ win' = [win EXCEPT ![t] = NoKey]
    /\ prev' = [prev EXCEPT ![t] = NoKey]
    /\ cand' = [cand EXCEPT ![t] = NoKey]
    /\ tries' = [tries EXCEPT ![t] = 0]
    /\ \/ /\ t \in Recoveries
          /\ Goto(t, "idle")
          /\ UNCHANGED <<at, why>>
       \/ /\ t \in Refreshers
          /\ why' = [why EXCEPT ![t] = "reconcile"]
          /\ at' = [at EXCEPT ![t] = IF @ < N THEN @ + 1 ELSE 1]
          /\ Goto(t, IF at[t] < N THEN "prev" ELSE "wait")
       \/ /\ t = Health /\ why[t] = "health"
          /\ why' = [why EXCEPT ![t] = IF at[t] < N THEN "health" ELSE "watchdog"]
          /\ at' = [at EXCEPT ![t] = IF @ < N THEN @ + 1 ELSE 1]
          /\ Goto(t, IF at[t] < N THEN "check" ELSE "dial")
       \/ /\ t = Health /\ why[t] = "watchdog"
          /\ why' = [why EXCEPT ![t] = IF at[t] < N THEN "watchdog" ELSE "health"]
          /\ at' = [at EXCEPT ![t] = IF @ < N THEN @ + 1 ELSE 1]
          /\ Goto(t, IF at[t] < N THEN "dial" ELSE "idle")
    /\ UNCHANGED pool

-------------------------------------------------------------------------------
\* HealthCheckAll.

HealthTick ==
    /\ pc[Health] = "idle"
    /\ Goto(Health, "check")
    /\ UNCHANGED <<instVars, jobVars, worldVars>>

\* ShouldCheck is false: the last check ended less than an interval ago. It
\* cannot be so on two ticks in a row.
SkipCheck ==
    LET i == at[Health]
    IN  /\ pc[Health] = "check"
        /\ Unlocked(i)
        /\ i \in recent
        /\ recent' = recent \ {i}
        /\ Advance(Health)
        /\ UNCHANGED <<configs, active, fails, xray, mu, status, worldVars>>

\* HealthCheck without an active config.
CheckNothing ==
    LET i == at[Health]
    IN  /\ pc[Health] = "check"
        /\ Unlocked(i)
        /\ active[i] = NoKey
        /\ Goto(Health, "markdown")
        /\ UNCHANGED <<instVars, jobVars, worldVars>>

Checks(i) ==
    /\ pc[Health] = "check"
    /\ Unlocked(i)
    /\ i = at[Health]
    /\ active[i] # NoKey
    /\ recent' = recent \cup {i}

\* The probe through the serving port is accepted, or real bytes have flowed.
CheckPasses ==
    \E i \in Instances :
        /\ Checks(i)
        /\ Answers(i)
        /\ fails' = [fails EXCEPT ![i] = 0]
        /\ Goto(Health, "markok")
        /\ UNCHANGED <<configs, active, xray, mu, status, jobVars, worldVars>>

\* Mutated: a strike that is not counted.
CheckFailsUncounted ==
    \E i \in Instances :
        /\ Checks(i)
        /\ ~Answers(i)
        /\ Goto(Health, IF fails[i] + 1 < FailThreshold THEN "markok" ELSE "markdown")
        /\ UNCHANGED <<configs, active, fails, xray, mu, status, jobVars, worldVars>>

\* The probe fails: below the threshold the verdict is still "healthy". Strikes from
\* the threshold on are not told apart.
CheckFails ==
    \E i \in Instances :
        /\ Checks(i)
        /\ ~Answers(i)
        /\ fails' = [fails EXCEPT ![i] = IF @ < FailThreshold THEN @ + 1 ELSE @]
        /\ Goto(Health, IF fails[i] + 1 < FailThreshold THEN "markok" ELSE "markdown")
        /\ UNCHANGED <<configs, active, xray, mu, status, jobVars, worldVars>>

\* The probe target throttled us: no strike and no absolution.
CheckInconclusive ==
    \E i \in Instances :
        /\ Checks(i)
        /\ xray[i] # NoKey
        /\ Mishap
        /\ Goto(Health, "markok")
        /\ UNCHANGED <<configs, active, fails, xray, mu, status, jobVars, up, refreshes>>

\* Bytes that flowed within egressGrace vouch for an upstream that is gone by now.
CheckVouched ==
    \E i \in Instances :
        /\ Checks(i)
        /\ Mishap
        /\ fails' = [fails EXCEPT ![i] = 0]
        /\ Goto(Health, "markok")
        /\ UNCHANGED <<configs, active, xray, mu, status, jobVars, up, refreshes>>

\* markOK after a check reads Stability under s.mu.
CheckOK ==
    LET i == at[Health]
    IN  /\ pc[Health] = "markok"
        /\ Unlocked(i)
        /\ status' = [status EXCEPT ![i] = "ok"]
        /\ Advance(Health)
        /\ UNCHANGED <<configs, active, fails, xray, mu, recent, worldVars>>

\* WatchdogCheck: an ok instance must accept on its SOCKS port. The dial takes
\* no mutex: in the middle of a swap it finds the port silent or bound again.
DialDead ==
    LET i == at[Health]
    IN  /\ pc[Health] = "dial"
        /\ status[i] = "ok"
        /\ xray[i] = NoKey
        /\ Goto(Health, "markdown")
        /\ UNCHANGED <<instVars, jobVars, worldVars>>

DialOpen ==
    LET i == at[Health]
    IN  /\ pc[Health] = "dial"
        /\ status[i] = "ok" => xray[i] # NoKey
        /\ Advance(Health)
        /\ UNCHANGED <<instVars, worldVars>>

-------------------------------------------------------------------------------
\* The switch, in the hands of goroutine t.

MarkDown(t) ==
    /\ pc[t] = "markdown"
    /\ status' = [status EXCEPT ![at[t]] = "down"]
    /\ Goto(t, "exclude")
    /\ UNCHANGED <<configs, active, fails, xray, mu, recent, jobVars, worldVars>>

Exclude(t) ==
    /\ pc[t] = "exclude"
    /\ PeersUnlocked(at[t])
    /\ excl' = [excl EXCEPT ![t] = PeersActive(at[t])]
    /\ Goto(t, "snapshot")
    /\ UNCHANGED <<instVars, at, why, old, win, prev, cand, tries, pool, worldVars>>

\* The candidates of a switch of instance i.
Candidates(t, i) == configs[i] \ (excl[t] \cup {active[i]})

\* The snapshot of SwitchToNextExcluding and the search that follows it. The
\* search reads nothing another goroutine writes, so its winner is chosen here:
\* a candidate that works, whichever the workers prove first.
Search(t) ==
    LET i == at[t]
    IN  /\ pc[t] = "snapshot"
        /\ Unlocked(i)
        /\ old' = [old EXCEPT ![t] = active[i]]
        /\ \E k \in Candidates(t, i) :
              /\ Proves(k)
              /\ win' = [win EXCEPT ![t] = k]
              /\ Goto(t, "swap")
        /\ UNCHANGED <<instVars, at, why, excl, prev, cand, tries, pool, worldVars>>

SearchFails(t) ==
    /\ pc[t] = "snapshot"
    /\ Unlocked(at[t])
    /\ \/ /\ \A k \in Candidates(t, at[t]) : ~Proves(k)
          /\ UNCHANGED mishaps
       \/ Mishap                    \* switchBudget runs out first
    /\ Goto(t, "failed")
    /\ UNCHANGED <<instVars, jobVars, up, refreshes>>

\* The winner left the pool during the search.
WinnerVanished(t) ==
    /\ pc[t] = "swap"
    /\ Unlocked(at[t])
    /\ win[t] \notin configs[at[t]]
    /\ Goto(t, "failed")
    /\ UNCHANGED <<instVars, jobVars, worldVars>>

\* The swap begins: the mutex is taken and the child stopped.
Swap(t) ==
    LET i == at[t]
    IN  /\ pc[t] = "swap"
        /\ Unlocked(i)
        /\ win[t] \in configs[i]
        /\ mu' = [mu EXCEPT ![i] = t]
        /\ StopChild(i)
        /\ Goto(t, "launch")
        /\ UNCHANGED <<configs, active, fails, status, recent, jobVars, worldVars>>

\* The winner's child starts and binds the port, where clients reach it before it has
\* been verified.
Launch(t) ==
    /\ pc[t] = "launch"
    /\ xray' = [xray EXCEPT ![at[t]] = win[t]]
    /\ Goto(t, "verify")
    /\ UNCHANGED <<configs, active, fails, mu, status, recent, jobVars, worldVars>>

\* It does not start, or does not bind.
LaunchFails(t) ==
    /\ pc[t] = "launch"
    /\ Mishap
    /\ Goto(t, "restore")
    /\ UNCHANGED <<instVars, jobVars, up, refreshes>>

\* Mutated: the active index stays where it was.
ActivateKeepsIndex(t, k) ==
    /\ fails' = [fails EXCEPT ![at[t]] = 0]
    /\ mu' = [mu EXCEPT ![at[t]] = Free]
    /\ UNCHANGED active

\* A swap ends with k, whose child is on the port, as the active config.
Activate(t, k) ==
    /\ active' = [active EXCEPT ![at[t]] = k]
    /\ fails' = [fails EXCEPT ![at[t]] = 0]
    /\ mu' = [mu EXCEPT ![at[t]] = Free]

\* The winner is verified on the serving port.
Adopt(t) ==
    /\ pc[t] = "verify"
    /\ Answers(at[t])
    /\ Activate(t, win[t])
    /\ Goto(t, "switched")
    /\ UNCHANGED <<configs, xray, status, recent, jobVars, worldVars>>

\* It fails there, and is stopped.
Reject(t) ==
    /\ pc[t] = "verify"
    /\ \/ ~Answers(at[t]) /\ UNCHANGED mishaps
       \/ Mishap
    /\ StopChild(at[t])
    /\ Goto(t, "restore")
    /\ UNCHANGED <<configs, active, fails, mu, status, recent, jobVars, up, refreshes>>

\* tryRestoreLocked puts the pre-switch config back, unverified, if the pool has it.
Restore(t) ==
    /\ pc[t] = "restore"
    /\ old[t] \in configs[at[t]]
    /\ xray' = [xray EXCEPT ![at[t]] = old[t]]
    /\ Activate(t, old[t])
    /\ Goto(t, "failed")
    /\ UNCHANGED <<configs, status, recent, jobVars, worldVars>>

\* Nothing to restore: the port stays silent.
NoRestore(t) ==
    /\ pc[t] = "restore"
    /\ old[t] \notin configs[at[t]]
    /\ mu' = [mu EXCEPT ![at[t]] = Free]
    /\ Goto(t, "failed")
    /\ UNCHANGED <<configs, active, fails, xray, status, recent, jobVars, worldVars>>

\* The child of the old config does not start either.
RestoreFails(t) ==
    /\ pc[t] = "restore"
    /\ old[t] \in configs[at[t]]
    /\ Mishap
    /\ mu' = [mu EXCEPT ![at[t]] = Free]
    /\ Goto(t, "failed")
    /\ UNCHANGED <<configs, active, fails, xray, status, recent, jobVars, up, refreshes>>

\* After a switch: what is reported depends on who asked for it. The health loop
\* marks ok unconditionally, a rotation only if it got the candidate it wanted.
Reports(t) ==
    LET k == active[at[t]]
    IN  why[t] # "health" => IF why[t] = "rotate" THEN k = cand[t] ELSE k # NoKey

\* recoverInstance tries once more if a peer has the key it switched to.
Taken(t) ==
    /\ why[t] = "recover"
    /\ active[at[t]] \in excl[t]

Switched(t) ==
    LET i == at[t]
    IN  /\ pc[t] = "switched"
        /\ Unlocked(i)
        /\ ~Taken(t)
        /\ status' = IF Reports(t) THEN [status EXCEPT ![i] = "ok"] ELSE status
        /\ Advance(t)
        /\ UNCHANGED <<configs, active, fails, xray, mu, recent, worldVars>>

\* Mutated: a recovery that fails returns without wg.Done.
FailedWithoutDone(t) ==
    /\ pc[t] = "failed"
    /\ t \notin Recoveries
    /\ status' = IF why[t] \in {"health", "watchdog", "vanished"}
                 THEN [status EXCEPT ![at[t]] = "down"]
                 ELSE status
    /\ Advance(t)
    /\ UNCHANGED <<configs, active, fails, xray, mu, recent, worldVars>>

\* After a failed one: the loops report it, rotations and recoveries do not.
Failed(t) ==
    /\ pc[t] = "failed"
    /\ status' = IF why[t] \in {"health", "watchdog", "vanished"}
                 THEN [status EXCEPT ![at[t]] = "down"]
                 ELSE status
    /\ Advance(t)
    /\ UNCHANGED <<configs, active, fails, xray, mu, recent, worldVars>>

SwitchSteps(t) ==
    \/ MarkDown(t) \/ Exclude(t)
    \/ Search(t) \/ SearchFails(t)
    \/ WinnerVanished(t) \/ Swap(t)
    \/ Launch(t) \/ LaunchFails(t) \/ Adopt(t) \/ Reject(t)
    \/ Restore(t) \/ NoRestore(t) \/ RestoreFails(t)
    \/ Switched(t) \/ Failed(t)

-------------------------------------------------------------------------------
\* RefreshSubscriptions.

\* The sources yielded a pool (SourceBreaker models which are asked).
Fetch(r, P) ==
    /\ pc[r] = "idle"
    /\ refreshes < MaxRefreshes
    /\ refreshes' = refreshes + 1
    /\ mishaps + RefreshWeight <= MaxMishaps
    /\ mishaps' = mishaps + RefreshWeight
    /\ pool' = [pool EXCEPT ![r] = P]
    /\ Goto(r, "prev")
    /\ UNCHANGED <<instVars, at, why, excl, old, win, prev, cand, tries, up>>

Prev(r) ==
    /\ pc[r] = "prev"
    /\ Unlocked(at[r])
    /\ prev' = [prev EXCEPT ![r] = active[at[r]]]
    /\ Goto(r, "update")
    /\ UNCHANGED <<instVars, at, why, excl, old, win, cand, tries, pool, worldVars>>

\* UpdateConfigs re-anchors the active config by key.
Update(r) ==
    LET i == at[r]
    IN  /\ pc[r] = "update"
        /\ Unlocked(i)
        /\ configs' = [configs EXCEPT ![i] = pool[r]]
        /\ active' = [active EXCEPT ![i] = IF @ \in pool[r] THEN @ ELSE NoKey]
        /\ Goto(r, "status")
        /\ UNCHANGED <<fails, xray, mu, status, recent, jobVars, worldVars>>

Reconciles(r) ==
    /\ pc[r] = "status"
    /\ status[at[r]] = "ok"
    /\ Goto(r, "reconcile")
    /\ UNCHANGED <<instVars, jobVars, worldVars>>

\* An instance that is not ok gets a goroutine of its own.
Spawn(r) ==
    LET i == at[r]
    IN  /\ pc[r] = "status"
        /\ status[i] # "ok"
        /\ at' = [at EXCEPT ![r] = IF @ < N THEN @ + 1 ELSE 1]
        /\ prev' = [prev EXCEPT ![r] = NoKey]
        /\ pc' = [pc EXCEPT ![<<r, i>>] = "exclude",
                            ![r] = IF i < N THEN "prev" ELSE "wait"]
        /\ UNCHANGED <<instVars, why, excl, old, win, cand, tries, pool, worldVars>>

\* recoverInstance: the switch took a key a peer is known to have.
TryAgain(t) ==
    /\ pc[t] = "switched"
    /\ Unlocked(at[t])
    /\ Taken(t)
    /\ IF tries[t] = 0
       THEN /\ tries' = [tries EXCEPT ![t] = 1]
            /\ Goto(t, "exclude")
            /\ UNCHANGED <<at, why, excl, old, win, prev, cand, pool>>
       ELSE Advance(t)
    /\ UNCHANGED <<instVars, worldVars>>

\* wg.Wait
RefreshOver(r) ==
    /\ pc[r] = "wait"
    /\ \A i \in Instances : pc[<<r, i>>] = "idle"
    /\ Goto(r, "idle")
    /\ pool' = [pool EXCEPT ![r] = {}]
    /\ UNCHANGED <<instVars, at, why, excl, old, win, prev, cand, tries, worldVars>>

-------------------------------------------------------------------------------
\* reconcileActive.

\* The active config is gone from the pool.
Vanished(r) ==
    /\ pc[r] = "reconcile"
    /\ Unlocked(at[r])
    /\ active[at[r]] = NoKey
    /\ Goto(r, "retain?")
    /\ UNCHANGED <<instVars, jobVars, worldVars>>

\* Never failed, and not the active config of a peer: it will be retained.
MayRetain(r) ==
    /\ pc[r] = "retain?"
    /\ Unlocked(at[r])
    /\ PeersUnlocked(at[r])
    /\ IF prev[r] # NoKey /\ fails[at[r]] = 0 /\ prev[r] \notin PeersActive(at[r])
       THEN /\ Goto(r, "retain")
            /\ UNCHANGED why
       ELSE /\ Goto(r, "markdown")
            /\ why' = [why EXCEPT ![r] = "vanished"]
    /\ UNCHANGED <<instVars, at, excl, old, win, prev, cand, tries, pool, worldVars>>

\* RetainActive
Retain(r) ==
    LET i == at[r]
    IN  /\ pc[r] = "retain"
        /\ Unlocked(i)
        /\ configs' = [configs EXCEPT ![i] = @ \cup {prev[r]}]
        /\ active' = [active EXCEPT ![i] = prev[r]]
        /\ Advance(r)
        /\ UNCHANGED <<fails, xray, mu, status, recent, worldVars>>

\* Present, and serving clients, freshly fast, or with nothing better on offer.
Untouched(r) ==
    /\ pc[r] = "reconcile"
    /\ Unlocked(at[r])
    /\ active[at[r]] # NoKey
    /\ Advance(r)
    /\ UNCHANGED <<instVars, worldVars>>

\* Present, idle and slow: a rotation is tried.
Slow(r) ==
    /\ pc[r] = "reconcile"
    /\ Unlocked(at[r])
    /\ active[at[r]] # NoKey
    /\ prev' = [prev EXCEPT ![r] = active[at[r]]]
    /\ Goto(r, "rotate")
    /\ UNCHANGED <<instVars, at, why, excl, old, win, cand, tries, pool, worldVars>>

\* `used := m.buildExcluding(i)`.
AskPeers(r) ==
    /\ pc[r] = "rotate"
    /\ PeersUnlocked(at[r])
    /\ excl' = [excl EXCEPT ![r] = PeersActive(at[r])]
    /\ Goto(r, "try")
    /\ UNCHANGED <<instVars, at, why, old, win, prev, cand, tries, pool, worldVars>>

\* One of the candidates of the pool that reconcileActive reads now proves decisively
\* faster, on a port of its own and some time later.
CandidateWins(r) ==
    /\ pc[r] = "try"
    /\ Unlocked(at[r])
    /\ \E k \in configs[at[r]] \ ({prev[r]} \cup excl[r]) :
          /\ Proves(k)
          /\ cand' = [cand EXCEPT ![r] = k]
    /\ Goto(r, "surgical")
    /\ UNCHANGED <<instVars, at, why, excl, old, win, prev, tries, pool, worldVars>>

\* None does, or rotateBudget is spent.
NoRotation(r) ==
    /\ pc[r] = "try"
    /\ Unlocked(at[r])
    /\ Advance(r)
    /\ UNCHANGED <<instVars, worldVars>>

\* Switch to the candidate and nothing else: exclude the rest of what is the pool by now.
Rotate(r) ==
    /\ pc[r] = "surgical"
    /\ Unlocked(at[r])
    /\ excl' = [excl EXCEPT ![r] = configs[at[r]] \ {cand[r]}]
    /\ why' = [why EXCEPT ![r] = "rotate"]
    /\ Goto(r, "snapshot")
    /\ UNCHANGED <<instVars, at, old, win, prev, cand, tries, pool, worldVars>>

-------------------------------------------------------------------------------
\* The world.

UpstreamFlips(k) ==
    /\ Mishap
    /\ up' = IF k \in up THEN up \ {k} ELSE up \cup {k}
    /\ UNCHANGED <<instVars, pc, jobVars, refreshes>>

Crash(i) ==
    /\ Mishap
    /\ xray[i] # NoKey
    /\ StopChild(i)
    /\ UNCHANGED <<configs, active, fails, mu, status, recent, pc, jobVars, up, refreshes>>

-------------------------------------------------------------------------------
HealthSteps ==
    \/ HealthTick
    \/ SkipCheck \/ CheckNothing
    \/ CheckPasses \/ CheckFails \/ CheckInconclusive \/ CheckVouched
    \/ CheckOK
    \/ DialDead \/ DialOpen
    \/ SwitchSteps(Health)

RefreshSteps(r) ==
    \/ \E P \in Pools : Fetch(r, P)
    \/ Prev(r) \/ Update(r) \/ Reconciles(r) \/ Spawn(r) \/ RefreshOver(r)
    \/ Vanished(r) \/ MayRetain(r) \/ Retain(r)
    \/ Untouched(r) \/ Slow(r)
    \/ AskPeers(r) \/ CandidateWins(r) \/ NoRotation(r) \/ Rotate(r)
    \/ SwitchSteps(r)

RecoverySteps(t) == SwitchSteps(t) \/ TryAgain(t)

World ==
    \/ \E k \in Keys : UpstreamFlips(k)
    \/ \E i \in Instances : Crash(i)

Next ==
    \/ HealthSteps
    \/ \E r \in Refreshers : RefreshSteps(r)
    \/ \E t \in Recoveries : RecoverySteps(t)
    \/ World

Spec == Init /\ [][Next]_vars

\* Both loops tick for ever, and every call a goroutine makes returns: probes,
\* binds, searches and fetches have timeouts, and a mutex is handed to its waiters.
FairSpec ==
    /\ Spec
    /\ WF_vars(HealthSteps)
    /\ \A r \in Refreshers : WF_vars(RefreshSteps(r))
    /\ \A t \in Recoveries : WF_vars(RecoverySteps(t))

-------------------------------------------------------------------------------
\* Properties.

\* Failover implements the promise of Serving, one half of it always: whoever swaps, a
\* port goes from one upstream to another through silence. The other half, that no upstream
\* is on two ports ("the same server is never exposed twice", subscription.go:21), holds
\* until the first refresh: health loop and watchdog ask for the peers' active configs
\* before every search and are one goroutine; with a refresh there are more.
Ports == INSTANCE Serving WITH serving <- xray

ImplementsServing ==
    /\ Ports!PortSpec /\ Ports!Unique
    /\ [][refreshes' = 0 => Ports!Next]_xray

\* The index and the child of an instance agree when no swap is on (activeIndex and
\* xrayCmd, selector.go), and only one thing parts them: RetainActive, if somebody has
\* switched the instance since UpdateConfigs dropped the config it puts back. No end of a
\* swap does, whatever fails in it and whatever pool a refresh brings meanwhile.
Agrees(i) ==
    Unlocked(i) /\ active[i] # NoKey /\ xray[i] # NoKey => xray[i] = active[i]
OnlyRetainParts ==
    [][\A i \in Instances :
          Agrees(i) /\ ~Agrees(i)' => \E r \in Refreshers : Retain(r) /\ at[r] = i]_vars

\* A refresh always comes to its end (RefreshSubscriptions, wg.Wait), with all the
\* recoveries it started: bounded attempts, and no wait for a mutex without end.
RefreshEnds == \A r \in Refreshers : []<>(pc[r] = "idle")

\* Once the world has calmed down and no refresh is left, an instance that some
\* working upstream is free for comes to serve one that works, and stays there: no
\* interleaving of switches, swaps and refreshes leaves it in a state that
\* HealthCheckAll and WatchdogCheck cannot get it out of. An upstream is free for
\* an instance if neither it nor a peer has it as active: a switch never takes
\* the active config again, so an instance whose child has crashed needs another.
Served(i) == xray[i] \in up /\ active[i] # NoKey
FreeFor(i) == (configs[i] \cap up) \ (PeersActive(i) \cup {active[i]})
Calm ==
    /\ \A r \in Refreshers : pc[r] = "idle"
    /\ \A i \in Instances : Served(i) \/ FreeFor(i) # {}
Heals == (<>[]Calm) => <>[](\A i \in Instances : status[i] = "ok" /\ Served(i))

\* The comment on recoverInstance (manager.go:678-679): "unique-claim guarded: a
\* parallel peer may have just taken the same upstream, in which case one bounded
\* retry with a refreshed exclude runs". What a recovery reports as ok is not the
\* active config of a peer.
RecoveredIsUnique ==
    [][\A t \in Recoveries :
          Switched(t) /\ active[at[t]] # NoKey => active[at[t]] \notin PeersActive(at[t])]_vars

\* The comment on the surgical switch (manager.go:798-800): "exclude everything but the
\* proven candidate [...] so the instance can never strand on a random third proxy".
RotationIsSurgical ==
    [][\A r \in Refreshers : Adopt(r) /\ why[r] = "rotate" => win[r] = cand[r]]_vars
===============================================================================
