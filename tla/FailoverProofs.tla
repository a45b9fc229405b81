---------------------------- MODULE FailoverProofs ----------------------------
(***************************************************************************)
(* Theorems about Failover, for any instances, upstreams, pools, faults    *)
(* and refreshes.                                                          *)
(*                                                                         *)
(* They hold of all goroutines together, with any number of refreshes      *)
(* overlapping: TypeCorrect (RetainActive never gets no upstream to        *)
(* retain), SwapsExclude, PortsFallSilent, IndexNeverDangles and           *)
(* IndexFollowsChild, all from what a mutex is held for. ServesAsPromised  *)
(* adds what only the health loop can promise, and only until the first    *)
(* refresh: that no upstream is on two ports.                              *)
(***************************************************************************)
EXTENDS Failover, TLAPS

RetainsAKey == \A r \in Refreshers : pc[r] = "retain" => prev[r] \in Keys

IInv == TypeOK /\ RetainsAKey

-------------------------------------------------------------------------------
\* Types.

LEMMA InitIInv == Init => IInv
<1> SUFFICES ASSUME Init
             PROVE  IInv
  OBVIOUS
<1> USE FailoverAssumption
<1>1. at \in [Threads -> Instances]
  <2>1. \A t \in Recoveries : t[2] \in Instances
    BY DEF Recoveries
  <2>2. 1 \in Instances
    BY DEF Instances
  <2>3. QED
    BY <2>1, <2>2 DEF Init
<1>2. why \in [Threads -> Reasons]
  BY DEF Init, Reasons
<1>3. /\ active \in [Instances -> Keys \cup {NoKey}]
      /\ configs \in [Instances -> SUBSET Keys]
  BY StartsAssumption DEF Init
<1>4. /\ fails \in [Instances -> 0..FailThreshold]
      /\ status \in [Instances -> {"ok", "down"}]
      /\ mu \in [Instances -> Threads \cup {Free}]
      /\ xray \in [Instances -> Keys \cup {NoKey}] /\ recent \subseteq Instances
  BY DEF Init
<1>5. /\ pc \in [Threads -> Places] /\ excl \in [Threads -> SUBSET Keys]
      /\ old \in [Threads -> Keys \cup {NoKey}] /\ win \in [Threads -> Keys \cup {NoKey}]
      /\ prev \in [Threads -> Keys \cup {NoKey}] /\ cand \in [Threads -> Keys \cup {NoKey}]
      /\ tries \in [Threads -> 0..2]
      /\ pool \in [Refreshers -> SUBSET Keys]
      /\ up \subseteq Keys /\ refreshes \in 0..MaxRefreshes /\ mishaps \in 0..MaxMishaps
  BY DEF Init, Places
<1>6. RetainsAKey
  BY DEF Init, RetainsAKey, Threads
<1>7. QED
  BY <1>1, <1>2, <1>3, <1>4, <1>5, <1>6 DEF IInv, TypeOK

\* Where a goroutine is when it turns to its next instance.
LEMMA AdvanceType ==
    ASSUME IInv, NEW t \in Threads, Advance(t)
    PROVE  /\ pc' \in [Threads -> Places]
           /\ at' \in [Threads -> Instances]
           /\ why' \in [Threads -> Reasons]
           /\ excl' \in [Threads -> SUBSET Keys]
           /\ old' \in [Threads -> Keys \cup {NoKey}]
           /\ win' \in [Threads -> Keys \cup {NoKey}]
           /\ prev' \in [Threads -> Keys \cup {NoKey}]
           /\ cand' \in [Threads -> Keys \cup {NoKey}]
           /\ tries' \in [Threads -> 0..2]
           /\ pool' \in [Refreshers -> SUBSET Keys]
           /\ RetainsAKey'
<1> USE FailoverAssumption DEF IInv, TypeOK, Advance, Goto
<1>1. at' \in [Threads -> Instances]
  <2> DEFINE next == IF at[t] < N THEN at[t] + 1 ELSE 1
  <2>1. next \in Instances
    BY DEF Instances
  <2>2. at' = at \/ at' = [at EXCEPT ![t] = next]
    OBVIOUS
  <2>3. QED
    BY <2>1, <2>2
<1>2. why' \in [Threads -> Reasons]
  BY DEF Reasons
<1>3. pc' \in [Threads -> Places]
  BY DEF Places
<1>4. RetainsAKey'
  BY DEF RetainsAKey, Threads
<1>5. QED
  BY <1>1, <1>2, <1>3, <1>4

\* The switch, in anybody's hands.
LEMMA SwitchIInv ==
    ASSUME IInv, NEW t \in Threads, SwitchSteps(t)
    PROVE  IInv'
<1> USE FailoverAssumption DEF IInv
<1>1. at[t] \in Instances /\ win[t] \in Keys \cup {NoKey} /\ old[t] \in Keys \cup {NoKey}
  BY DEF TypeOK
<1>2. CASE MarkDown(t) \/ Exclude(t)
  <2>1. PeersActive(at[t]) \subseteq Keys
    BY <1>1 DEF PeersActive, TypeOK
  <2>2. QED
    BY <1>1, <1>2, <2>1
       DEF MarkDown, Exclude, Goto, TypeOK, Places, RetainsAKey, Threads, instVars, jobVars,
           worldVars
<1>3. CASE Search(t) \/ WinnerVanished(t) \/ Swap(t) \/ Launch(t)
  BY <1>1, <1>3
     DEF Search, WinnerVanished, Swap, Launch, StopChild, Candidates, Goto, TypeOK, Places,
         RetainsAKey, Threads, instVars, jobVars, worldVars
<1>4. CASE SearchFails(t) \/ LaunchFails(t)
  BY <1>1, <1>4
     DEF SearchFails, LaunchFails, Mishap, Goto, TypeOK, Places, RetainsAKey, Threads, instVars,
         jobVars
<1>5. ASSUME NEW k \in Keys \cup {NoKey}, Activate(t, k)
      PROVE  /\ active' \in [Instances -> Keys \cup {NoKey}]
             /\ fails' \in [Instances -> 0..FailThreshold]
             /\ mu' \in [Instances -> Threads \cup {Free}]
  BY <1>1, <1>5 DEF Activate, TypeOK
<1>6. CASE Adopt(t)
  BY <1>1, <1>5, <1>6
     DEF Adopt, Goto, TypeOK, Places, RetainsAKey, Threads, jobVars, worldVars
<1>7. CASE Restore(t)
  BY <1>1, <1>5, <1>7
     DEF Restore, Goto, TypeOK, Places, RetainsAKey, Threads, jobVars, worldVars
<1>8. CASE Reject(t) \/ NoRestore(t) \/ RestoreFails(t)
  <2>1. mishaps' \in 0..MaxMishaps
    BY <1>8 DEF Reject, NoRestore, RestoreFails, Mishap, TypeOK, worldVars
  <2>2. QED
    BY <1>1, <1>8, <2>1
       DEF Reject, NoRestore, RestoreFails, StopChild, Goto, TypeOK, Places, RetainsAKey,
           Threads, jobVars, worldVars
<1>9. CASE Switched(t) \/ Failed(t)
  <2>1. status' \in [Instances -> {"ok", "down"}]
    BY <1>1, <1>9 DEF Switched, Failed, TypeOK
  <2>2. QED
    BY <1>9, <2>1, AdvanceType DEF Switched, Failed, TypeOK, worldVars
<1>10. QED
  BY <1>2, <1>3, <1>4, <1>6, <1>7, <1>8, <1>9 DEF SwitchSteps

LEMMA HealthIInv ==
    ASSUME IInv, HealthSteps
    PROVE  IInv'
<1> USE FailoverAssumption DEF IInv
<1>1. Health \in Threads /\ at[Health] \in Instances
  BY DEF TypeOK, Threads
<1>2. ASSUME NEW p \in Places \ {"retain"}, Goto(Health, p)
      PROVE  /\ pc' \in [Threads -> Places]
             /\ UNCHANGED prev => RetainsAKey'
  BY <1>1, <1>2 DEF Goto, TypeOK, RetainsAKey, Threads
<1>3. CASE SkipCheck \/ CheckOK \/ DialOpen
  <2>1. /\ status' \in [Instances -> {"ok", "down"}] /\ recent' \subseteq Instances
        /\ Advance(Health)
        /\ UNCHANGED <<configs, active, fails, xray, mu, worldVars>>
    BY <1>1, <1>3 DEF SkipCheck, CheckOK, DialOpen, TypeOK, instVars
  <2>2. QED
    BY <1>1, <2>1, AdvanceType DEF TypeOK, worldVars
<1>4. CASE CheckPasses \/ CheckFails \/ CheckInconclusive \/ CheckVouched
  <2>1. /\ fails' \in [Instances -> 0..FailThreshold] /\ recent' \subseteq Instances
        /\ mishaps' \in 0..MaxMishaps
        /\ Goto(Health, "markok") \/ Goto(Health, "markdown")
        /\ UNCHANGED <<configs, active, xray, mu, status, jobVars, up, refreshes>>
    BY <1>4 DEF CheckPasses, CheckFails, CheckInconclusive, CheckVouched, Checks, Mishap,
                TypeOK, worldVars
  <2>2. pc' \in [Threads -> Places] /\ RetainsAKey'
    BY <1>2, <2>1 DEF Places, jobVars
  <2>3. QED
    BY <2>1, <2>2 DEF TypeOK, jobVars
<1>5. CASE SwitchSteps(Health)
  BY <1>1, <1>5, SwitchIInv
<1>6. CASE HealthTick \/ CheckNothing \/ DialDead
  <2>1. /\ Goto(Health, "check") \/ Goto(Health, "markdown")
        /\ UNCHANGED <<instVars, jobVars, worldVars>>
    BY <1>6 DEF HealthTick, CheckNothing, DialDead
  <2>2. pc' \in [Threads -> Places] /\ RetainsAKey'
    BY <1>2, <2>1 DEF Places, jobVars
  <2>3. QED
    BY <2>1, <2>2 DEF TypeOK, instVars, jobVars, worldVars
<1>7. QED
  BY <1>3, <1>4, <1>5, <1>6 DEF HealthSteps

LEMMA RefreshIInv ==
    ASSUME IInv, NEW r \in Refreshers, RefreshSteps(r)
    PROVE  IInv'
<1> USE FailoverAssumption DEF IInv
<1>1. r \in Threads /\ at[r] \in Instances /\ prev[r] \in Keys \cup {NoKey}
  BY DEF TypeOK, Threads
<1>2. ASSUME NEW P \in Pools, Fetch(r, P)
      PROVE  IInv'
  BY <1>1, <1>2 DEF Fetch, Goto, TypeOK, Places, RetainsAKey, Threads, instVars
<1>3. CASE Prev(r) \/ Reconciles(r) \/ Vanished(r) \/ Slow(r)
  BY <1>1, <1>3 DEF Prev, Reconciles, Vanished, Slow, Goto, TypeOK, Places, RetainsAKey,
                    Threads, instVars, jobVars, worldVars
<1>4. CASE Update(r)
  BY <1>1, <1>4 DEF Update, Goto, TypeOK, Places, RetainsAKey, Threads, jobVars, worldVars
<1>5. CASE Spawn(r)
  <2>1. at' \in [Threads -> Instances]
    BY <1>1, <1>5 DEF Spawn, TypeOK, Instances
  <2>2. pc' \in [Threads -> Places]
    BY <1>1, <1>5 DEF Spawn, TypeOK, Places
  <2>3. RetainsAKey'
    <3>1. \A s \in Refreshers : pc'[s] = "retain" => s # r /\ pc[s] = "retain"
      BY <1>1, <1>5 DEF Spawn, TypeOK, Threads, Recoveries
    <3>2. \A s \in Refreshers \ {r} : prev'[s] = prev[s]
      BY <1>1, <1>5 DEF Spawn, TypeOK, Threads
    <3>3. QED
      BY <3>1, <3>2 DEF RetainsAKey
  <2>4. QED
    BY <1>1, <1>5, <2>1, <2>2, <2>3 DEF Spawn, TypeOK, instVars, worldVars
<1>6. CASE RefreshOver(r)
  BY <1>1, <1>6 DEF RefreshOver, Goto, TypeOK, Places, RetainsAKey, Threads, instVars, worldVars
<1>7. CASE MayRetain(r)
  BY <1>1, <1>7 DEF MayRetain, Goto, TypeOK, Places, Reasons, RetainsAKey, Threads, instVars,
                    worldVars
<1>8. CASE Retain(r)
  <2>1. prev[r] \in Keys
    BY <1>8 DEF Retain, RetainsAKey
  <2>2. configs' \in [Instances -> SUBSET Keys] /\ active' \in [Instances -> Keys \cup {NoKey}]
    BY <1>1, <1>8, <2>1 DEF Retain, TypeOK
  <2>3. QED
    BY <1>1, <1>8, <2>2, AdvanceType DEF Retain, TypeOK, worldVars
<1>9. CASE Untouched(r) \/ NoRotation(r)
  BY <1>1, <1>9, AdvanceType DEF Untouched, NoRotation, TypeOK, instVars, worldVars
<1>10. CASE AskPeers(r) \/ Rotate(r)
  <2>1. PeersActive(at[r]) \subseteq Keys
    BY <1>1 DEF PeersActive, TypeOK
  <2>2. excl' \in [Threads -> SUBSET Keys]
    BY <1>1, <1>10, <2>1 DEF AskPeers, Rotate, TypeOK
  <2>3. QED
    BY <1>1, <1>10, <2>2
       DEF AskPeers, Rotate, Goto, TypeOK, Places, Reasons, RetainsAKey, Threads, instVars,
           worldVars
<1>11. CASE CandidateWins(r)
  BY <1>1, <1>11
     DEF CandidateWins, Goto, TypeOK, Places, RetainsAKey, Threads, instVars, worldVars
<1>12. CASE SwitchSteps(r)
  BY <1>1, <1>12, SwitchIInv
<1>13. QED
  BY <1>2, <1>3, <1>4, <1>5, <1>6, <1>7, <1>8, <1>9, <1>10, <1>11, <1>12 DEF RefreshSteps

LEMMA NextIInv == IInv /\ [Next]_vars => IInv'
<1> SUFFICES ASSUME IInv, [Next]_vars
             PROVE  IInv'
  OBVIOUS
<1> USE FailoverAssumption
<1>1. ASSUME NEW t \in Recoveries, RecoverySteps(t)
      PROVE  IInv'
  <2>1. t \in Threads
    BY DEF Threads
  <2>2. CASE SwitchSteps(t)
    BY <2>1, <2>2, SwitchIInv
  <2>3. CASE TryAgain(t) /\ tries[t] = 0
    BY <2>1, <2>3 DEF TryAgain, Goto, IInv, TypeOK, Places, RetainsAKey, Threads, instVars,
                      worldVars
  <2>4. CASE TryAgain(t) /\ tries[t] # 0
    BY <2>1, <2>4, AdvanceType DEF TryAgain, IInv, TypeOK, instVars, worldVars
  <2>5. QED
    BY <1>1, <2>2, <2>3, <2>4 DEF RecoverySteps
<1>2. CASE World
  BY <1>2 DEF World, UpstreamFlips, Crash, StopChild, Mishap, IInv, TypeOK, RetainsAKey,
              instVars, jobVars
<1>3. CASE UNCHANGED vars
  BY <1>3 DEF vars, IInv, TypeOK, RetainsAKey, instVars, jobVars, worldVars
<1>4. QED
  BY <1>1, <1>2, <1>3, HealthIInv, RefreshIInv DEF Next

LEMMA Invariance == Spec => []IInv
BY InitIInv, NextIInv, PTL DEF Spec

\* However health loop, watchdog, refreshes and recoveries interleave, every variable
\* keeps its type; above all, RetainActive never makes nothing the active config.
THEOREM TypeCorrect == Spec => []TypeOK
<1>1. IInv => TypeOK
  BY DEF IInv
<1>2. QED
  BY <1>1, Invariance, PTL

-------------------------------------------------------------------------------
\* What a step leaves alone: the other goroutines, and, but for a refresh, the pools.

LEMMA SwitchFrame ==
    ASSUME IInv, NEW t \in Threads, SwitchSteps(t)
    PROVE  /\ configs' = configs
           /\ \A s \in Threads \ {t} : /\ pc'[s] = pc[s] /\ why'[s] = why[s]
                                        /\ at'[s] = at[s] /\ excl'[s] = excl[s]
                                        /\ win'[s] = win[s]
<1> USE DEF IInv, TypeOK, Goto, jobVars, instVars
<1>1. CASE MarkDown(t) \/ Exclude(t)
  BY <1>1 DEF MarkDown, Exclude
<1>2. CASE Search(t) \/ SearchFails(t) \/ WinnerVanished(t) \/ Swap(t)
  BY <1>2 DEF Search, SearchFails, WinnerVanished, Swap
<1>3. CASE \/ Launch(t) \/ LaunchFails(t) \/ Adopt(t) \/ Reject(t)
           \/ Restore(t) \/ NoRestore(t) \/ RestoreFails(t)
  BY <1>3 DEF Launch, LaunchFails, Adopt, Reject, Restore, NoRestore, RestoreFails
<1>4. CASE Switched(t) \/ Failed(t)
  BY <1>4 DEF Switched, Failed, Advance
<1>5. QED
  BY <1>1, <1>2, <1>3, <1>4 DEF SwitchSteps

LEMMA HealthFrame ==
    ASSUME IInv, HealthSteps
    PROVE  /\ configs' = configs
           /\ \A s \in Threads \ {Health} : /\ pc'[s] = pc[s] /\ why'[s] = why[s]
                                        /\ at'[s] = at[s] /\ excl'[s] = excl[s]
                                        /\ win'[s] = win[s]
<1>1. CASE SwitchSteps(Health)
  BY <1>1, SwitchFrame DEF Threads
<1>2. CASE SkipCheck \/ CheckOK \/ DialOpen
  BY <1>2 DEF SkipCheck, CheckOK, DialOpen, Advance, Goto, instVars, IInv, TypeOK
<1>3. CASE HealthTick \/ CheckNothing \/ DialDead
  BY <1>3 DEF HealthTick, CheckNothing, DialDead, Goto, instVars, jobVars, IInv, TypeOK
<1>4. CASE CheckPasses \/ CheckFails \/ CheckInconclusive \/ CheckVouched
  BY <1>4 DEF CheckPasses, CheckFails, CheckInconclusive, CheckVouched, Goto, jobVars, IInv,
              TypeOK
<1>5. QED
  BY <1>1, <1>2, <1>3, <1>4 DEF HealthSteps

LEMMA RecoveryFrame ==
    ASSUME IInv, NEW t \in Recoveries, RecoverySteps(t)
    PROVE  /\ configs' = configs
           /\ \A s \in Threads \ {t} : /\ pc'[s] = pc[s] /\ why'[s] = why[s]
                                        /\ at'[s] = at[s] /\ excl'[s] = excl[s]
                                        /\ win'[s] = win[s]
<1>1. CASE SwitchSteps(t)
  BY <1>1, SwitchFrame DEF Threads
<1>2. CASE TryAgain(t)
  BY <1>2 DEF TryAgain, Advance, Goto, instVars, IInv, TypeOK
<1>3. QED
  BY <1>1, <1>2 DEF RecoverySteps

\* A refresh touches no goroutine but its own, except that it starts one.
LEMMA RefreshFrame ==
    ASSUME IInv, NEW r \in Refreshers, RefreshSteps(r), ~Spawn(r)
    PROVE  \A s \in Threads \ {r} : pc'[s] = pc[s] /\ at'[s] = at[s] /\ win'[s] = win[s]
<1> USE DEF IInv, TypeOK, Goto, jobVars, instVars
<1>1. CASE SwitchSteps(r)
  BY <1>1, SwitchFrame DEF Threads
<1>2. CASE \E P \in Pools : Fetch(r, P)
  BY <1>2 DEF Fetch
<1>3. CASE \/ Prev(r) \/ Update(r) \/ Reconciles(r) \/ RefreshOver(r)
           \/ Vanished(r) \/ MayRetain(r) \/ Slow(r)
           \/ AskPeers(r) \/ CandidateWins(r) \/ Rotate(r)
  BY <1>3 DEF Prev, Update, Reconciles, RefreshOver, Vanished, MayRetain, Slow, AskPeers,
              CandidateWins, Rotate
<1>4. CASE Retain(r) \/ Untouched(r) \/ NoRotation(r)
  BY <1>4 DEF Retain, Untouched, NoRotation, Advance
<1>5. QED
  BY <1>1, <1>2, <1>3, <1>4 DEF RefreshSteps

-------------------------------------------------------------------------------
\* Swaps, in anybody's hands.

\* A recovery works for the instance it was started for, and only while its refresh
\* is behind that instance: so a refresh never restarts one that is at work.
RecoveriesAreOwned ==
    \A r \in Refreshers, i \in Instances :
        /\ at[<<r, i>>] = i
        /\ pc[<<r, i>>] = "idle" \/ pc[r] = "wait" \/ (pc[r] # "idle" /\ i < at[r])

\* The steps of a swap.
Swapping == {"launch", "verify", "restore"}

\* A swap holds the mutex of its instance, whose port is silent but for the winner that
\* is being verified.
SwapsHold ==
    \A t \in Threads :
        /\ pc[t] \in Swapping => mu[at[t]] = t
        /\ pc[t] \in {"launch", "restore"} => xray[at[t]] = NoKey
        /\ pc[t] = "verify" => xray[at[t]] \in {NoKey, win[t]}
        /\ pc[t] \in {"launch", "verify"} => win[t] \in Keys

\* And nothing else holds a mutex from one step to the next: who holds one waits for
\* no other.
HoldersSwap == \A i \in Instances : mu[i] # Free => pc[mu[i]] \in Swapping /\ at[mu[i]] = i

MutexInv == SwapsHold /\ HoldersSwap

\* The steps of a goroutine that is in no swap and begins none.
LEMMA QuietKeepsMutex ==
    ASSUME IInv, MutexInv, NEW t \in Threads, UNCHANGED <<mu, xray>>,
           pc[t] \notin Swapping, pc'[t] \notin Swapping,
           \A s \in Threads \ {t} : pc'[s] = pc[s] /\ at'[s] = at[s] /\ win'[s] = win[s]
    PROVE  MutexInv'
<1>1. SwapsHold'
  BY DEF MutexInv, SwapsHold, Swapping
<1>2. \A i \in Instances : mu[i] # Free => mu[i] \in Threads \ {t}
  BY DEF MutexInv, HoldersSwap, IInv, TypeOK
<1>3. HoldersSwap'
  BY <1>2 DEF MutexInv, HoldersSwap
<1>4. QED
  BY <1>1, <1>3 DEF MutexInv

\* Where a goroutine is when it has turned to its next instance.
LEMMA AdvancePlace ==
    ASSUME IInv, NEW t \in Threads, Advance(t)
    PROVE  pc'[t] \in {"idle", "prev", "wait", "check", "dial"}
BY DEF Advance, Goto, IInv, TypeOK

LEMMA SwitchMutex ==
    ASSUME IInv, MutexInv, NEW t \in Threads, SwitchSteps(t)
    PROVE  MutexInv'
<1> USE FailoverAssumption DEF IInv, TypeOK
<1> DEFINE i == at[t]
<1>1. i \in Instances
  OBVIOUS
<1>2. /\ configs' = configs
      /\ \A s \in Threads \ {t} : pc'[s] = pc[s] /\ at'[s] = at[s] /\ win'[s] = win[s]
  BY SwitchFrame
<1>3. CASE MarkDown(t) \/ Exclude(t) \/ Search(t) \/ SearchFails(t) \/ WinnerVanished(t)
  <2>1. UNCHANGED <<mu, xray>> /\ pc[t] \notin Swapping /\ pc'[t] \notin Swapping
    BY <1>3 DEF MarkDown, Exclude, Search, SearchFails, WinnerVanished, Goto, instVars, Swapping
  <2>2. QED
    BY <1>2, <2>1, QuietKeepsMutex
<1>4. CASE Switched(t) \/ Failed(t)
  <2>1. UNCHANGED <<mu, xray>> /\ pc[t] \notin Swapping /\ Advance(t)
    BY <1>4 DEF Switched, Failed, Swapping
  <2>2. QED
    BY <1>2, <2>1, AdvancePlace, QuietKeepsMutex DEF Swapping
<1>5. CASE Swap(t)
  <2>1. /\ mu[i] = Free
        /\ mu' = [mu EXCEPT ![i] = t]
        /\ xray' = [xray EXCEPT ![i] = NoKey]
        /\ pc' = [pc EXCEPT ![t] = "launch"] /\ at' = at /\ win' = win
        /\ pc[t] = "swap" /\ win[t] \in Keys
    BY <1>5 DEF Swap, Unlocked, StopChild, Goto, jobVars
  <2>2. SwapsHold'
    <3>1. \A s \in Threads \ {t} : pc[s] \in Swapping => at[s] # i
      BY <2>1 DEF MutexInv, SwapsHold
    <3>2. QED
      BY <1>1, <2>1, <3>1 DEF MutexInv, SwapsHold, Swapping
  <2>3. HoldersSwap'
    BY <1>1, <2>1 DEF MutexInv, HoldersSwap, Swapping
  <2>4. QED
    BY <2>2, <2>3 DEF MutexInv
<1>6. CASE Launch(t) \/ LaunchFails(t) \/ Reject(t)
  <2>1. /\ mu' = mu /\ at' = at /\ win' = win
        /\ pc[t] \in Swapping /\ pc'[t] \in Swapping
        /\ \A j \in Instances \ {i} : xray'[j] = xray[j]
    BY <1>1, <1>6 DEF Launch, LaunchFails, Reject, StopChild, Goto, instVars, jobVars, Swapping
  <2>2. /\ pc'[t] = "restore" => xray'[i] = NoKey
        /\ pc'[t] = "verify" => xray'[i] = win[t] /\ win[t] \in Keys
        /\ pc'[t] # "launch"
    BY <1>1, <1>6 DEF Launch, LaunchFails, Reject, StopChild, Goto, instVars, MutexInv, SwapsHold
  <2>3. \A s \in Threads \ {t} : pc[s] \in Swapping => at[s] # i
    BY <2>1 DEF MutexInv, SwapsHold
  <2>4. SwapsHold'
    BY <1>1, <1>2, <2>1, <2>2, <2>3 DEF MutexInv, SwapsHold, Swapping
  <2>5. HoldersSwap'
    BY <1>2, <2>1 DEF MutexInv, HoldersSwap
  <2>6. QED
    BY <2>4, <2>5 DEF MutexInv
<1>7. CASE Adopt(t) \/ Restore(t) \/ NoRestore(t) \/ RestoreFails(t)
  <2>1. /\ mu' = [mu EXCEPT ![i] = Free]
        /\ \A j \in Instances \ {i} : xray'[j] = xray[j]
        /\ pc[t] \in Swapping /\ pc'[t] \notin Swapping
    BY <1>1, <1>7 DEF Adopt, Restore, NoRestore, RestoreFails, Activate, Goto, Swapping
  <2>2. \A s \in Threads \ {t} : pc[s] \in Swapping => at[s] # i
    BY <2>1 DEF MutexInv, SwapsHold
  <2>3. SwapsHold'
    BY <1>1, <1>2, <2>1, <2>2 DEF MutexInv, SwapsHold, Swapping
  <2>4. \A j \in Instances : mu'[j] # Free => j # i /\ mu[j] \in Threads \ {t} /\ mu'[j] = mu[j]
    BY <1>1, <2>1 DEF MutexInv, HoldersSwap
  <2>5. HoldersSwap'
    BY <1>2, <2>4 DEF MutexInv, HoldersSwap
  <2>6. QED
    BY <2>3, <2>5 DEF MutexInv
<1>8. QED
  BY <1>3, <1>4, <1>5, <1>6, <1>7 DEF SwitchSteps

LEMMA HealthMutex ==
    ASSUME IInv, MutexInv, HealthSteps
    PROVE  MutexInv'
<1>1. Health \in Threads /\ pc \in [Threads -> Places]
  BY DEF Threads, IInv, TypeOK
<1>2. CASE SwitchSteps(Health)
  BY <1>1, <1>2, SwitchMutex
<1>3. CASE ~SwitchSteps(Health)
  <2>1. UNCHANGED <<mu, xray>> /\ pc[Health] \notin Swapping
    BY <1>3 DEF HealthSteps, HealthTick, SkipCheck, CheckNothing, CheckPasses, CheckFails,
                CheckInconclusive, CheckVouched, Checks, CheckOK, DialDead, DialOpen, instVars,
                Swapping
  <2>2. pc'[Health] \notin Swapping
    <3>1. CASE SkipCheck \/ CheckOK \/ DialOpen
      BY <1>1, <3>1, AdvancePlace DEF SkipCheck, CheckOK, DialOpen, Swapping
    <3>2. CASE \/ HealthTick \/ CheckNothing \/ DialDead
               \/ CheckPasses \/ CheckFails \/ CheckInconclusive \/ CheckVouched
      BY <1>1, <3>2 DEF HealthTick, CheckNothing, DialDead, CheckPasses, CheckFails,
                        CheckInconclusive, CheckVouched, Goto, Swapping
    <3>3. QED
      BY <1>3, <3>1, <3>2 DEF HealthSteps
  <2>3. QED
    BY <1>1, <2>1, <2>2, HealthFrame, QuietKeepsMutex
<1>4. QED
  BY <1>2, <1>3

LEMMA RefreshMutex ==
    ASSUME IInv, MutexInv, RecoveriesAreOwned, NEW r \in Refreshers, RefreshSteps(r)
    PROVE  MutexInv'
<1>1. r \in Threads /\ pc \in [Threads -> Places] /\ at[r] \in Instances
  BY DEF Threads, IInv, TypeOK
<1>2. CASE SwitchSteps(r)
  BY <1>1, <1>2, SwitchMutex
<1>3. CASE Spawn(r)
  <2> DEFINE t == <<r, at[r]>>
  <2>1. t \in Threads /\ t # r
    BY <1>1, FailoverAssumption DEF Threads, Recoveries
  <2>2. pc[r] = "status" /\ pc[t] = "idle"
    <3>1. at[r] \in Int
      BY <1>1 DEF Instances
    <3>2. QED
      BY <1>1, <1>3, <3>1 DEF Spawn, RecoveriesAreOwned
  <2>3. /\ UNCHANGED <<mu, xray>>
        /\ pc'[t] \notin Swapping /\ pc'[r] \notin Swapping
        /\ \A s \in Threads \ {r, t} : pc'[s] = pc[s] /\ at'[s] = at[s]
        /\ win' = win
    BY <1>1, <1>3, <2>1 DEF Spawn, instVars, IInv, TypeOK, Swapping
  <2>4. SwapsHold'
    BY <2>3 DEF MutexInv, SwapsHold, Swapping
  <2>5. \A i \in Instances : mu[i] # Free => mu[i] \in Threads \ {r, t}
    BY <2>2 DEF MutexInv, HoldersSwap, IInv, TypeOK, Swapping
  <2>6. HoldersSwap'
    BY <2>3, <2>5 DEF MutexInv, HoldersSwap
  <2>7. QED
    BY <2>4, <2>6 DEF MutexInv
<1>4. CASE ~SwitchSteps(r) /\ ~Spawn(r)
  <2>1. UNCHANGED <<mu, xray>> /\ pc[r] \notin Swapping
    BY <1>4 DEF RefreshSteps, Fetch, Prev, Update, Reconciles, RefreshOver, Vanished, MayRetain,
                Retain, Untouched, Slow, AskPeers, CandidateWins, Rotate, NoRotation, instVars,
                Swapping
  <2>2. pc'[r] \notin Swapping
    <3>1. CASE Retain(r) \/ Untouched(r) \/ NoRotation(r)
      BY <1>1, <3>1, AdvancePlace DEF Retain, Untouched, NoRotation, Swapping
    <3>2. CASE \/ \E P \in Pools : Fetch(r, P)
               \/ Prev(r) \/ Update(r) \/ Reconciles(r) \/ RefreshOver(r)
               \/ Vanished(r) \/ MayRetain(r) \/ Slow(r)
               \/ AskPeers(r) \/ CandidateWins(r) \/ Rotate(r)
      BY <1>1, <3>2 DEF Fetch, Prev, Update, Reconciles, RefreshOver, Vanished, MayRetain,
                        Slow, AskPeers, CandidateWins, Rotate, Goto, Swapping
    <3>3. QED
      BY <1>4, <3>1, <3>2 DEF RefreshSteps
  <2>3. QED
    BY <1>1, <1>4, <2>1, <2>2, RefreshFrame, QuietKeepsMutex
<1>5. QED
  BY <1>2, <1>3, <1>4

LEMMA NextMutex == IInv /\ RecoveriesAreOwned /\ MutexInv /\ [Next]_vars => MutexInv'
<1> SUFFICES ASSUME IInv, RecoveriesAreOwned, MutexInv, [Next]_vars
             PROVE  MutexInv'
  OBVIOUS
<1>1. ASSUME NEW t \in Recoveries, RecoverySteps(t)
      PROVE  MutexInv'
  <2>1. t \in Threads /\ pc \in [Threads -> Places]
    BY DEF Threads, IInv, TypeOK
  <2>2. CASE SwitchSteps(t)
    BY <2>1, <2>2, SwitchMutex
  <2>3. CASE TryAgain(t)
    <3>1. UNCHANGED <<mu, xray>> /\ pc[t] \notin Swapping
      BY <2>3 DEF TryAgain, instVars, Swapping
    <3>2. pc'[t] \notin Swapping
      BY <2>1, <2>3, AdvancePlace DEF TryAgain, Goto, Swapping
    <3>3. QED
      BY <1>1, <2>1, <3>1, <3>2, RecoveryFrame, QuietKeepsMutex
  <2>4. QED
    BY <1>1, <2>2, <2>3 DEF RecoverySteps
<1>2. CASE World
  <2>1. ASSUME NEW k \in Keys, UpstreamFlips(k)
        PROVE  MutexInv'
    BY <2>1 DEF UpstreamFlips, instVars, jobVars, MutexInv, SwapsHold, HoldersSwap
  <2>2. ASSUME NEW i \in Instances, Crash(i)
        PROVE  MutexInv'
    BY <2>2 DEF Crash, StopChild, jobVars, MutexInv, SwapsHold, HoldersSwap, IInv, TypeOK
  <2>3. QED
    BY <1>2, <2>1, <2>2 DEF World
<1>3. CASE UNCHANGED vars
  BY <1>3 DEF vars, instVars, jobVars, MutexInv, SwapsHold, HoldersSwap
<1>4. QED
  BY <1>1, <1>2, <1>3, HealthMutex, RefreshMutex DEF Next

\* The steps of a refresh: it moves on within an instance, to the next one or to
\* wg.Wait, and is idle again when all it has started is.
LEMMA RefreshOwned ==
    ASSUME IInv, RecoveriesAreOwned, NEW r \in Refreshers, RefreshSteps(r)
    PROVE  RecoveriesAreOwned'
<1> USE FailoverAssumption
<1>1. /\ r \in Threads /\ r \notin Recoveries /\ r # Health
      /\ pc \in [Threads -> Places] /\ at \in [Threads -> Instances]
      /\ at[r] \in Int /\ N \in Int
  BY DEF Threads, Instances, IInv, TypeOK
<1>2. \A q \in Refreshers, i \in Instances : <<q, i>> \in Threads \ Refreshers
  BY DEF Threads, Recoveries
<1> DEFINE Mine(i) == pc[<<r, i>>] = "idle" \/ pc[r] = "wait" \/ (pc[r] # "idle" /\ i < at[r])
<1>3. ASSUME \A s \in Threads \ {r} : pc'[s] = pc[s] /\ at'[s] = at[s],
             \A i \in Instances : Mine(i)'
      PROVE  RecoveriesAreOwned'
  <2>1. \A q \in Refreshers \ {r}, i \in Instances :
            /\ pc'[q] = pc[q] /\ at'[q] = at[q]
            /\ pc'[<<q, i>>] = pc[<<q, i>>] /\ at'[<<q, i>>] = at[<<q, i>>]
    BY <1>1, <1>2, <1>3 DEF Threads
  <2>2. \A i \in Instances : at'[<<r, i>>] = at[<<r, i>>]
    BY <1>2, <1>3
  <2>3. QED
    BY <1>3, <2>1, <2>2 DEF RecoveriesAreOwned
<1>4. CASE Advance(r) /\ ~RefreshOver(r) /\ ~(\E P \in Pools : Fetch(r, P))
  <2>1. /\ \A s \in Threads \ {r} : pc'[s] = pc[s] /\ at'[s] = at[s]
        /\ \/ pc'[r] = "wait"
           \/ pc'[r] = "prev" /\ at'[r] = at[r] + 1
    BY <1>1, <1>4 DEF Advance, Goto
  <2>2. pc[r] \notin {"wait", "idle"}
    BY <1>4 DEF RefreshSteps, Prev, Update, Reconciles, Spawn, Vanished, MayRetain, Retain,
                Untouched, Slow, AskPeers, CandidateWins, Rotate, NoRotation, SwitchSteps,
                MarkDown, Exclude, Search, SearchFails, WinnerVanished, Swap, Launch,
                LaunchFails, Adopt, Reject, Restore, NoRestore, RestoreFails, Switched, Failed
  <2>3. \A i \in Instances : Mine(i)'
    BY <1>1, <1>2, <2>1, <2>2 DEF RecoveriesAreOwned, Instances
  <2>4. QED
    BY <1>3, <2>1, <2>3
<1>5. CASE Spawn(r)
  <2> DEFINE t == <<r, at[r]>>
  <2>1. /\ pc[r] = "status" /\ t \in Threads \ {r}
        /\ \A s \in Threads \ {r} : at'[s] = at[s]
        /\ \A s \in Threads \ {r, t} : pc'[s] = pc[s]
        /\ \/ pc'[r] = "wait"
           \/ pc'[r] = "prev" /\ at'[r] = at[r] + 1
    BY <1>1, <1>2, <1>5 DEF Spawn
  <2>2. \A i \in Instances : i # at[r] => <<r, i>> # t
    OBVIOUS
  <2>3. ASSUME NEW i \in Instances
        PROVE  Mine(i)'
    <3>1. i \in Int
      BY DEF Instances
    <3>2. CASE i = at[r]
      BY <1>1, <2>1, <3>1, <3>2
    <3>3. CASE i # at[r]
      <4>1. pc'[<<r, i>>] = pc[<<r, i>>]
        BY <1>1, <1>2, <2>1, <2>2, <3>3
      <4>2. pc[<<r, i>>] = "idle" \/ i < at[r]
        BY <2>1 DEF RecoveriesAreOwned
      <4>3. QED
        BY <1>1, <2>1, <3>1, <4>1, <4>2
    <3>4. QED
      BY <3>2, <3>3
  <2>4. \A q \in Refreshers \ {r}, i \in Instances :
            /\ pc'[q] = pc[q] /\ at'[q] = at[q]
            /\ pc'[<<q, i>>] = pc[<<q, i>>] /\ at'[<<q, i>>] = at[<<q, i>>]
    BY <1>1, <1>2, <2>1 DEF Threads
  <2>5. \A i \in Instances : at'[<<r, i>>] = at[<<r, i>>]
    BY <1>1, <1>2, <2>1
  <2>6. QED
    BY <2>3, <2>4, <2>5 DEF RecoveriesAreOwned
<1>6. CASE (\E P \in Pools : Fetch(r, P)) \/ RefreshOver(r)
  <2>1. \A i \in Instances : pc[<<r, i>>] = "idle"
    BY <1>6 DEF Fetch, RefreshOver, RecoveriesAreOwned
  <2>2. \A s \in Threads \ {r} : pc'[s] = pc[s] /\ at'[s] = at[s]
    BY <1>1, <1>6 DEF Fetch, RefreshOver, Goto
  <2>3. QED
    BY <1>2, <1>3, <2>1, <2>2
<1>7. CASE /\ ~Advance(r) /\ ~Spawn(r) /\ ~RefreshOver(r)
           /\ ~(\E P \in Pools : Fetch(r, P))
  <2>1. /\ pc[r] \notin {"idle", "wait"} /\ pc'[r] # "idle" /\ at'[r] = at[r]
    BY <1>1, <1>7
       DEF RefreshSteps, Prev, Update, Reconciles, Vanished, MayRetain, Retain, Untouched, Slow,
           AskPeers, CandidateWins, Rotate, NoRotation, SwitchSteps, MarkDown, Exclude, Search,
           SearchFails, WinnerVanished, Swap, Launch, LaunchFails, Adopt, Reject, Restore,
           NoRestore, RestoreFails, Switched, Failed, Goto, jobVars
  <2>2. \A s \in Threads \ {r} : pc'[s] = pc[s] /\ at'[s] = at[s]
    BY <1>7, RefreshFrame
  <2>3. \A i \in Instances : Mine(i)'
    BY <1>2, <2>1, <2>2 DEF RecoveriesAreOwned
  <2>4. QED
    BY <1>3, <2>2, <2>3
<1>8. QED
  BY <1>4, <1>5, <1>6, <1>7

LEMMA NextOwned == IInv /\ RecoveriesAreOwned /\ [Next]_vars => RecoveriesAreOwned'
<1> SUFFICES ASSUME IInv, RecoveriesAreOwned, [Next]_vars
             PROVE  RecoveriesAreOwned'
  OBVIOUS
<1>1. \A r \in Refreshers, i \in Instances : r \in Threads /\ <<r, i>> \in Recoveries
  BY DEF Threads, Recoveries
<1>2. CASE HealthSteps
  <2>1. Refreshers \cup Recoveries \subseteq Threads \ {Health}
    BY FailoverAssumption DEF Threads
  <2>2. QED
    BY <1>1, <1>2, <2>1, HealthFrame DEF RecoveriesAreOwned
<1>3. ASSUME NEW t \in Recoveries, RecoverySteps(t)
      PROVE  RecoveriesAreOwned'
  <2>1. t \in Threads /\ t \notin Refreshers /\ t # Health
    BY FailoverAssumption DEF Threads
  <2>2. pc[t] # "idle" /\ at'[t] = at[t]
    BY <1>3, <2>1
       DEF RecoverySteps, TryAgain, SwitchSteps, MarkDown, Exclude, Search, SearchFails,
           WinnerVanished, Swap, Launch, LaunchFails, Adopt, Reject, Restore, NoRestore,
           RestoreFails, Switched, Failed, Advance, jobVars, instVars
  <2>3. \A s \in Threads \ {t} : pc'[s] = pc[s] /\ at'[s] = at[s]
    BY <1>3, RecoveryFrame
  <2>4. ASSUME NEW r \in Refreshers, NEW i \in Instances
        PROVE  /\ at'[<<r, i>>] = i
               /\ pc'[<<r, i>>] = "idle" \/ pc'[r] = "wait" \/ (pc'[r] # "idle" /\ i < at'[r])
    <3>1. pc'[r] = pc[r] /\ at'[r] = at[r]
      BY <2>1, <2>3 DEF Threads
    <3>2. CASE <<r, i>> = t
      BY <2>2, <3>1, <3>2 DEF RecoveriesAreOwned
    <3>3. CASE <<r, i>> # t
      BY <1>1, <2>3, <3>1, <3>3 DEF RecoveriesAreOwned, Threads
    <3>4. QED
      BY <3>2, <3>3
  <2>5. QED
    BY <2>4 DEF RecoveriesAreOwned
<1>4. CASE World \/ UNCHANGED vars
  BY <1>4 DEF World, UpstreamFlips, Crash, vars, jobVars, RecoveriesAreOwned
<1>5. QED
  BY <1>2, <1>3, <1>4, RefreshOwned DEF Next

LEMMA MutexInvariance == Spec => [](IInv /\ MutexInv)
<1>1. Init => RecoveriesAreOwned
  BY FailoverAssumption DEF Init, RecoveriesAreOwned, Threads, Recoveries
<1>2. Init => MutexInv
  BY DEF Init, MutexInv, SwapsHold, HoldersSwap, Swapping
<1>3. QED
  BY <1>1, <1>2, NextOwned, NextMutex, Invariance, PTL DEF Spec

\* At most one goroutine is in the swap of an instance.
OneSwap ==
    \A s, t \in Threads :
        pc[s] \in Swapping /\ pc[t] \in Swapping /\ at[s] = at[t] => s = t

\* However the goroutines interleave, the swaps of an instance exclude one another, and
\* whoever holds a mutex is in a swap, in which it asks for no other mutex: so no circle
\* of waiters can form (SwitchToNextExcluding, selector.go).
THEOREM SwapsExclude == Spec => [](OneSwap /\ HoldersSwap)
<1>1. MutexInv => OneSwap /\ HoldersSwap
  BY DEF MutexInv, SwapsHold, OneSwap
<1>2. QED
  BY <1>1, MutexInvariance, PTL

-------------------------------------------------------------------------------
\* The ports, in anybody's hands.

\* What a step does to the ports: nothing, or it silences one, or it brings a child to a
\* silent one, the winner of a switch or what was there before.
LEMMA StepOfPorts ==
    ASSUME IInv, MutexInv, [Next]_vars
    PROVE  [\E i \in Instances : Ports!Silence(i) \/ \E k \in Keys : Ports!Take(i, k)]_xray
<1> DEFINE PortStep == [\E i \in Instances : Ports!Silence(i)
                                             \/ \E k \in Keys : Ports!Take(i, k)]_xray
<1> USE FailoverAssumption DEF IInv, TypeOK
<1>1. ASSUME NEW t \in Threads, SwitchSteps(t)
      PROVE  PortStep
  <2>1. CASE Launch(t)
    BY <2>1 DEF Launch, MutexInv, SwapsHold, Ports!Take
  <2>2. CASE Restore(t)
    BY <2>2 DEF Restore, MutexInv, SwapsHold, Ports!Take
  <2>3. CASE Swap(t) \/ Reject(t)
    BY <2>3 DEF Swap, Reject, StopChild, Ports!Silence
  <2>4. CASE ~Launch(t) /\ ~Restore(t) /\ ~Swap(t) /\ ~Reject(t)
    BY <1>1, <2>4 DEF SwitchSteps, MarkDown, Exclude, Search, SearchFails, WinnerVanished,
                      LaunchFails, Adopt, NoRestore, RestoreFails, Switched, Failed, instVars
  <2>5. QED
    BY <2>1, <2>2, <2>3, <2>4
<1>2. CASE HealthSteps
  <2>1. CASE SwitchSteps(Health)
    BY <1>1, <2>1 DEF Threads
  <2>2. CASE ~SwitchSteps(Health)
    BY <1>2, <2>2 DEF HealthSteps, HealthTick, SkipCheck, CheckNothing, CheckPasses, CheckFails,
                      CheckInconclusive, CheckVouched, CheckOK, DialDead, DialOpen, instVars
  <2>3. QED
    BY <2>1, <2>2
<1>3. ASSUME NEW r \in Refreshers, RefreshSteps(r), ~SwitchSteps(r)
      PROVE  xray' = xray
  BY <1>3 DEF RefreshSteps, Fetch, Prev, Update, Reconciles, Spawn, RefreshOver, Vanished,
              MayRetain, Retain, Untouched, Slow, AskPeers, CandidateWins, Rotate, NoRotation,
              instVars
<1>4. ASSUME NEW t \in Recoveries, RecoverySteps(t), ~SwitchSteps(t)
      PROVE  xray' = xray
  BY <1>4 DEF RecoverySteps, TryAgain, instVars
<1>5. CASE World
  BY <1>5 DEF World, UpstreamFlips, Crash, StopChild, instVars, Ports!Silence
<1>6. CASE UNCHANGED vars
  BY <1>6 DEF vars, instVars
<1>7. QED
  BY <1>1, <1>2, <1>3, <1>4, <1>5, <1>6 DEF Next, Threads

\* Whatever refreshes, recoveries and health loop do to one another, a serving port goes
\* from one upstream to another through silence only: the half of Serving that does
\* not depend on who else is at work.
THEOREM PortsFallSilent == Spec => Ports!PortSpec
<1>1. Init => Ports!Init
  BY InitIInv DEF IInv, TypeOK, Ports!Init
<1>2. IInv /\ MutexInv /\ [Next]_vars
        => [\E i \in Instances : Ports!Silence(i) \/ \E k \in Keys : Ports!Take(i, k)]_xray
  BY StepOfPorts
<1>3. QED
  BY <1>1, <1>2, MutexInvariance, PTL DEF Spec, Ports!PortSpec

-------------------------------------------------------------------------------
\* Index and pool, in anybody's hands.

IndexIsInPool == \A i \in Instances : active[i] \in configs[i] \cup {NoKey}

\* The pool of an instance in a swap lists the winner until the swap is over.
WinnersAreListed ==
    \A t \in Threads : pc[t] \in {"launch", "verify"} => win[t] \in configs[at[t]]

IndexInv == IndexIsInPool /\ WinnersAreListed

\* The steps that move no index, touch no pool and begin no swap.
LEMMA QuietKeepsIndex ==
    ASSUME IndexInv, NEW t \in Threads, UNCHANGED <<active, configs>>,
           pc'[t] \notin {"launch", "verify"},
           \A s \in Threads \ {t} : pc'[s] = pc[s] /\ at'[s] = at[s] /\ win'[s] = win[s]
    PROVE  IndexInv'
BY DEF IndexInv, IndexIsInPool, WinnersAreListed

LEMMA SwitchIndex ==
    ASSUME IInv, IndexInv, NEW t \in Threads, SwitchSteps(t)
    PROVE  IndexInv'
<1> USE DEF IInv, TypeOK
<1>1. /\ configs' = configs
      /\ \A s \in Threads \ {t} : pc'[s] = pc[s] /\ at'[s] = at[s] /\ win'[s] = win[s]
  BY SwitchFrame
<1>2. CASE \/ MarkDown(t) \/ Exclude(t) \/ Search(t) \/ SearchFails(t) \/ WinnerVanished(t)
           \/ LaunchFails(t) \/ Reject(t) \/ NoRestore(t) \/ RestoreFails(t)
  <2>1. active' = active /\ pc'[t] \notin {"launch", "verify"}
    BY <1>2 DEF MarkDown, Exclude, Search, SearchFails, WinnerVanished, LaunchFails,
                Reject, NoRestore, RestoreFails, Goto, instVars
  <2>2. QED
    BY <1>1, <2>1, QuietKeepsIndex
<1>3. CASE Switched(t) \/ Failed(t)
  <2>1. active' = active /\ Advance(t)
    BY <1>3 DEF Switched, Failed
  <2>2. QED
    BY <1>1, <2>1, AdvancePlace, QuietKeepsIndex
<1>4. CASE Swap(t) \/ Launch(t)
  <2>1. active' = active /\ UNCHANGED <<at, win>> /\ win[t] \in configs[at[t]]
    BY <1>4 DEF Swap, Launch, jobVars, IndexInv, WinnersAreListed
  <2>2. QED
    BY <1>1, <2>1 DEF IndexInv, IndexIsInPool, WinnersAreListed
<1>5. CASE Adopt(t) \/ Restore(t)
  <2>1. PICK k \in configs[at[t]] : active' = [active EXCEPT ![at[t]] = k]
    BY <1>5 DEF Adopt, Restore, Activate, IndexInv, WinnersAreListed
  <2>2. pc'[t] \notin {"launch", "verify"}
    BY <1>5 DEF Adopt, Restore, Goto
  <2>3. QED
    BY <1>1, <2>1, <2>2 DEF IndexInv, IndexIsInPool, WinnersAreListed
<1>6. QED
  BY <1>2, <1>3, <1>4, <1>5 DEF SwitchSteps

LEMMA RefreshIndex ==
    ASSUME IInv, MutexInv, IndexInv, NEW r \in Refreshers, RefreshSteps(r)
    PROVE  IndexInv'
<1> USE DEF IInv, TypeOK
<1>1. r \in Threads /\ at[r] \in Instances
  BY DEF Threads
<1>2. CASE SwitchSteps(r)
  BY <1>1, <1>2, SwitchIndex
<1>3. CASE Update(r) \/ Retain(r)
  <2>1. \A s \in Threads : pc[s] \in {"launch", "verify"} => at[s] # at[r]
    BY <1>3, FailoverAssumption DEF Update, Retain, Unlocked, MutexInv, SwapsHold,
                                         Swapping
  <2>2. /\ \A i \in Instances \ {at[r]} : configs'[i] = configs[i] /\ active'[i] = active[i]
        /\ active'[at[r]] \in configs'[at[r]] \cup {NoKey}
    BY <1>1, <1>3 DEF Update, Retain
  <2>3. pc'[r] \notin {"launch", "verify"}
    BY <1>1, <1>3, AdvancePlace DEF Update, Retain, Goto
  <2>4. \A s \in Threads \ {r} : pc'[s] = pc[s] /\ at'[s] = at[s] /\ win'[s] = win[s]
    BY <1>3, RefreshFrame DEF Update, Retain, Spawn
  <2>5. QED
    BY <1>1, <2>1, <2>2, <2>3, <2>4 DEF IndexInv, IndexIsInPool, WinnersAreListed
<1>4. CASE Spawn(r)
  <2>1. /\ UNCHANGED <<active, configs, win>>
        /\ \A s \in Threads :
              pc'[s] \in {"launch", "verify"} => pc'[s] = pc[s] /\ at'[s] = at[s]
    BY <1>1, <1>4 DEF Spawn, instVars
  <2>2. QED
    BY <2>1 DEF IndexInv, IndexIsInPool, WinnersAreListed
<1>5. CASE ~SwitchSteps(r) /\ ~Update(r) /\ ~Retain(r) /\ ~Spawn(r)
  <2>1. UNCHANGED <<active, configs>>
    BY <1>5 DEF RefreshSteps, Fetch, Prev, Reconciles, RefreshOver, Vanished, MayRetain,
                Untouched, Slow, AskPeers, CandidateWins, Rotate, NoRotation, instVars
  <2>2. pc'[r] \notin {"launch", "verify"}
    BY <1>1, <1>5, AdvancePlace
       DEF RefreshSteps, Fetch, Prev, Reconciles, RefreshOver, Vanished, MayRetain, Untouched,
           Slow, AskPeers, CandidateWins, Rotate, NoRotation, Goto
  <2>3. QED
    BY <1>1, <1>5, <2>1, <2>2, RefreshFrame, QuietKeepsIndex
<1>6. QED
  BY <1>2, <1>3, <1>4, <1>5

LEMMA NextIndex == IInv /\ MutexInv /\ IndexInv /\ [Next]_vars => IndexInv'
<1> SUFFICES ASSUME IInv, MutexInv, IndexInv, [Next]_vars
             PROVE  IndexInv'
  OBVIOUS
<1>1. CASE HealthSteps
  <2>1. Health \in Threads /\ pc \in [Threads -> Places]
    BY DEF Threads, IInv, TypeOK
  <2>2. CASE SkipCheck \/ CheckOK \/ DialOpen
    <3>1. active' = active /\ Advance(Health)
      BY <2>2 DEF SkipCheck, CheckOK, DialOpen, instVars
    <3>2. QED
      BY <1>1, <2>1, <3>1, AdvancePlace, HealthFrame, QuietKeepsIndex
  <2>3. CASE \/ HealthTick \/ CheckNothing \/ DialDead
             \/ CheckPasses \/ CheckFails \/ CheckInconclusive \/ CheckVouched
    <3>1. active' = active /\ pc'[Health] \notin {"launch", "verify"}
      BY <2>1, <2>3 DEF HealthTick, CheckNothing, DialDead, CheckPasses, CheckFails,
                        CheckInconclusive, CheckVouched, Goto, instVars
    <3>2. QED
      BY <1>1, <2>1, <3>1, HealthFrame, QuietKeepsIndex
  <2>4. QED
    BY <1>1, <2>1, <2>2, <2>3, SwitchIndex DEF HealthSteps
<1>2. ASSUME NEW t \in Recoveries, RecoverySteps(t)
      PROVE  IndexInv'
  <2>1. t \in Threads /\ pc \in [Threads -> Places]
    BY DEF Threads, IInv, TypeOK
  <2>2. CASE TryAgain(t)
    <3>1. active' = active /\ pc'[t] \notin {"launch", "verify"}
      BY <2>1, <2>2, AdvancePlace DEF TryAgain, Goto, instVars
    <3>2. QED
      BY <1>2, <2>1, <3>1, RecoveryFrame, QuietKeepsIndex
  <2>3. QED
    BY <1>2, <2>1, <2>2, SwitchIndex DEF RecoverySteps
<1>3. CASE World \/ UNCHANGED vars
  BY <1>3 DEF World, UpstreamFlips, Crash, vars, instVars, jobVars, IndexInv, IndexIsInPool,
              WinnersAreListed
<1>4. QED
  BY <1>1, <1>2, <1>3, RefreshIndex DEF Next

\* However goroutines interleave, activeIndex never points out of the pool: pools change
\* under the mutex that a swap holds from the check of its winner to its end
\* (UpdateConfigs, RetainActive and SwitchToNextExcluding, selector.go).
THEOREM IndexNeverDangles == Spec => []IndexIsInPool
<1>1. Init => IndexInv
  BY DEF Init, IndexInv, IndexIsInPool, WinnersAreListed
<1>2. IndexInv => IndexIsInPool
  BY DEF IndexInv
<1>3. QED
  BY <1>1, <1>2, NextIndex, MutexInvariance, PTL DEF Spec

-------------------------------------------------------------------------------
\* Index and child, in anybody's hands.

\* What leaves mutex, index and child of an instance alone cannot part them, nor can what
\* takes the index or the child away, or keeps the mutex.
LEMMA AgreementStays ==
    ASSUME NEW i \in Instances, Agrees(i),
           \/ mu'[i] # Free
           \/ mu'[i] = mu[i] /\ active'[i] \in {active[i], NoKey} /\ xray'[i] \in {xray[i], NoKey}
           \/ xray'[i] \in {active'[i], NoKey}
    PROVE  Agrees(i)'
BY DEF Agrees, Unlocked

LEMMA SwitchAgrees ==
    ASSUME IInv, MutexInv, NEW t \in Threads, SwitchSteps(t), NEW i \in Instances, Agrees(i)
    PROVE  Agrees(i)'
<1> USE FailoverAssumption DEF IInv, TypeOK
<1>1. at[t] \in Instances
  OBVIOUS
<1>2. CASE \/ MarkDown(t) \/ Exclude(t) \/ Search(t) \/ SearchFails(t) \/ WinnerVanished(t)
           \/ LaunchFails(t) \/ Switched(t) \/ Failed(t)
  <2>1. UNCHANGED <<mu, active, xray>>
    BY <1>2 DEF MarkDown, Exclude, Search, SearchFails, WinnerVanished, LaunchFails, Switched,
                Failed, instVars
  <2>2. QED
    BY <2>1 DEF Agrees, Unlocked
<1>3. CASE Swap(t) \/ Launch(t) \/ Reject(t)
  <2>1. /\ mu'[at[t]] = t
        /\ \A j \in Instances \ {at[t]} :
              mu'[j] = mu[j] /\ active'[j] = active[j] /\ xray'[j] = xray[j]
    BY <1>1, <1>3 DEF Swap, Launch, Reject, StopChild, MutexInv, SwapsHold, Swapping
  <2>2. QED
    BY <2>1, AgreementStays
<1>4. CASE Adopt(t) \/ Restore(t) \/ NoRestore(t) \/ RestoreFails(t)
  <2>1. /\ xray'[at[t]] \in {active'[at[t]], NoKey}
        /\ \A j \in Instances \ {at[t]} :
              mu'[j] = mu[j] /\ active'[j] = active[j] /\ xray'[j] = xray[j]
    BY <1>1, <1>4 DEF Adopt, Answers, Restore, NoRestore, RestoreFails, Activate, MutexInv,
                      SwapsHold
  <2>2. QED
    BY <2>1, AgreementStays
<1>5. QED
  BY <1>2, <1>3, <1>4 DEF SwitchSteps

LEMMA RefreshAgrees ==
    ASSUME IInv, MutexInv, NEW r \in Refreshers, RefreshSteps(r), NEW i \in Instances, Agrees(i),
           ~(Retain(r) /\ at[r] = i)
    PROVE  Agrees(i)'
<1> USE DEF IInv, TypeOK
<1>1. r \in Threads /\ at[r] \in Instances
  BY DEF Threads
<1>2. CASE SwitchSteps(r)
  BY <1>1, <1>2, SwitchAgrees
<1>3. CASE Update(r) \/ Retain(r)
  <2>1. mu' = mu /\ xray' = xray /\ active'[i] \in {active[i], NoKey}
    BY <1>1, <1>3 DEF Update, Retain
  <2>2. QED
    BY <2>1, AgreementStays
<1>4. CASE ~SwitchSteps(r) /\ ~Update(r) /\ ~Retain(r)
  <2>1. UNCHANGED <<mu, active, xray>>
    BY <1>4 DEF RefreshSteps, Fetch, Prev, Reconciles, Spawn, RefreshOver, Vanished, MayRetain,
                Untouched, Slow, AskPeers, CandidateWins, Rotate, NoRotation, instVars
  <2>2. QED
    BY <2>1 DEF Agrees, Unlocked
<1>5. QED
  BY <1>2, <1>3, <1>4

LEMMA NextAgrees ==
    ASSUME IInv, MutexInv, [Next]_vars, NEW i \in Instances, Agrees(i),
           \A r \in Refreshers : ~(Retain(r) /\ at[r] = i)
    PROVE  Agrees(i)'
<1>1. CASE HealthSteps
  <2>1. CASE SwitchSteps(Health)
    BY <2>1, SwitchAgrees DEF Threads
  <2>2. CASE ~SwitchSteps(Health)
    <3>1. UNCHANGED <<mu, active, xray>>
      BY <1>1, <2>2 DEF HealthSteps, HealthTick, SkipCheck, CheckNothing, CheckPasses,
                        CheckFails, CheckInconclusive, CheckVouched, CheckOK, DialDead,
                        DialOpen, instVars
    <3>2. QED
      BY <3>1 DEF Agrees, Unlocked
  <2>3. QED
    BY <2>1, <2>2
<1>2. ASSUME NEW t \in Recoveries, RecoverySteps(t)
      PROVE  Agrees(i)'
  <2>1. CASE SwitchSteps(t)
    BY <2>1, SwitchAgrees DEF Threads
  <2>2. CASE TryAgain(t)
    BY <2>2 DEF TryAgain, instVars, Agrees, Unlocked
  <2>3. QED
    BY <1>2, <2>1, <2>2 DEF RecoverySteps
<1>3. CASE World
  <2>1. mu' = mu /\ active' = active /\ xray'[i] \in {xray[i], NoKey}
    BY <1>3 DEF World, UpstreamFlips, Crash, StopChild, instVars, IInv, TypeOK
  <2>2. QED
    BY <2>1, AgreementStays
<1>4. CASE UNCHANGED vars
  BY <1>4 DEF vars, instVars, Agrees, Unlocked
<1>5. QED
  BY <1>1, <1>2, <1>3, <1>4, RefreshAgrees DEF Next

\* However many refreshes and recoveries switch an instance while the health loop does,
\* whatever fails in their swaps and whatever pools come meanwhile, nothing but RetainActive
\* makes the index name another upstream than the child on the port has.
THEOREM IndexFollowsChild == Spec => OnlyRetainParts
<1>1. IInv /\ MutexInv /\ [Next]_vars
        => [\A i \in Instances :
               Agrees(i) /\ ~Agrees(i)' => \E r \in Refreshers : Retain(r) /\ at[r] = i]_vars
  BY NextAgrees
<1>2. QED
  BY <1>1, MutexInvariance, PTL DEF Spec, OnlyRetainParts

-------------------------------------------------------------------------------
\* The health loop, until the first refresh.

\* Nobody else is at work,
OthersIdle == \A t \in Threads \ {Health} : pc[t] = "idle"

\* a child is the active config of its instance, or the winner that is being verified,
ChildIsKnown ==
    \A i \in Instances :
        \/ xray[i] \in {NoKey, active[i]}
        \/ pc[Health] = "verify" /\ at[Health] = i /\ xray[i] = win[Health]

ActiveIsUnique ==
    \A i, j \in Instances : active[i] = active[j] => i = j \/ active[i] = NoKey

\* and a switch has its instance's peers among its exclusions as long as it lasts, a
\* winner that is none of them, and the active config it read.
ExclusionsHold ==
    /\ pc[Health] \in {"snapshot", "swap", "launch", "verify"}
          => PeersActive(at[Health]) \subseteq excl[Health]
    /\ pc[Health] \in {"swap", "launch", "verify"} => win[Health] \notin excl[Health]
    /\ pc[Health] \in {"swap", "launch", "verify", "restore"}
          => old[Health] = active[at[Health]]

AloneInv == OthersIdle /\ ChildIsKnown /\ ActiveIsUnique /\ ExclusionsHold

\* The steps of the loop that touch neither child nor index, outside a switch.
LEMMA AloneFrame ==
    ASSUME IInv, AloneInv, HealthSteps, UNCHANGED <<active, xray>>,
           pc[Health] # "verify",
           pc'[Health] \notin {"snapshot", "swap", "launch", "verify", "restore"}
    PROVE  AloneInv'
<1>1. OthersIdle'
  BY HealthFrame DEF AloneInv, OthersIdle
<1>2. QED
  BY <1>1 DEF AloneInv, ChildIsKnown, ActiveIsUnique, ExclusionsHold

\* Where the loop is when it has turned to its next instance.
LEMMA AloneAdvance ==
    ASSUME IInv, AloneInv, HealthSteps, UNCHANGED <<active, xray>>, pc[Health] # "verify",
           Advance(Health)
    PROVE  AloneInv'
BY AdvancePlace, AloneFrame DEF Threads

LEMMA SwitchAlone ==
    ASSUME IInv, MutexInv, AloneInv, SwitchSteps(Health)
    PROVE  AloneInv'
<1> USE FailoverAssumption DEF IInv, TypeOK
<1>1. Health \in Threads /\ at[Health] \in Instances /\ HealthSteps
  BY DEF Threads, HealthSteps
<1>2. OthersIdle'
  BY <1>1, HealthFrame DEF AloneInv, OthersIdle
<1> USE DEF AloneInv
<1>3. CASE MarkDown(Health) \/ SearchFails(Health) \/ WinnerVanished(Health)
  BY <1>1, <1>3, AloneFrame DEF MarkDown, SearchFails, WinnerVanished, Goto, instVars
<1>4. CASE Exclude(Health)
  BY <1>1, <1>2, <1>4 DEF Exclude, Goto, instVars, ChildIsKnown, ActiveIsUnique,
                          ExclusionsHold, PeersActive
<1>5. CASE Search(Health)
  <2>1. UNCHANGED <<active, xray, at, excl>> /\ pc'[Health] = "swap" /\ pc[Health] = "snapshot"
    BY <1>1, <1>5 DEF Search, Goto, instVars
  <2>2. win'[Health] \notin excl[Health] /\ old'[Health] = active[at[Health]]
    BY <1>1, <1>5 DEF Search, Candidates
  <2>3. QED
    BY <1>2, <2>1, <2>2 DEF ChildIsKnown, ActiveIsUnique, ExclusionsHold, PeersActive
<1>6. CASE Swap(Health) \/ LaunchFails(Health) \/ Reject(Health)
  <2>1. /\ \A i \in Instances \ {at[Health]} : xray'[i] = xray[i]
        /\ UNCHANGED <<active, at, excl, win, old>>
        /\ \/ pc[Health] = "swap" /\ pc'[Health] = "launch"
           \/ pc[Health] \in {"launch", "verify"} /\ pc'[Health] = "restore"
    BY <1>1, <1>6 DEF Swap, LaunchFails, Reject, StopChild, Goto, instVars, jobVars
  <2>2. xray'[at[Health]] = NoKey
    BY <1>1, <1>6 DEF Swap, LaunchFails, Reject, StopChild, instVars, MutexInv, SwapsHold
  <2>3. ChildIsKnown'
    BY <1>1, <2>1, <2>2 DEF ChildIsKnown
  <2>4. QED
    BY <1>2, <2>1, <2>3 DEF ActiveIsUnique, ExclusionsHold, PeersActive
<1>7. CASE Launch(Health)
  <2>1. /\ xray' = [xray EXCEPT ![at[Health]] = win[Health]]
        /\ UNCHANGED <<active, at, excl, win, old>>
        /\ pc[Health] = "launch" /\ pc'[Health] = "verify"
    BY <1>1, <1>7 DEF Launch, Goto, jobVars
  <2>2. QED
    BY <1>1, <1>2, <2>1 DEF ChildIsKnown, ActiveIsUnique, ExclusionsHold, PeersActive
<1>8. CASE Adopt(Health)
  <2>1. /\ active' = [active EXCEPT ![at[Health]] = win[Health]]
        /\ xray' = xray /\ xray[at[Health]] \in {NoKey, win[Health]}
        /\ pc[Health] = "verify" /\ pc'[Health] = "switched"
        /\ win[Health] \in Keys /\ win[Health] \notin PeersActive(at[Health])
    BY <1>1, <1>8 DEF Adopt, Activate, Goto, ExclusionsHold, MutexInv, SwapsHold
  <2>2. \A j \in Instances \ {at[Health]} : active[j] # win[Health]
    BY <1>1, <2>1 DEF PeersActive
  <2>3. ChildIsKnown'
    BY <1>1, <2>1 DEF ChildIsKnown
  <2>4. ActiveIsUnique'
    BY <1>1, <2>1, <2>2 DEF ActiveIsUnique
  <2>5. QED
    BY <1>2, <2>1, <2>3, <2>4 DEF ExclusionsHold
<1>9. CASE Restore(Health)
  <2>1. /\ active' = active /\ xray' = [xray EXCEPT ![at[Health]] = active[at[Health]]]
        /\ pc[Health] = "restore" /\ pc'[Health] = "failed"
    BY <1>1, <1>9 DEF Restore, Activate, Goto, ExclusionsHold
  <2>2. QED
    BY <1>1, <1>2, <2>1 DEF ChildIsKnown, ActiveIsUnique, ExclusionsHold
<1>10. CASE NoRestore(Health) \/ RestoreFails(Health)
  BY <1>1, <1>10, AloneFrame DEF NoRestore, RestoreFails, Goto
<1>11. CASE Switched(Health) \/ Failed(Health)
  BY <1>1, <1>11, AloneAdvance DEF Switched, Failed
<1>12. QED
  BY <1>3, <1>4, <1>5, <1>6, <1>7, <1>8, <1>9, <1>10, <1>11 DEF SwitchSteps

\* A refresh is the only way for anybody else to get to work, and is counted.
LEMMA NextAlone ==
    ASSUME IInv, MutexInv, AloneInv, [Next]_vars, refreshes' = refreshes
    PROVE  AloneInv'
<1> USE FailoverAssumption
<1>1. Health \in Threads /\ pc \in [Threads -> Places] /\ refreshes \in Nat
  BY DEF Threads, IInv, TypeOK
<1>2. CASE HealthSteps
  <2>1. CASE SkipCheck \/ CheckOK \/ DialOpen
    BY <1>1, <1>2, <2>1, AloneAdvance DEF SkipCheck, CheckOK, DialOpen, instVars
  <2>2. CASE HealthTick \/ CheckNothing \/ DialDead
    BY <1>1, <1>2, <2>2, AloneFrame DEF HealthTick, CheckNothing, DialDead, Goto, instVars
  <2>3. CASE CheckPasses \/ CheckFails \/ CheckInconclusive \/ CheckVouched
    BY <1>1, <1>2, <2>3, AloneFrame
       DEF CheckPasses, CheckFails, CheckInconclusive, CheckVouched, Checks, Goto
  <2>4. QED
    BY <1>2, <2>1, <2>2, <2>3, SwitchAlone DEF HealthSteps
<1>3. ASSUME NEW t \in Threads \ {Health}, SwitchSteps(t) \/ TryAgain(t)
      PROVE  FALSE
  <2>1. pc[t] = "idle"
    BY DEF AloneInv, OthersIdle
  <2>2. QED
    BY <1>3, <2>1 DEF TryAgain, SwitchSteps, MarkDown, Exclude, Search, SearchFails,
                      WinnerVanished, Swap, Launch, LaunchFails, Adopt, Reject, Restore,
                      NoRestore, RestoreFails, Switched, Failed
<1>4. ASSUME NEW r \in Refreshers, RefreshSteps(r)
      PROVE  FALSE
  <2>1. r \in Threads \ {Health}
    BY DEF Threads
  <2>2. pc[r] = "idle"
    BY <2>1 DEF AloneInv, OthersIdle
  <2>3. ~(\E P \in Pools : Fetch(r, P))
    BY <1>1 DEF Fetch
  <2>4. QED
    BY <1>3, <1>4, <2>1, <2>2, <2>3
       DEF RefreshSteps, Prev, Update, Reconciles, Spawn, RefreshOver, Vanished, MayRetain,
           Retain, Untouched, Slow, AskPeers, CandidateWins, NoRotation, Rotate
<1>5. ASSUME NEW t \in Recoveries, RecoverySteps(t)
      PROVE  FALSE
  BY <1>3, <1>5 DEF RecoverySteps, Threads
<1>6. CASE World
  <2>1. /\ UNCHANGED <<active, pc, at, win, excl, old>>
        /\ \A i \in Instances : xray'[i] \in {xray[i], NoKey}
    BY <1>6 DEF World, UpstreamFlips, Crash, StopChild, instVars, jobVars, IInv, TypeOK
  <2>2. QED
    BY <2>1 DEF AloneInv, OthersIdle, ChildIsKnown, ActiveIsUnique, ExclusionsHold, PeersActive
<1>7. CASE UNCHANGED vars
  BY <1>7 DEF vars, instVars, jobVars, AloneInv, OthersIdle, ChildIsKnown, ActiveIsUnique,
              ExclusionsHold, PeersActive
<1>8. QED
  BY <1>2, <1>4, <1>5, <1>6, <1>7 DEF Next

LEMMA RefreshesGrow ==
    ASSUME IInv, [Next]_vars
    PROVE  refreshes' = refreshes \/ refreshes' = refreshes + 1
<1>1. ASSUME NEW t \in Threads, SwitchSteps(t)
      PROVE  refreshes' = refreshes
  BY <1>1 DEF SwitchSteps, MarkDown, Exclude, Search, SearchFails, WinnerVanished, Swap, Launch,
              LaunchFails, Adopt, Reject, Restore, NoRestore, RestoreFails, Switched, Failed,
              worldVars
<1>2. CASE HealthSteps
  BY <1>1, <1>2 DEF HealthSteps, HealthTick, SkipCheck, CheckNothing, CheckPasses, CheckFails,
                    CheckInconclusive, CheckVouched, CheckOK, DialDead, DialOpen, worldVars,
                    Threads
<1>3. ASSUME NEW r \in Refreshers, RefreshSteps(r)
      PROVE  refreshes' = refreshes \/ refreshes' = refreshes + 1
  BY <1>1, <1>3 DEF RefreshSteps, Fetch, Prev, Update, Reconciles, Spawn, RefreshOver, Vanished,
                    MayRetain, Retain, Untouched, Slow, AskPeers, CandidateWins, NoRotation,
                    Rotate, worldVars, Threads
<1>4. ASSUME NEW t \in Recoveries, RecoverySteps(t)
      PROVE  refreshes' = refreshes
  BY <1>1, <1>4 DEF RecoverySteps, TryAgain, worldVars, Threads
<1>5. CASE World \/ UNCHANGED vars
  BY <1>5 DEF World, UpstreamFlips, Crash, vars, worldVars
<1>6. QED
  BY <1>2, <1>3, <1>4, <1>5 DEF Next

EarlyInv == refreshes = 0 => AloneInv

LEMMA EarlyInvariance == Spec => [](IInv /\ MutexInv /\ EarlyInv)
<1>1. Init => EarlyInv
  BY FailoverAssumption
     DEF Init, EarlyInv, AloneInv, OthersIdle, ChildIsKnown, ActiveIsUnique, ExclusionsHold,
         Threads
<1>2. IInv /\ MutexInv /\ EarlyInv /\ [Next]_vars => EarlyInv'
  <2> SUFFICES ASSUME IInv, MutexInv, EarlyInv, [Next]_vars, refreshes' = 0
               PROVE  AloneInv'
    BY DEF EarlyInv
  <2>1. refreshes = 0
    <3>1. refreshes \in Nat
      BY FailoverAssumption DEF IInv, TypeOK
    <3>2. QED
      BY <3>1, RefreshesGrow
  <2>2. QED
    BY <2>1, NextAlone DEF EarlyInv
<1>3. QED
  BY <1>1, <1>2, MutexInvariance, PTL DEF Spec

\* Ports fall silent between two upstreams always, and until the first refresh failover
\* implements all of Serving: what health loop and watchdog start, verified or not, is on
\* no other port, whatever dies, crashes or fails to start. Nothing is assumed about
\* refreshes: from the first one on, only the first half is claimed.
THEOREM ServesAsPromised == Spec => ImplementsServing
<1>1. Init => Ports!Unique
  BY DEF Init, Ports!Unique
<1>2. IInv /\ MutexInv /\ EarlyInv /\ EarlyInv' /\ [Next]_vars
        => [refreshes' = 0 => Ports!Next]_xray
  <2> SUFFICES ASSUME IInv, MutexInv, AloneInv', [Next]_vars,
                      NEW i \in Instances, NEW k \in Keys, Ports!Take(i, k)
               PROVE  Ports!TakeFree(i, k)
    BY StepOfPorts DEF EarlyInv, Ports!Next
  <2>1. ChildIsKnown' /\ ActiveIsUnique' /\ ExclusionsHold'
    BY DEF AloneInv
  <2>2. /\ xray[i] = NoKey /\ xray'[i] = k /\ k # NoKey
        /\ \A j \in Instances \ {i} : xray'[j] = xray[j]
    BY FailoverAssumption DEF Ports!Take, IInv, TypeOK
  <2>3. ASSUME NEW j \in Instances, xray[j] = k
        PROVE  FALSE
    <3>1. j # i /\ xray'[j] = k
      BY <2>2, <2>3
    <3>2. CASE active'[i] = k /\ active'[j] = k
      BY <2>1, <2>2, <3>1, <3>2 DEF ActiveIsUnique
    <3>3. ASSUME NEW a \in Instances, NEW b \in Instances, a # b,
                 pc'[Health] = "verify", at'[Health] = a, win'[Health] = k, active'[b] = k
          PROVE  FALSE
      BY <2>1, <2>2, <3>3 DEF ExclusionsHold, PeersActive
    <3>4. QED
      BY <2>1, <2>2, <3>1, <3>2, <3>3 DEF ChildIsKnown
  <2>4. QED
    BY <2>3 DEF Ports!TakeFree
<1>3. QED
  BY <1>1, <1>2, EarlyInvariance, PortsFallSilent, PTL DEF Spec, ImplementsServing
===============================================================================
