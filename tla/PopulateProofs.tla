---------------------------- MODULE PopulateProofs ----------------------------
(***************************************************************************)
(* Theorems about Populate, for any number of instances, upstreams,        *)
(* workers and rounds.                                                     *)
(*                                                                         *)
(* OneHolder is not inductive: it rests on why a worker that wins tryClaim *)
(* cannot take a key somebody else holds. Either the other holder got the  *)
(* key in this round, and then its claim is still in the ledger, or in an  *)
(* earlier one, and then the key was in used when this worker copied it.   *)
(* Known states that dichotomy, and IInv collects what it needs.           *)
(***************************************************************************)
EXTENDS Populate, TLAPS

\* A worker past the copy of used and not yet back at the start.
Scanning(i) == pc[i] \in {"scan", "claim", "launch", "bind", "probe", "adopted"}

\* A worker that has a key reserved.
Probing(i) == pc[i] \in {"launch", "bind", "probe"}

\* What a worker has reserved is claimed.
HeldIsClaimed ==
    \A i \in Instances :
        /\ Probing(i) => key[i] \in claimed
        /\ pc[i] = "adopted" => active[i] \in claimed

\* A worker never looks at a key of its copy of used.
CandidatesAreFree ==
    \A i \in Instances :
        /\ Scanning(i) => todo[i] \cap excl[i] = {}
        /\ Probing(i) \/ pc[i] = "claim" =>
              key[i] \in configs[i] \ excl[i]
        /\ pc[i] = "adopted" => active[i] \in configs[i] \ excl[i]

\* A worker's candidates come from its configs.
CandidatesAreConfigs ==
    \A i \in Instances : Scanning(i) => todo[i] \subseteq configs[i]

\* Every upstream that is served is known to every scan, by the ledger of this
\* round or by its copy of used.
Known ==
    \A i, j \in Instances :
        status[i] = "ok" /\ Scanning(j) =>
            active[i] \in claimed \/ active[i] \in excl[j]

\* used is the inverse of active on the instances that are ok.
UsedIsOk ==
    /\ \A k \in Keys : used[k] # NoInst => status[used[k]] = "ok" /\ active[used[k]] = k
    /\ \A i \in Instances : status[i] = "ok" => active[i] \in Keys /\ used[active[i]] = i

\* Workers only run in a round, and only for instances that are missing.
WorkersAreMissing ==
    \A i \in Instances :
        pc[i] # "off" => phase = "probing" /\ status[i] # "ok"

\* The attempt loop is entered only while attempts are left.
AttemptsLeft == \A i \in Instances : pc[i] # "off" => attempt[i] < MaxAttempts

IInv ==
    /\ TypeOK
    /\ AttemptsLeft
    /\ OneHolder
    /\ HeldIsClaimed
    /\ CandidatesAreFree
    /\ CandidatesAreConfigs
    /\ Known
    /\ UsedIsOk
    /\ WorkersAreMissing
-------------------------------------------------------------------------------
LEMMA InitTypeOK == Init => TypeOK
BY PopulateAssumption DEF Init, TypeOK, Places

LEMMA CoordinatorTypeOK ==
    ASSUME TypeOK, Coordinator
    PROVE  TypeOK'
<1> USE DEF TypeOK, workerVars, scanVars, ledgerVars
<1>1. ASSUME NEW pool \in SUBSET Keys, FetchPool(pool)
      PROVE  TypeOK'
  <2>1. active' \in [Instances -> Keys \cup {NoKey}]
    BY <1>1 DEF FetchPool, Reanchor
  <2>2. pc' \in [Instances -> Places]
    BY <1>1 DEF FetchPool, Places
  <2>3. QED
    BY <1>1, <2>1, <2>2, PopulateAssumption DEF FetchPool
<1>2. CASE FetchFailed
  BY <1>2, PopulateAssumption DEF FetchFailed
<1>3. CASE GiveUp
  BY <1>3 DEF GiveUp, Return
<1>4. CASE ServeEarly
  BY <1>4 DEF ServeEarly, Return
<1>5. CASE NextRound
  BY <1>5 DEF NextRound
<1>6. QED
  BY <1>1, <1>2, <1>3, <1>4, <1>5 DEF Coordinator

LEMMA StepTypeOK ==
    ASSUME IInv, NEW i \in Instances, Step(i)
    PROVE  TypeOK'
<1> USE DEF IInv, TypeOK, Probing, CandidatesAreFree, Places, Goto, coordVars, ledgerVars, scanVars
<1>1. CASE Acquire(i)
  BY <1>1 DEF Acquire
<1>2. CASE Attempt(i)
  BY <1>2 DEF Attempt, Served
<1>3. ASSUME NEW k \in Keys, Visit(i, k)
      PROVE  TypeOK'
  <2>1. CASE respectBad[i] /\ k \in bad
    BY <1>3, <2>1 DEF Visit
  <2>2. CASE ~(respectBad[i] /\ k \in bad)
    BY <1>3, <2>2 DEF Visit
  <2>3. QED
    BY <2>1, <2>2
<1>4. CASE TryClaim(i)
  BY <1>4, PopulateAssumption DEF TryClaim
<1>5. CASE StartFailed(i)
  BY <1>5 DEF StartFailed, GiveBack
<1>6. CASE Started(i)
  BY <1>6 DEF Started
<1>7. CASE Bound(i)
  BY <1>7 DEF Bound
<1>8. CASE Exited(i)
  BY <1>8 DEF Exited, GiveBack
<1>9. CASE NeverBound(i)
  BY <1>9 DEF NeverBound, GiveBack
<1>10. CASE Adopt(i)
  BY <1>10 DEF Adopt
<1>11. CASE Unproven(i)
  BY <1>11 DEF Unproven, GiveBack
<1>12. CASE Reject(i)
  BY <1>12 DEF Reject, GiveBack
<1>13. CASE Retry(i)
  BY <1>13 DEF Retry
<1>14. CASE ScanFailed(i)
  BY <1>14 DEF ScanFailed, Forget
<1>15. CASE Register(i)
  BY <1>15, PopulateAssumption DEF Register, Forget, AttemptsLeft
<1>16. QED
  BY <1>1, <1>2, <1>3, <1>4, <1>5, <1>6, <1>7, <1>8, <1>9, <1>10, <1>11, <1>12,
     <1>13, <1>14, <1>15 DEF Step

\* The part of IInv that is about claims and copies of used.
Ledger ==
    /\ AttemptsLeft
    /\ OneHolder
    /\ HeldIsClaimed
    /\ CandidatesAreFree
    /\ CandidatesAreConfigs
    /\ Known
    /\ UsedIsOk
    /\ WorkersAreMissing

\* The "taken by another instance" branch of Start is never taken: a scan that
\* adopts a key finds it free in used.
LEMMA NeverTaken ==
    ASSUME IInv, NEW i \in Instances, pc[i] = "adopted"
    PROVE  /\ active[i] \in Keys
           /\ used[active[i]] = NoInst
           /\ \A j \in Instances : status[j] = "ok" => active[j] # active[i]
<1> USE DEF IInv, TypeOK
<1>1. active[i] \in Keys
  BY DEF CandidatesAreFree
<1>2. \A j \in Instances : status[j] = "ok" => active[j] # active[i]
  BY <1>1 DEF OneHolder, Holds, WorkersAreMissing
<1>3. used[active[i]] = NoInst
  BY <1>1, <1>2 DEF UsedIsOk
<1>4. QED
  BY <1>1, <1>2, <1>3

LEMMA StepLedger ==
    ASSUME IInv, NEW i \in Instances, Step(i)
    PROVE  Ledger'
<1> USE DEF IInv, TypeOK, Probing, Scanning, Holds, Places, Goto,
            coordVars, ledgerVars, scanVars
<1> USE DEF Ledger, AttemptsLeft, OneHolder, HeldIsClaimed, CandidatesAreFree,
            CandidatesAreConfigs, Known, UsedIsOk, WorkersAreMissing
<1>1. CASE Acquire(i)
  BY <1>1 DEF Acquire
<1>2. CASE Attempt(i)
  <2>1. \A j \in Instances : status[j] = "ok" => active[j] \in Served
    BY PopulateAssumption DEF Served
  <2>2. Known'
    BY <1>2, <2>1 DEF Attempt
  <2>3. (CandidatesAreFree /\ CandidatesAreConfigs)'
    BY <1>2 DEF Attempt
  <2>4. (AttemptsLeft /\ OneHolder /\ HeldIsClaimed /\ UsedIsOk /\ WorkersAreMissing)'
    BY <1>2 DEF Attempt
  <2>5. QED
    BY <2>2, <2>3, <2>4
<1>3. ASSUME NEW k \in Keys, Visit(i, k)
      PROVE  Ledger'
  BY <1>3 DEF Visit
<1>4. CASE TryClaim(i)
  <2>1. CASE key[i] \in claimed
    <3>1. /\ pc' = [pc EXCEPT ![i] = "scan"]
          /\ key' = [key EXCEPT ![i] = NoKey]
          /\ UNCHANGED <<claimed, phase, configs, status, active, used, excl, todo, attempt>>
      BY <1>4, <2>1 DEF TryClaim
    <3>2. pc[i] = "claim"
      BY <1>4 DEF TryClaim
    <3>3. OneHolder' /\ UsedIsOk' /\ Known'
      BY <3>1, <3>2
    <3>4. (AttemptsLeft /\ HeldIsClaimed /\ CandidatesAreFree /\ CandidatesAreConfigs
             /\ WorkersAreMissing)'
      BY <3>1, <3>2
    <3>5. QED
      BY <3>3, <3>4
  <2>2. CASE key[i] \notin claimed
    <3>1. /\ pc' = [pc EXCEPT ![i] = "launch"]
          /\ claimed' = claimed \cup {key[i]}
          /\ UNCHANGED <<key, phase, configs, status, active, used, excl, todo, attempt>>
      BY <1>4, <2>2 DEF TryClaim
    <3>2. pc[i] = "claim" /\ key[i] \in configs[i] \ excl[i]
      BY <1>4 DEF TryClaim
    <3>3. \A j \in Instances : ~Holds(j, key[i])
      BY <2>2, <3>2
    <3>4. OneHolder'
      BY <3>1, <3>2, <3>3
    <3>5. UsedIsOk' /\ Known'
      BY <3>1, <3>2
    <3>6. (AttemptsLeft /\ HeldIsClaimed /\ CandidatesAreFree /\ CandidatesAreConfigs
             /\ WorkersAreMissing)'
      BY <3>1, <3>2
    <3>7. QED
      BY <3>4, <3>5, <3>6
  <2>3. QED
    BY <2>1, <2>2
<1>5. CASE StartFailed(i)
  BY <1>5 DEF StartFailed, GiveBack
<1>6. CASE Started(i)
  BY <1>6 DEF Started
<1>7. CASE Bound(i)
  BY <1>7 DEF Bound
<1>8. CASE Exited(i)
  BY <1>8 DEF Exited, GiveBack
<1>9. CASE NeverBound(i)
  BY <1>9 DEF NeverBound, GiveBack
<1>10. CASE Adopt(i)
  BY <1>10 DEF Adopt
<1>11. CASE Unproven(i)
  BY <1>11 DEF Unproven, GiveBack
<1>12. CASE Reject(i)
  BY <1>12 DEF Reject, GiveBack
<1>13. CASE Retry(i)
  BY <1>13 DEF Retry
<1>14. CASE ScanFailed(i)
  BY <1>14 DEF ScanFailed, Forget
<1>15. CASE Register(i)
  <2>1. /\ pc' = [pc EXCEPT ![i] = "off"]
        /\ used' = [used EXCEPT ![active[i]] = i]
        /\ status' = [status EXCEPT ![i] = "ok"]
        /\ UNCHANGED <<attempt, active, claimed, configs, key, phase>>
    BY <1>15, NeverTaken DEF Register
  <2>2. /\ todo' = [todo EXCEPT ![i] = {}]
        /\ excl' = [excl EXCEPT ![i] = {}]
    BY <1>15 DEF Register, Forget
  <2>3. pc[i] = "adopted"
    BY <1>15 DEF Register
  <2>4. UsedIsOk'
    BY <2>1, <2>3, NeverTaken
  <2>5. OneHolder'
    BY <2>1, <2>3
  <2>6. Known'
    BY <2>1, <2>2, <2>3
  <2>7. (AttemptsLeft /\ HeldIsClaimed /\ CandidatesAreFree /\ CandidatesAreConfigs
           /\ WorkersAreMissing)'
    BY <2>1, <2>2, <2>3
  <2>8. QED
    BY <2>4, <2>5, <2>6, <2>7
<1>16. QED
  BY <1>1, <1>2, <1>3, <1>4, <1>5, <1>6, <1>7, <1>8, <1>9, <1>10, <1>11, <1>12,
     <1>13, <1>14, <1>15 DEF Step

LEMMA CoordinatorLedger ==
    ASSUME IInv, Coordinator
    PROVE  Ledger'
<1> USE DEF IInv, TypeOK, Probing, Scanning, Holds, workerVars, ledgerVars, scanVars
<1> USE DEF Ledger, AttemptsLeft, OneHolder, HeldIsClaimed, CandidatesAreFree,
            CandidatesAreConfigs, Known, UsedIsOk, WorkersAreMissing
<1>1. ASSUME NEW pool \in SUBSET Keys, FetchPool(pool)
      PROVE  Ledger'
  <2>1. \A i \in Instances : status[i] = "ok" => active'[i] = active[i]
    BY <1>1 DEF FetchPool, Missing
  <2>2. \A i \in Instances : pc'[i] \in {"off", "queued"} /\ attempt'[i] = 0
    BY <1>1 DEF FetchPool
  <2>3. \A i \in Instances : pc'[i] = "queued" => status[i] # "ok"
    BY <1>1 DEF FetchPool, Missing
  <2>4. QED
    BY <1>1, <2>1, <2>2, <2>3, PopulateAssumption DEF FetchPool
<1>2. CASE FetchFailed
  BY <1>2 DEF FetchFailed
<1>3. CASE GiveUp
  BY <1>3 DEF GiveUp, Return, Missing
<1>4. CASE ServeEarly
  BY <1>4 DEF ServeEarly, RoundOver, Return, Missing
<1>5. CASE NextRound
  BY <1>5 DEF NextRound, RoundOver
<1>6. QED
  BY <1>1, <1>2, <1>3, <1>4, <1>5 DEF Coordinator

LEMMA StutterIInv ==
    ASSUME IInv, UNCHANGED vars
    PROVE  IInv'
BY DEF IInv, TypeOK, Probing, Scanning, Holds, AttemptsLeft, OneHolder, HeldIsClaimed,
       CandidatesAreFree, CandidatesAreConfigs, Known, UsedIsOk, WorkersAreMissing,
       vars, coordVars, ledgerVars, scanVars, workerVars

\* A deadline that passes changes nothing else, a child that dies nothing but its port.
LEMMA ExpireIInv ==
    ASSUME IInv, NEW i \in Instances, Expire(i) \/ Crash(i)
    PROVE  IInv'
<1> USE DEF IInv, TypeOK, Probing, Scanning, Holds, AttemptsLeft, OneHolder, HeldIsClaimed,
            CandidatesAreFree, CandidatesAreConfigs, Known, UsedIsOk, WorkersAreMissing
<1> USE DEF coordVars, ledgerVars, scanVars, workerVars
<1>1. CASE Expire(i)
  BY <1>1 DEF Expire
<1>2. CASE Crash(i)
  BY <1>2 DEF Crash
<1>3. QED
  BY <1>1, <1>2

LEMMA InitIInv == Init => IInv
BY InitTypeOK, PopulateAssumption
   DEF Init, IInv, TypeOK, Probing, Scanning, Holds, AttemptsLeft, OneHolder, HeldIsClaimed,
       CandidatesAreFree, CandidatesAreConfigs, Known, UsedIsOk, WorkersAreMissing

LEMMA NextIInv == IInv /\ [Next]_vars => IInv'
<1> SUFFICES ASSUME IInv, [Next]_vars
             PROVE  IInv'
  OBVIOUS
<1>1. CASE Coordinator
  BY <1>1, CoordinatorTypeOK, CoordinatorLedger DEF IInv, Ledger
<1>2. ASSUME NEW i \in Instances, Step(i)
      PROVE  IInv'
  BY <1>2, StepTypeOK, StepLedger DEF IInv, Ledger
<1>3. ASSUME NEW i \in Instances, Expire(i) \/ Crash(i)
      PROVE  IInv'
  BY <1>3, ExpireIInv
<1>4. CASE UNCHANGED vars
  BY <1>4, StutterIInv
<1>5. QED
  BY <1>1, <1>2, <1>3, <1>4 DEF Next, Returned

LEMMA Invariance == Spec => []IInv
BY InitIInv, NextIInv, PTL DEF Spec

\* The state of startup is well typed.
THEOREM TypeCorrect == Spec => []TypeOK
<1>1. IInv => TypeOK
  BY DEF IInv
<1>2. QED
  BY <1>1, Invariance, PTL

\* No upstream is held by two instances, in one round or across rounds: what
\* tryConfigs, tryClaim and Start promise for the serving ports.
THEOREM Uniqueness == Spec => []OneHolder
<1>1. IInv => OneHolder
  BY DEF IInv
<1>2. QED
  BY <1>1, Invariance, PTL

-------------------------------------------------------------------------------
\* The child on a serving port, through a scan.
Port ==
    \A i \in Instances :
        /\ status[i] = "ok" => active[i] \in configs[i] /\ xray[i] \in {active[i], NoKey}
        /\ pc[i] \in {"bind", "probe"} => xray[i] = key[i]
        /\ pc[i] = "adopted" => xray[i] \in {active[i], NoKey}
        /\ status[i] # "ok" /\ pc[i] # "adopted" => active[i] = NoKey
        /\ status[i] # "ok" /\ pc[i] \notin {"bind", "probe", "adopted"} => xray[i] = NoKey

LEMMA NextPort == IInv /\ Port /\ [Next]_vars => Port'
<1> SUFFICES ASSUME IInv, Port, [Next]_vars
             PROVE  Port'
  OBVIOUS
<1> USE DEF Port, IInv, TypeOK, WorkersAreMissing, CandidatesAreFree, Probing, Places, Goto,
            coordVars, ledgerVars, scanVars, workerVars
<1>1. ASSUME NEW pool \in SUBSET Keys, FetchPool(pool)
      PROVE  Port'
  BY <1>1, PopulateAssumption DEF FetchPool, Reanchor, Missing
<1>2. CASE FetchFailed \/ NextRound
  BY <1>2 DEF FetchFailed, NextRound
<1>3. CASE GiveUp \/ ServeEarly
  BY <1>3 DEF GiveUp, ServeEarly, Return, Missing
<1>4. ASSUME NEW i \in Instances, Step(i)
      PROVE  Port'
  <2>1. CASE Acquire(i) \/ Attempt(i) \/ Retry(i) \/ Bound(i) \/ ScanFailed(i)
    BY <1>4, <2>1 DEF Acquire, Attempt, Retry, Bound, ScanFailed, PassOver
  <2>2. ASSUME NEW k \in Keys, Visit(i, k)
        PROVE  Port'
    BY <2>2 DEF Visit
  <2>3. CASE TryClaim(i)
    BY <2>3 DEF TryClaim
  <2>4. CASE Started(i)
    BY <2>4 DEF Started
  <2>5. CASE StartFailed(i) \/ Exited(i) \/ NeverBound(i) \/ Unproven(i) \/ Reject(i)
    BY <2>5 DEF StartFailed, Exited, NeverBound, Unproven, Reject, GiveBack
  <2>6. CASE Adopt(i)
    BY <2>6 DEF Adopt
  <2>7. CASE Register(i)
    BY <2>7, NeverTaken DEF Register
  <2>8. QED
    BY <1>4, <2>1, <2>2, <2>3, <2>4, <2>5, <2>6, <2>7 DEF Step
<1>5. ASSUME NEW i \in Instances, Expire(i) \/ Crash(i)
      PROVE  Port'
  BY <1>5 DEF Expire, Crash
<1>6. CASE UNCHANGED vars
  BY <1>6 DEF vars
<1>7. QED
  BY <1>1, <1>2, <1>3, <1>4, <1>5, <1>6 DEF Next, Coordinator, Returned

\* What the API reports as ok is what runs on the port, and a failed scan leaves
\* nothing behind.
THEOREM StatusIsTrue == Spec => []StatusIsServed
<1>1. Init => Port
  BY DEF Init, Port
<1>2. IInv /\ Port => StatusIsServed
  BY DEF IInv, Port, StatusIsServed, UsedIsOk
<1>3. QED
  BY <1>1, <1>2, NextPort, Invariance, PTL DEF Spec

-------------------------------------------------------------------------------
\* A claim never outlives its holder, on any path out of a probe.
THEOREM ClaimsAreHeld == Spec => []NoClaimIsLost
<1>1. Init => NoClaimIsLost
  BY DEF Init, NoClaimIsLost
<1>2. IInv /\ NoClaimIsLost /\ [Next]_vars => NoClaimIsLost'
  <2> SUFFICES ASSUME IInv, NoClaimIsLost, [Next]_vars
               PROVE  NoClaimIsLost'
    OBVIOUS
  <2> USE DEF NoClaimIsLost, Holds, IInv, TypeOK, WorkersAreMissing, Places, Goto,
              coordVars, ledgerVars, scanVars, workerVars
  <2>1. ASSUME NEW pool \in SUBSET Keys, FetchPool(pool)
        PROVE  NoClaimIsLost'
    BY <2>1 DEF FetchPool
  <2>2. CASE FetchFailed \/ NextRound
    BY <2>2 DEF FetchFailed, NextRound
  <2>3. CASE GiveUp \/ ServeEarly
    BY <2>3 DEF GiveUp, ServeEarly, Return, Missing
  <2>4. ASSUME NEW i \in Instances, Step(i)
        PROVE  NoClaimIsLost'
    <3>1. CASE Acquire(i) \/ Attempt(i) \/ Retry(i) \/ ScanFailed(i) \/ Bound(i) \/ Started(i)
      BY <3>1 DEF Acquire, Attempt, Retry, ScanFailed, PassOver, Bound, Started
    <3>2. ASSUME NEW k \in Keys, Visit(i, k)
          PROVE  NoClaimIsLost'
      BY <3>2 DEF Visit
    <3>3. CASE TryClaim(i)
      BY <3>3 DEF TryClaim
    <3>4. CASE StartFailed(i) \/ Exited(i) \/ NeverBound(i) \/ Unproven(i) \/ Reject(i)
      BY <3>4 DEF StartFailed, Exited, NeverBound, Unproven, Reject, GiveBack
    <3>5. CASE Adopt(i)
      BY <3>5 DEF Adopt
    <3>6. CASE Register(i)
      BY <3>6, NeverTaken DEF Register
    <3>7. QED
      BY <2>4, <3>1, <3>2, <3>3, <3>4, <3>5, <3>6 DEF Step
  <2>5. ASSUME NEW i \in Instances, Expire(i) \/ Crash(i)
        PROVE  NoClaimIsLost'
    BY <2>5 DEF Expire, Crash
  <2>6. CASE UNCHANGED vars
    BY <2>6 DEF vars
  <2>7. QED
    BY <2>1, <2>2, <2>3, <2>4, <2>5, <2>6 DEF Next, Coordinator, Returned
<1>3. QED
  BY <1>1, <1>2, Invariance, PTL DEF Spec

-------------------------------------------------------------------------------
\* Start returns ready or with its rounds spent, and leaves no instance starting.
ReturnedIsReady ==
    phase = "served" =>
        /\ ServeReady \/ round = MaxRounds
        /\ \A i \in Instances : status[i] \in {"ok", "down"}

LEMMA ReadyOnReturn == Spec => []ReturnedIsReady
<1>1. Init => ReturnedIsReady
  BY DEF Init, ReturnedIsReady
<1>2. IInv /\ ReturnedIsReady /\ [Next]_vars => ReturnedIsReady'
  <2> SUFFICES ASSUME IInv, ReturnedIsReady, [Next]_vars, phase' = "served"
               PROVE  ReturnedIsReady'
    BY DEF ReturnedIsReady
  <2> USE DEF ReturnedIsReady, ServeReady, Alive, IInv, TypeOK, coordVars
  <2>1. CASE GiveUp \/ ServeEarly
    <3>1. /\ round = MaxRounds \/ ServeReady
          /\ round' = round
          /\ \A i \in Instances : status'[i] \in {"ok", "down"}
          /\ Alive' = Alive
      BY <2>1 DEF GiveUp, ServeEarly, Return, Missing
    <3>2. QED
      BY <3>1
  <2>2. CASE ~(GiveUp \/ ServeEarly)
    <3>1. phase = "served" /\ UNCHANGED <<round, status>>
      BY <2>2 DEF Next, Coordinator, Returned, Expire, Crash, Step, FetchPool, FetchFailed, NextRound,
           Acquire, Attempt, Visit, TryClaim, StartFailed, Started, Bound, Exited, NeverBound,
           Adopt, Unproven, Reject, GiveBack, Retry, ScanFailed, Register, WorkersAreMissing,
           Places, vars
    <3>2. QED
      BY <3>1
  <2>3. QED
    BY <2>1, <2>2
<1>3. QED
  BY <1>1, <1>2, Invariance, PTL DEF Spec

-------------------------------------------------------------------------------
\* The ledger of a round never calls an upstream bad that is not: only a start that
\* fails, a child that exits and a probe that rejects enter a key in it
\* (tryConfigs, selector.go).
THEOREM LedgerIsFair == Spec => []HealthyIsNotPoisoned
<1>1. Init => HealthyIsNotPoisoned
  BY DEF Init, HealthyIsNotPoisoned
<1>2. HealthyIsNotPoisoned /\ [Next]_vars => HealthyIsNotPoisoned'
  <2> SUFFICES ASSUME HealthyIsNotPoisoned, [Next]_vars
               PROVE  HealthyIsNotPoisoned'
    OBVIOUS
  <2> USE DEF HealthyIsNotPoisoned, ledgerVars
  <2>1. CASE Coordinator
    BY <2>1 DEF Coordinator, FetchPool, FetchFailed, GiveUp, ServeEarly, NextRound, Return
  <2>2. ASSUME NEW i \in Instances, StartFailed(i) \/ Exited(i) \/ Reject(i)
        PROVE  HealthyIsNotPoisoned'
    BY <2>2 DEF StartFailed, Exited, Reject, GiveBack
  <2>3. ASSUME NEW i \in Instances, NeverBound(i) \/ Unproven(i)
        PROVE  HealthyIsNotPoisoned'
    BY <2>3 DEF NeverBound, Unproven, GiveBack
  <2>4. ASSUME NEW i \in Instances, Step(i)
        PROVE  HealthyIsNotPoisoned'
    BY <2>2, <2>3, <2>4 DEF Step, Acquire, Attempt, Visit, TryClaim, Started, Bound, Adopt,
       Retry, ScanFailed, Register
  <2>5. CASE (\E i \in Instances : Expire(i) \/ Crash(i)) \/ UNCHANGED vars
    BY <2>5 DEF Expire, Crash, vars
  <2>6. QED
    BY <2>1, <2>4, <2>5 DEF Next, Returned
<1>3. QED
  BY <1>1, <1>2, PTL DEF Spec

-------------------------------------------------------------------------------
\* Startup implements Assignment: the step that enters a key in used assigns it,
\* the one that returns ends the assignment, and every other one stutters.
LEMMA StepRefines ==
    ASSUME IInv, [Next]_vars
    PROVE  [Abstract!Next]_(Abstract!vars)
<1> USE DEF IInv, TypeOK, WorkersAreMissing, Abstract!Next, Abstract!vars,
            coordVars, ledgerVars, scanVars, workerVars
<1>1. ASSUME NEW pool \in SUBSET Keys, FetchPool(pool)
      PROVE  UNCHANGED Abstract!vars
  BY <1>1 DEF FetchPool, Missing, Owner
<1>2. CASE FetchFailed
  BY <1>2 DEF FetchFailed, Owner
<1>3. CASE NextRound
  BY <1>3 DEF NextRound, RoundOver, Owner
<1>4. CASE GiveUp \/ ServeEarly
  <2>1. phase # "served" /\ phase' = "served"
    BY <1>4 DEF GiveUp, ServeEarly, RoundOver, Return
  <2>2. UNCHANGED Owner
    BY <1>4 DEF GiveUp, ServeEarly, Return, Missing, Owner
  <2>3. QED
    BY <2>1, <2>2 DEF Abstract!End
<1>5. ASSUME NEW i \in Instances, Step(i)
      PROVE  [Abstract!Next]_(Abstract!vars)
  <2>1. CASE Register(i)
    <3>1. /\ status' = [status EXCEPT ![i] = "ok"]
          /\ UNCHANGED <<active, phase>>
          /\ pc[i] = "adopted"
      BY <2>1, NeverTaken DEF Register
    <3>2. Owner[i] = NoKey /\ \A j \in Instances : Owner[j] # active[i]
      BY <3>1, NeverTaken, PopulateAssumption DEF Owner
    <3>3. Owner' = [Owner EXCEPT ![i] = active[i]]
      BY <3>1 DEF Owner
    <3>4. Abstract!Assign(i, active[i])
      BY <3>1, <3>2, <3>3 DEF Abstract!Assign
    <3>5. QED
      BY <3>1, <3>4, NeverTaken
  <2>2. CASE Adopt(i)
    BY <2>2 DEF Adopt, Owner
  <2>3. CASE ~Register(i) /\ ~Adopt(i)
    <3>1. UNCHANGED <<phase, status, active>>
      BY <1>5, <2>3 DEF Step, Acquire, Attempt, Visit, TryClaim, StartFailed, Started,
           Bound, Exited, NeverBound, Unproven, Reject, GiveBack, Retry, ScanFailed
    <3>2. QED
      BY <3>1 DEF Owner
  <2>4. QED
    BY <2>1, <2>2, <2>3
<1>6. CASE (\E i \in Instances : Expire(i) \/ Crash(i)) \/ UNCHANGED vars
  BY <1>6 DEF Expire, Crash, vars, Owner
<1>7. QED
  BY <1>1, <1>2, <1>3, <1>4, <1>5, <1>6 DEF Next, Coordinator, Returned

\* Start gives upstreams to instances as Assignment says: each to one, for good, and before
\* it returns.
THEOREM Refinement == Spec => ImplementsAssignment
<1>1. Init => Abstract!Init
  BY DEF Init, Abstract!Init, Owner
<1>2. QED
  BY <1>1, StepRefines, Invariance, PTL DEF Spec, ImplementsAssignment, Abstract!Spec

-------------------------------------------------------------------------------
\* Startup implements Serving: a candidate is claimed by the worker that launches it,
\* and what is on another port is held there.

\* Where a child is, its upstream is held.
LEMMA ServedIsHeld ==
    ASSUME IInv, Port, NEW j \in Instances, xray[j] # NoKey
    PROVE  Holds(j, xray[j])
BY DEF IInv, TypeOK, Port, Holds, Places

LEMMA StepServes ==
    ASSUME IInv, Port, [Next]_vars
    PROVE  [Ports!Next]_xray
<1> USE DEF IInv, TypeOK
<1>1. ASSUME NEW i \in Instances, Started(i)
      PROVE  key[i] \in Keys /\ Ports!TakeFree(i, key[i])
  <2>1. pc[i] = "launch" /\ xray' = [xray EXCEPT ![i] = key[i]]
    BY <1>1 DEF Started
  <2>2. key[i] \in Keys /\ Holds(i, key[i])
    BY <2>1 DEF CandidatesAreFree, Probing, Holds
  <2>3. xray[i] = NoKey
    BY <2>1 DEF Port, WorkersAreMissing
  <2>4. ASSUME NEW j \in Instances, xray[j] = key[i]
        PROVE  FALSE
    <3>1. xray[j] # NoKey
      BY <2>2, <2>4, PopulateAssumption
    <3>2. Holds(j, key[i])
      BY <2>4, <3>1, ServedIsHeld
    <3>3. j = i
      BY <2>2, <3>2 DEF OneHolder
    <3>4. QED
      BY <2>3, <2>4, <3>1, <3>3
  <2>5. QED
    BY <2>1, <2>2, <2>3, <2>4 DEF Ports!TakeFree, Ports!Take
<1>2. ASSUME NEW i \in Instances,
             \/ StartFailed(i) \/ Exited(i) \/ NeverBound(i) \/ Unproven(i) \/ Reject(i)
             \/ Crash(i)
      PROVE  Ports!Silence(i)
  BY <1>2 DEF Crash, StartFailed, Exited, NeverBound, Unproven, Reject, GiveBack, Ports!Silence
<1>3. ASSUME NEW i \in Instances,
             \/ Acquire(i) \/ Attempt(i) \/ (\E k \in Keys : Visit(i, k)) \/ TryClaim(i)
             \/ Bound(i) \/ Adopt(i) \/ Retry(i) \/ ScanFailed(i) \/ Register(i) \/ Expire(i)
      PROVE  xray' = xray
  BY <1>3 DEF Acquire, Attempt, Visit, TryClaim, Bound, Adopt, Retry, ScanFailed, Register, Expire
<1>4. CASE Coordinator \/ UNCHANGED vars
  BY <1>4 DEF Coordinator, FetchPool, FetchFailed, GiveUp, ServeEarly, NextRound, Return, vars
<1>5. QED
  BY <1>1, <1>2, <1>3, <1>4 DEF Next, Step, Returned, Ports!Next

\* Start keeps what it promises of owners (Assignment) and of ports (Serving), for any
\* number of instances, upstreams, permits and rounds.
THEOREM Promises == Spec => KeepsPromises
<1>1. Init => Port /\ Ports!Init /\ Ports!Unique
  BY DEF Init, Port, Ports!Init, Ports!Unique
<1>2. Spec => ImplementsServing
  BY <1>1, StepServes, NextPort, Invariance, PTL DEF Spec, ImplementsServing, Ports!Spec
<1>3. QED
  BY <1>2, Refinement DEF KeepsPromises

\* When Start returns, it is ready or has spent its rounds, index, status and child of
\* every instance agree, unless the child has died, no upstream is active twice, and nothing is left of the scans
\* that failed: a state that Failover's Init allows.
THEOREM HandsOver == Spec => []Handover
<1>1. IInv /\ Port /\ ReturnedIsReady => Handover
  <2> SUFFICES ASSUME IInv, Port, ReturnedIsReady, phase = "served"
               PROVE  Handover
    BY DEF Handover
  <2> USE DEF IInv, TypeOK
  <2>1. \A i \in Instances : pc[i] = "off" /\ status[i] \in {"ok", "down"}
    BY DEF WorkersAreMissing, ReturnedIsReady
  <2>2. \A i \in Instances :
           IF status[i] = "ok" THEN active[i] \in Keys /\ active[i] \in configs[i]
                                    /\ xray[i] \in {active[i], NoKey}
                               ELSE active[i] = NoKey /\ xray[i] = NoKey
    BY <2>1 DEF Port, UsedIsOk
  <2>3. \A i \in Instances : xray[i] \in {active[i], NoKey}
    BY <2>2
  <2>4. \A i, j \in Instances : active[i] = active[j] => i = j \/ active[i] = NoKey
    BY <2>2 DEF OneHolder, Holds
  <2>5. QED
    BY <2>1, <2>2, <2>3, <2>4, PopulateAssumption DEF Handover, ReturnedIsReady
<1>2. Init => Port
  BY DEF Init, Port
<1>3. QED
  BY <1>1, <1>2, NextPort, ReadyOnReturn, Invariance, PTL DEF Spec
===============================================================================
