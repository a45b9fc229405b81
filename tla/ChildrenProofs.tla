---------------------------- MODULE ChildrenProofs ----------------------------
(***************************************************************************)
(* For any instances, probers and launches: the prune never kills a child  *)
(* that somebody owns.                                                     *)
(*                                                                         *)
(* The second reading is what decides. When it begins, whoever has a child *)
(* that was found has registered it, and whoever launches from then on     *)
(* launches a process that was not found (NewbornsAreNotFound). So, as the *)
(* reading goes from instance to instance, what is found and owned there   *)
(* comes into keep (Kept), and victims are what is found and not kept.     *)
(***************************************************************************)
EXTENDS Children, TLAPS

Second == prune \in {"cmd2", "temp2", "kill"}

\* How far the second reading has come.
CmdRead(i) ==
    \/ prune = "kill"
    \/ prune = "cmd2" /\ i < at
    \/ prune = "temp2" /\ i <= at

TempRead(i) ==
    \/ prune = "kill"
    \/ prune \in {"cmd2", "temp2"} /\ i < at

\* Who has a child in its hands, and that no two have the same.
Hands ==
    /\ \A i \in Instances : pc[i] \in {"idle", "launch", "born", "bind", "restore", "reborn"}
    /\ \A t \in Probers : pc[t] \in {"idle", "born", "probe", "stopped"}
    /\ \A t \in Threads :
          /\ pc[t] \in {"idle", "launch", "bind", "restore"} => child[t] = NoPid
          /\ pc[t] \in {"born", "reborn", "probe", "stopped"} => child[t] # NoPid
          /\ child[t] # NoPid => proc[child[t]] # "unborn"
    /\ \A i \in Instances :
          /\ pc[i] = "bind" => xrayCmd[i] # NoPid
          /\ xrayCmd[i] # NoPid => proc[xrayCmd[i]] # "unborn"
    /\ \A t, u \in Threads : child[t] = child[u] /\ child[t] # NoPid => t = u

\* A probe's child is registered as long as it lives.
Registered ==
    \A t \in Probers : pc[t] \in {"probe", "stopped"} => child[t] \in tempPIDs[Home[t]]

FoundIsBorn == \A p \in found : proc[p] # "unborn"

NewbornsAreNotFound ==
    Second => \A t \in Threads : pc[t] \in {"born", "reborn"} => child[t] \notin found

Kept ==
    /\ \A i \in Instances : CmdRead(i) /\ xrayCmd[i] \in found => xrayCmd[i] \in keep
    /\ \A t \in Probers : TempRead(Home[t]) /\ child[t] \in found => child[t] \in keep
    /\ prune = "kill" => found \cap keep = {}
    /\ prune = "grace" => at = 1

IInv == TypeOK /\ Hands /\ Registered /\ FoundIsBorn /\ NewbornsAreNotFound /\ Kept

-------------------------------------------------------------------------------
LEMMA InitIInv == Init => IInv
  BY ChildrenAssumption DEF Init, IInv, TypeOK, Hands, Registered, FoundIsBorn,
     NewbornsAreNotFound, Kept, CmdRead, TempRead, Second, NoPid, Instances, Threads

\* A process that ends, by itself, by a stop or by the prune, was born and stays so;
\* and only unborn ones are spawned.
LEMMA EndIsTyped ==
    ASSUME TypeOK, NEW p \in Pids, proc[p] # "unborn"
    PROVE  /\ Gone(p) \in [Pids -> {"unborn", "runs", "zombie", "gone"}]
           /\ Dies(p) \in [Pids -> {"unborn", "runs", "zombie", "gone"}]
           /\ \A q \in Pids : /\ Gone(p)[q] = "unborn" <=> proc[q] = "unborn"
                              /\ Dies(p)[q] = "unborn" <=> proc[q] = "unborn"
  BY DEF TypeOK, Gone, Dies

LEMMA SpawnIsTyped ==
    ASSUME TypeOK, NEW t \in Threads, NEW p \in Pids, Spawn(t, p)
    PROVE  /\ proc' \in [Pids -> {"unborn", "runs", "zombie", "gone"}]
           /\ child' = [child EXCEPT ![t] = p]
           /\ child' \in [Threads -> Pids \cup {NoPid}]
           /\ proc[p] = "unborn"
           /\ \A q \in Pids : proc'[q] = "unborn" => proc[q] = "unborn" /\ q # p
  BY DEF TypeOK, Spawn, Fresh

\* Who has launched owns what no peer owns and the prune has not found.
LEMMA SpawnKeeps ==
    ASSUME IInv, NEW t \in Threads, NEW p \in Pids, Spawn(t, p),
           NEW next, pc' = [pc EXCEPT ![t] = next],
           pc[t] \in {"idle", "launch", "restore"},
           t \in Instances => next \in {"born", "reborn"},
           t \in Probers => next = "born",
           UNCHANGED <<xrayCmd, tempPIDs, pruner>>
    PROVE  IInv'
<1> USE DEF IInv, pruner
<1>1. /\ proc' \in [Pids -> {"unborn", "runs", "zombie", "gone"}]
      /\ child' = [child EXCEPT ![t] = p]
      /\ child' \in [Threads -> Pids \cup {NoPid}]
      /\ proc[p] = "unborn"
      /\ \A q \in Pids : proc'[q] = "unborn" => proc[q] = "unborn" /\ q # p
  BY SpawnIsTyped
<1>2. next \in {"born", "reborn"}
  BY DEF Threads
<1>3. TypeOK'
  BY <1>1, <1>2 DEF TypeOK
<1>4. p # NoPid /\ p \notin found
  BY <1>1, ChildrenAssumption DEF FoundIsBorn, NoPid
<1>5. Hands'
  <2>1. \A u \in Threads : child[u] # p
    BY <1>1, <1>4 DEF Hands
  <2>2. \A u \in Threads : child'[u] = IF u = t THEN p ELSE child[u]
    BY <1>1 DEF TypeOK
  <2>3. \A u \in Threads : pc'[u] = IF u = t THEN next ELSE pc[u]
    BY DEF TypeOK
  <2>4. \A i \in Instances : i \in Threads /\ i \notin Probers
    BY ChildrenAssumption DEF Threads
  <2>5. /\ \A i \in Instances : pc'[i] \in {"idle", "launch", "born", "bind", "restore", "reborn"}
        /\ \A u \in Probers : pc'[u] \in {"idle", "born", "probe", "stopped"}
    BY <2>3, <2>4 DEF Hands, Threads
  <2>6. \A u \in Threads :
            /\ pc'[u] \in {"idle", "launch", "bind", "restore"} => child'[u] = NoPid
            /\ pc'[u] \in {"born", "reborn", "probe", "stopped"} => child'[u] # NoPid
            /\ child'[u] # NoPid => proc'[child'[u]] # "unborn"
    BY <1>1, <1>2, <1>4, <2>2, <2>3 DEF Hands, TypeOK
  <2>7. \A i \in Instances :
            /\ pc'[i] = "bind" => xrayCmd'[i] # NoPid
            /\ xrayCmd'[i] # NoPid => proc'[xrayCmd'[i]] # "unborn"
    BY <1>1, <1>2, <2>3, <2>4 DEF Hands, TypeOK
  <2>8. \A u, v \in Threads : child'[u] = child'[v] /\ child'[u] # NoPid => u = v
    BY <2>1, <2>2 DEF Hands
  <2> QED
    BY <2>5, <2>6, <2>7, <2>8 DEF Hands
<1>6. Registered'
  BY <1>1, <1>2 DEF Registered, TypeOK, Threads
<1>7. FoundIsBorn'
  BY <1>1 DEF FoundIsBorn, TypeOK
<1>8. NewbornsAreNotFound'
  BY <1>1, <1>4 DEF NewbornsAreNotFound, TypeOK, Second
<1>9. Kept'
  BY <1>1, <1>4 DEF Kept, CmdRead, TempRead, TypeOK, Threads
<1> QED
  BY <1>3, <1>5, <1>6, <1>7, <1>8, <1>9

\* A swap that stops the child of its port, or finds none there to stop.
LEMMA StopKeeps ==
    ASSUME IInv, NEW i \in Instances, pc[i] \in {"idle", "bind"},
           proc' = IF xrayCmd[i] = NoPid THEN proc ELSE Gone(xrayCmd[i]),
           NEW next \in {"launch", "restore"}, pc' = [pc EXCEPT ![i] = next],
           xrayCmd' = [xrayCmd EXCEPT ![i] = NoPid],
           UNCHANGED <<tempPIDs, child, pruner>>
    PROVE  IInv'
<1> USE DEF IInv, pruner
<1>1. i \in Threads /\ i \notin Probers
  BY ChildrenAssumption DEF Threads
<1>2. /\ proc' \in [Pids -> {"unborn", "runs", "zombie", "gone"}]
      /\ \A q \in Pids : proc'[q] = "unborn" <=> proc[q] = "unborn"
  <2>1. CASE xrayCmd[i] = NoPid
    BY <2>1 DEF TypeOK
  <2>2. CASE xrayCmd[i] # NoPid
    BY <2>2, EndIsTyped DEF TypeOK, Hands
  <2> QED
    BY <2>1, <2>2
<1>3. TypeOK'
  BY <1>1, <1>2 DEF TypeOK
<1>4. Hands'
  BY <1>1, <1>2 DEF Hands, TypeOK
<1>5. Registered' /\ FoundIsBorn' /\ NewbornsAreNotFound'
  BY <1>1, <1>2 DEF Registered, FoundIsBorn, NewbornsAreNotFound, Second, TypeOK, Threads
<1>6. Kept'
  <2>1. NoPid \notin found
    BY ChildrenAssumption DEF TypeOK, NoPid
  <2> QED
    BY <1>1, <2>1 DEF Kept, CmdRead, TempRead, TypeOK
<1> QED
  BY <1>3, <1>4, <1>5, <1>6

-------------------------------------------------------------------------------
LEMMA SwapKeeps ==
    ASSUME IInv, NEW i \in Instances, Swap(i) \/ SwapStep(i)
    PROVE  IInv'
<1> USE DEF IInv, pruner
<1>1. i \in Threads /\ i \notin Probers
  BY ChildrenAssumption DEF Threads
<1>2. CASE Swap(i)
  BY <1>2, StopKeeps DEF Swap, Unlocked
<1>3. CASE \E p \in Pids : Launch(i, p)
  <2>1. PICK p \in Pids : Launch(i, p)
    BY <1>3
  <2>2. PICK next \in {"born", "reborn"} : pc' = [pc EXCEPT ![i] = next]
    BY <2>1 DEF Launch
  <2> QED
    BY <1>1, <2>1, <2>2, SpawnKeeps DEF Launch
<1>4. CASE LaunchFails(i)
  <2>1. pc[i] \in {"launch", "restore"} /\ UNCHANGED <<proc, xrayCmd, tempPIDs, child, pruner>>
    BY <1>4 DEF LaunchFails
  <2>2. PICK next \in {"restore", "idle"} : pc' = [pc EXCEPT ![i] = next]
    BY <1>4 DEF LaunchFails
  <2>3. TypeOK'
    BY <1>1, <2>1, <2>2 DEF TypeOK
  <2>4. Hands'
    BY <1>1, <2>1, <2>2 DEF Hands, TypeOK
  <2>5. Registered' /\ FoundIsBorn' /\ NewbornsAreNotFound' /\ Kept'
    BY <1>1, <2>1, <2>2 DEF Registered, FoundIsBorn, NewbornsAreNotFound, Kept, CmdRead,
       TempRead, Second, TypeOK, Threads
  <2> QED
    BY <2>3, <2>4, <2>5
<1>5. CASE Store(i)
  <2>1. PICK next \in {"bind", "idle"} : pc' = [pc EXCEPT ![i] = next]
    BY <1>5 DEF Store
  <2>2. /\ pc[i] \in {"born", "reborn"}
        /\ xrayCmd' = [xrayCmd EXCEPT ![i] = child[i]]
        /\ child' = [child EXCEPT ![i] = NoPid]
        /\ UNCHANGED <<proc, tempPIDs, pruner>>
    BY <1>5 DEF Store
  <2>3. TypeOK'
    BY <1>1, <2>1, <2>2 DEF TypeOK
  <2>4. Hands'
    BY <1>1, <2>1, <2>2 DEF Hands, TypeOK
  <2>5. Registered' /\ FoundIsBorn' /\ NewbornsAreNotFound'
    BY <1>1, <2>1, <2>2 DEF Registered, FoundIsBorn, NewbornsAreNotFound, Second, TypeOK, Threads
  <2>6. Kept'
    <3>1. \A j \in Instances : CmdRead(j) => Second
      BY DEF CmdRead, Second
    <3>2. Second => child[i] \notin found
      BY <1>1, <2>2 DEF NewbornsAreNotFound
    <3>3. \A t \in Probers : t # i /\ t \in Threads
      BY <1>1 DEF Threads
    <3> QED
      BY <1>1, <2>2, <3>1, <3>2, <3>3 DEF Kept, CmdRead, TempRead, TypeOK
  <2> QED
    BY <2>3, <2>4, <2>5, <2>6
<1>6. CASE Adopt(i)
  BY <1>1, <1>6 DEF Adopt, TypeOK, Hands, Registered, FoundIsBorn, NewbornsAreNotFound, Kept,
     CmdRead, TempRead, Second, Threads
<1>7. CASE Reject(i)
  <2>1. xrayCmd[i] # NoPid
    BY <1>7 DEF Reject, Hands
  <2> QED
    BY <1>7, <2>1, StopKeeps DEF Reject
<1> QED
  BY <1>2, <1>3, <1>4, <1>5, <1>6, <1>7 DEF SwapStep

LEMMA ProbeKeeps ==
    ASSUME IInv, NEW t \in Probers, Probe(t)
    PROVE  IInv'
<1> USE DEF IInv, pruner
<1>1. /\ t \in Threads
      /\ t \notin Instances
      /\ Home[t] \in Instances
      /\ \A i \in Instances : i \in Threads /\ i # t
  BY ChildrenAssumption DEF Threads
<1>2. CASE \E p \in Pids : ProbeLaunch(t, p)
  BY <1>1, <1>2, SpawnKeeps DEF ProbeLaunch
<1>3. CASE TrackTemp(t)
  <2>1. child[t] \in Pids
    BY <1>1, <1>3 DEF TrackTemp, Hands, TypeOK
  <2>2. TypeOK'
    BY <1>1, <1>3, <2>1 DEF TrackTemp, TypeOK
  <2>3. Hands'
    BY <1>1, <1>3 DEF TrackTemp, Hands, TypeOK
  <2>4. Registered'
    BY <1>1, <1>3, ChildrenAssumption DEF TrackTemp, Registered, TypeOK, Threads
  <2>5. FoundIsBorn' /\ NewbornsAreNotFound' /\ Kept'
    BY <1>1, <1>3 DEF TrackTemp, FoundIsBorn, NewbornsAreNotFound, Kept, CmdRead, TempRead,
       Second, TypeOK
  <2> QED
    BY <2>2, <2>3, <2>4, <2>5
<1>4. CASE ProbeStop(t)
  <2>1. /\ proc' \in [Pids -> {"unborn", "runs", "zombie", "gone"}]
        /\ \A q \in Pids : proc'[q] = "unborn" <=> proc[q] = "unborn"
    BY <1>1, <1>4, EndIsTyped DEF ProbeStop, Hands, TypeOK
  <2>2. TypeOK'
    BY <1>1, <1>4, <2>1 DEF ProbeStop, TypeOK
  <2>3. Hands'
    BY <1>1, <1>4, <2>1 DEF ProbeStop, Hands, TypeOK
  <2>4. Registered'
    BY <1>1, <1>4 DEF ProbeStop, Registered, TypeOK, Threads
  <2>5. FoundIsBorn' /\ NewbornsAreNotFound' /\ Kept'
    BY <1>1, <1>4, <2>1 DEF ProbeStop, FoundIsBorn, NewbornsAreNotFound, Kept, CmdRead,
       TempRead, Second, TypeOK
  <2> QED
    BY <2>2, <2>3, <2>4, <2>5
<1>5. CASE UntrackTemp(t)
  <2>1. TypeOK'
    BY <1>1, <1>5 DEF UntrackTemp, TypeOK
  <2>2. Hands'
    BY <1>1, <1>5 DEF UntrackTemp, Hands, TypeOK
  <2>3. Registered'
    <3> SUFFICES ASSUME NEW u \in Probers, pc'[u] \in {"probe", "stopped"}
                 PROVE  child'[u] \in tempPIDs'[Home[u]]
      BY DEF Registered
    <3>1. u \in Threads /\ Home[u] \in Instances
      BY ChildrenAssumption DEF Threads
    <3>2. u # t /\ child'[u] = child[u] /\ pc[u] \in {"probe", "stopped"}
      BY <1>1, <1>5, <3>1 DEF UntrackTemp, TypeOK
    <3>3. child[u] # child[t]
      BY <1>1, <3>1, <3>2 DEF Hands
    <3> QED
      BY <1>1, <1>5, <3>1, <3>2, <3>3 DEF UntrackTemp, Registered, TypeOK
  <2>4. FoundIsBorn' /\ NewbornsAreNotFound'
    BY <1>1, <1>5 DEF UntrackTemp, FoundIsBorn, NewbornsAreNotFound, Second, TypeOK
  <2>5. Kept'
    <3>1. NoPid \notin found
      BY ChildrenAssumption DEF TypeOK, NoPid
    <3> QED
      BY <1>1, <1>5, <3>1 DEF UntrackTemp, Kept, CmdRead, TempRead, TypeOK, Threads
  <2> QED
    BY <2>1, <2>2, <2>3, <2>4, <2>5
<1> QED
  BY <1>2, <1>3, <1>4, <1>5 DEF Probe

-------------------------------------------------------------------------------
\* A process that ends by itself or by the prune.
LEMMA DeathKeeps ==
    ASSUME IInv, NEW p \in Pids, proc' \in {proc, Dies(p)},
           proc[p] = "runs" \/ proc' = proc,
           UNCHANGED <<launchers, prune, at, keep>>,
           found' \subseteq found
    PROVE  IInv'
<1>1. /\ proc' \in [Pids -> {"unborn", "runs", "zombie", "gone"}]
      /\ \A q \in Pids : proc'[q] = "unborn" <=> proc[q] = "unborn"
  BY EndIsTyped DEF IInv, TypeOK
<1>2. TypeOK'
  BY <1>1 DEF IInv, TypeOK, launchers
<1>3. Hands'
  BY <1>1 DEF IInv, TypeOK, Hands, launchers
<1>4. FoundIsBorn'
  BY <1>1 DEF IInv, TypeOK, FoundIsBorn
<1> QED
  BY <1>2, <1>3, <1>4 DEF IInv, TypeOK, Registered, NewbornsAreNotFound, Kept, CmdRead,
     TempRead, Second, launchers

LEMMA PruneKeeps ==
    ASSUME IInv, Prune
    PROVE  IInv'
<1> USE DEF IInv, launchers
<1>1. CASE Scan
  BY <1>1, ChildrenAssumption DEF Scan, Managed, TypeOK, Hands, Registered, FoundIsBorn,
     NewbornsAreNotFound, Kept, CmdRead, TempRead, Second, Instances
<1>2. CASE ReadCmd
  <2>1. TypeOK' /\ Hands' /\ Registered' /\ FoundIsBorn' /\ NewbornsAreNotFound'
    BY <1>2 DEF ReadCmd, TypeOK, Hands, Registered, FoundIsBorn, NewbornsAreNotFound, Second
  <2>2. \A i \in Instances : CmdRead(i)' => CmdRead(i) \/ i = at
    BY <1>2 DEF ReadCmd, CmdRead, TypeOK, Instances
  <2>3. \A i \in Instances : TempRead(i)' => TempRead(i)
    BY <1>2 DEF ReadCmd, TempRead
  <2>4. NoPid \notin found
    BY ChildrenAssumption DEF TypeOK, NoPid
  <2>5. \A i \in Instances : CmdRead(i)' /\ xrayCmd[i] \in found => xrayCmd[i] \in keep'
    BY <1>2, <2>2, <2>4 DEF ReadCmd, Kept
  <2>6. \A t \in Probers : TempRead(Home[t])' /\ child[t] \in found => child[t] \in keep'
    BY <1>2, <2>3, ChildrenAssumption DEF ReadCmd, Kept
  <2> QED
    BY <1>2, <2>1, <2>5, <2>6 DEF ReadCmd, Kept, CmdRead, TempRead
<1>3. CASE ReadTemps
  <2>1. /\ prune \in {"temp1", "temp2"}
        /\ keep' = keep \cup tempPIDs[at]
        /\ found' \in {found, found \ keep'}
        /\ prune' = "kill" => at = N /\ found' = found \ keep'
        /\ prune' = "grace" => at' = 1
        /\ prune' \in {"cmd1", "cmd2"} => at < N /\ at' = at + 1
        /\ prune' \in {"cmd1", "cmd2", "grace", "kill"}
        /\ prune' \in {"cmd2", "kill"} <=> prune = "temp2"
        /\ at' \in Instances
        /\ UNCHANGED <<proc, launchers>>
    BY <1>3, ChildrenAssumption DEF ReadTemps, ReadTemp, TypeOK, Instances
  <2>2. TypeOK' /\ Hands' /\ Registered' /\ FoundIsBorn' /\ NewbornsAreNotFound'
    BY <2>1 DEF TypeOK, Hands, Registered, FoundIsBorn, NewbornsAreNotFound, Second
  <2>3. \A i \in Instances : CmdRead(i)' => CmdRead(i)
    BY <2>1 DEF CmdRead, TypeOK, Instances
  <2>4. \A i \in Instances : TempRead(i)' => TempRead(i) \/ i = at
    BY <2>1 DEF TempRead, TypeOK, Instances
  <2>5. \A i \in Instances : CmdRead(i)' /\ xrayCmd[i] \in found => xrayCmd[i] \in keep'
    BY <2>1, <2>3 DEF Kept
  <2>6. ASSUME NEW t \in Probers, TempRead(Home[t])', child[t] \in found
        PROVE  child[t] \in keep'
    <3>1. Home[t] \in Instances /\ t \in Threads
      BY ChildrenAssumption DEF Threads
    <3>2. CASE TempRead(Home[t])
      BY <2>1, <2>6, <3>2 DEF Kept
    <3>3. CASE Home[t] = at
      <4>1. Second
        BY <2>1, <2>6 DEF TempRead, Second
      <4>2. pc[t] \in {"probe", "stopped"}
        BY <2>6, <3>1, <4>1, ChildrenAssumption
           DEF Hands, NewbornsAreNotFound, TypeOK, NoPid
      <4> QED
        BY <2>1, <3>3, <4>2 DEF Registered
    <3> QED
      BY <2>4, <2>6, <3>1, <3>2, <3>3
  <2>7. Kept'
    BY <2>1, <2>5, <2>6 DEF Kept, CmdRead, TempRead
  <2> QED
    BY <2>2, <2>7
<1>4. CASE NoVictim
  BY <1>4 DEF NoVictim, TypeOK, Hands, Registered, FoundIsBorn, NewbornsAreNotFound, Kept,
     CmdRead, TempRead, Second
<1>5. CASE Grace
  <2>1. at' = 1 /\ prune' = "cmd2" /\ UNCHANGED <<proc, launchers, found>>
    BY <1>5 DEF Grace, GraceOver, Kept
  <2>2. TypeOK' /\ Hands' /\ Registered' /\ FoundIsBorn'
    BY <1>5, <2>1 DEF Grace, GraceOver, TypeOK, Hands, Registered, FoundIsBorn
  <2>3. NewbornsAreNotFound'
    BY <1>5, <2>1 DEF Grace, NewbornsAreNotFound
  <2>4. \A i \in Instances : ~CmdRead(i)' /\ ~TempRead(i)'
    BY <2>1 DEF CmdRead, TempRead, Instances
  <2>5. Kept'
    BY <2>1, <2>4, ChildrenAssumption DEF Kept
  <2> QED
    BY <2>2, <2>3, <2>5
<1>6. CASE \E p \in Pids : Kill(p)
  BY <1>6, DeathKeeps DEF Kill, Managed
<1> QED
  BY <1>1, <1>2, <1>3, <1>4, <1>5, <1>6 DEF Prune

LEMMA StepIInv == IInv /\ [Next]_vars => IInv'
<1> SUFFICES ASSUME IInv, [Next]_vars
             PROVE  IInv'
  OBVIOUS
<1>1. CASE \E p \in Pids : ChildExits(p)
  BY <1>1, DeathKeeps DEF ChildExits, pruner
<1>2. CASE \E i \in Instances : Swap(i) \/ SwapStep(i)
  BY <1>2, SwapKeeps
<1>3. CASE \E t \in Probers : Probe(t)
  BY <1>3, ProbeKeeps
<1>4. CASE Prune
  BY <1>4, PruneKeeps
<1>5. CASE UNCHANGED vars
  BY <1>5 DEF vars, launchers, pruner, IInv, TypeOK, Hands, Registered, FoundIsBorn,
     NewbornsAreNotFound, Kept, CmdRead, TempRead, Second
<1> QED
  BY <1>1, <1>2, <1>3, <1>4, <1>5 DEF Next

THEOREM Invariance == Spec => []IInv
  BY InitIInv, StepIInv, PTL DEF Spec

\* The registrations, the hands and the readings of the prune stay well typed.
THEOREM TypeCorrect == Spec => []TypeOK
<1>1. IInv => TypeOK
  BY DEF IInv
<1> QED
  BY <1>1, Invariance, PTL

\* Once the second reading is over, no victim is anybody's.
LEMMA VictimsAreNobodys ==
    ASSUME IInv, prune = "kill", NEW p \in found
    PROVE  ~Owned(p)
<1> USE DEF IInv
<1>1. p # NoPid
  BY ChildrenAssumption DEF TypeOK, NoPid
<1>2. ASSUME NEW i \in Instances, xrayCmd[i] = p
      PROVE  FALSE
  BY <1>2 DEF Kept, CmdRead
<1>3. ASSUME NEW t \in Threads, child[t] = p
      PROVE  FALSE
  <2>1. pc[t] \in {"probe", "stopped"}
    BY <1>1, <1>3 DEF Hands, NewbornsAreNotFound, Second, TypeOK
  <2>2. t \in Probers
    BY <2>1 DEF Hands, Threads
  <2> QED
    BY <1>3, <2>2 DEF Kept, TempRead
<1> QED
  BY <1>2, <1>3 DEF Owned

\* Whatever the prune kills is owned by no swap, no probe and no instance
\* (pruneOrphanXray), for any number of them.
THEOREM OwnedAreSpared == Spec => OwnedIsSpared
<1> DEFINE Spares == \A p \in Pids : Kill(p) /\ proc'[p] # proc[p] => ~Owned(p)
<1>1. IInv => Spares
  BY VictimsAreNobodys DEF Kill
<1>2. []IInv => OwnedIsSpared
  BY <1>1, PTL DEF OwnedIsSpared
<1> QED
  BY <1>2, Invariance, PTL
===============================================================================
