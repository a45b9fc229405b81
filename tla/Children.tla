------------------------------- MODULE Children -------------------------------
(***************************************************************************)
(* The xray children of the daemon and the prune that kills those nobody   *)
(* owns (v2proxy/watchdog.go).                                             *)
(*                                                                         *)
(* A child is launched first and registered later: for a serving port as   *)
(* s.xrayCmd, under the mutex of its instance, which a swap holds to its   *)
(* end; for a probe in tempPIDs, under no lock that the prune takes. The   *)
(* prune reads /proc, then the registrations of one instance after the     *)
(* other, waits, and reads the registrations again before it kills.        *)
(*                                                                         *)
(* A pid stands for a process: numbers rise and do not come round.         *)
(***************************************************************************)
EXTENDS Naturals

CONSTANTS
    N,          \* the number of instances
    Probers,    \* goroutines that probe on throwaway ports
    Home,       \* the instance whose selector each of them uses
    Pids,       \* the processes of a behaviour: a bound on launches
    Orphans     \* those that an earlier life of the daemon has left behind

Instances == 1..N

ASSUME ChildrenAssumption ==
    /\ N \in Nat \ {0}
    /\ Probers \cap Instances = {}
    /\ Home \in [Probers -> Instances]
    /\ Pids \subseteq Nat \ {0}
    /\ Orphans \subseteq Pids

NoPid == 0

Threads == Instances \cup Probers

VARIABLES
    proc,       \* what becomes of each process
    xrayCmd,    \* the child each instance has registered for its port
    tempPIDs,   \* the children each instance has registered for probes
    pc,         \* where each swap and each probe stands
    child,      \* the child in its hands
    prune,      \* where pruneOrphanXray stands
    at,         \* managedPIDs has come to this instance
    found,      \* the processes it has seen in /proc, then its victims
    keep        \* what managedPIDs has collected

launchers == <<xrayCmd, tempPIDs, pc, child>>
pruner == <<prune, at, found, keep>>
vars == <<proc, launchers, pruner>>

\* A swap holds the mutex of its instance from its first step to its last.
Unlocked(i) == pc[i] = "idle"

TypeOK ==
    /\ proc \in [Pids -> {"unborn", "runs", "zombie", "gone"}]
    /\ xrayCmd \in [Instances -> Pids \cup {NoPid}]
    /\ tempPIDs \in [Instances -> SUBSET Pids]
    /\ pc \in [Threads -> {"idle", "launch", "born", "bind", "restore", "reborn",
                           "probe", "stopped"}]
    /\ child \in [Threads -> Pids \cup {NoPid}]
    /\ prune \in {"idle", "cmd1", "temp1", "grace", "cmd2", "temp2", "kill"}
    /\ at \in Instances
    /\ found \subseteq Pids
    /\ keep \subseteq Pids

Init ==
    /\ proc = [p \in Pids |-> IF p \in Orphans THEN "runs" ELSE "unborn"]
    /\ xrayCmd = [i \in Instances |-> NoPid]
    /\ tempPIDs = [i \in Instances |-> {}]
    /\ pc = [t \in Threads |-> "idle"]
    /\ child = [t \in Threads |-> NoPid]
    /\ prune = "idle" /\ at = 1 /\ found = {} /\ keep = {}

-------------------------------------------------------------------------------
\* Mutated forms of steps below: a prune that kills on its first reading, and one that
\* looks for children of its own life only.
GraceOverTrusts == prune' = "kill" /\ UNCHANGED <<at, keep>>

ManagedByUs == {p \in Pids \ Orphans : proc[p] = "runs"}

-------------------------------------------------------------------------------
\* Processes.

Fresh == {p \in Pids : proc[p] = "unborn" /\ \A q \in Pids : q < p => proc[q] # "unborn"}

\* launchXray: a process of its own group. That it is checked once more after
\* xrayCrashDetect changes nothing: signal 0 reaches a zombie, too.
Spawn(t, p) ==
    /\ p \in Fresh
    /\ proc' = [proc EXCEPT ![p] = "runs"]
    /\ child' = [child EXCEPT ![t] = p]

\* stopXrayCmdPort: signals, and reaps whatever the child died of.
Gone(p) == [proc EXCEPT ![p] = "gone"]

\* Who has no parent left is reaped by init.
Dies(p) == [proc EXCEPT ![p] = IF p \in Orphans THEN "gone" ELSE "zombie"]

ChildExits(p) ==
    /\ proc[p] = "runs"
    /\ proc' = Dies(p)
    /\ UNCHANGED <<launchers, pruner>>

-------------------------------------------------------------------------------
\* A swap of the serving child (SwitchToNextExcluding, once it has a winner).

Swap(i) ==
    /\ Unlocked(i)
    /\ pc' = [pc EXCEPT ![i] = "launch"]
    /\ proc' = IF xrayCmd[i] = NoPid THEN proc ELSE Gone(xrayCmd[i])
    /\ xrayCmd' = [xrayCmd EXCEPT ![i] = NoPid]
    /\ UNCHANGED <<tempPIDs, child, pruner>>

Launch(i, p) ==
    /\ pc[i] \in {"launch", "restore"}
    /\ Spawn(i, p)
    /\ pc' = [pc EXCEPT ![i] = IF @ = "launch" THEN "born" ELSE "reborn"]
    /\ UNCHANGED <<xrayCmd, tempPIDs, pruner>>

LaunchFails(i) ==
    /\ pc[i] \in {"launch", "restore"}
    /\ pc' = [pc EXCEPT ![i] = IF @ = "launch" THEN "restore" ELSE "idle"]
    /\ UNCHANGED <<proc, xrayCmd, tempPIDs, child, pruner>>

\* What tryRestoreLocked has started stays, proven or not.
Store(i) ==
    /\ pc[i] \in {"born", "reborn"}
    /\ xrayCmd' = [xrayCmd EXCEPT ![i] = child[i]]
    /\ child' = [child EXCEPT ![i] = NoPid]
    /\ pc' = [pc EXCEPT ![i] = IF @ = "born" THEN "bind" ELSE "idle"]
    /\ UNCHANGED <<proc, tempPIDs, pruner>>

Adopt(i) ==
    /\ pc[i] = "bind"
    /\ pc' = [pc EXCEPT ![i] = "idle"]
    /\ UNCHANGED <<proc, xrayCmd, tempPIDs, child, pruner>>

Reject(i) ==
    /\ pc[i] = "bind"
    /\ pc' = [pc EXCEPT ![i] = "restore"]
    /\ proc' = Gone(xrayCmd[i])
    /\ xrayCmd' = [xrayCmd EXCEPT ![i] = NoPid]
    /\ UNCHANGED <<tempPIDs, child, pruner>>

SwapStep(i) ==
    \/ \E p \in Pids : Launch(i, p)
    \/ LaunchFails(i) \/ Store(i) \/ Adopt(i) \/ Reject(i)

-------------------------------------------------------------------------------
\* A probe on a throwaway port (probeTempPort).

ProbeLaunch(t, p) ==
    /\ pc[t] = "idle"
    /\ Spawn(t, p)
    /\ pc' = [pc EXCEPT ![t] = "born"]
    /\ UNCHANGED <<xrayCmd, tempPIDs, pruner>>

TrackTemp(t) ==
    /\ pc[t] = "born"
    /\ tempPIDs' = [tempPIDs EXCEPT ![Home[t]] = @ \cup {child[t]}]
    /\ pc' = [pc EXCEPT ![t] = "probe"]
    /\ UNCHANGED <<proc, xrayCmd, child, pruner>>

ProbeStop(t) ==
    /\ pc[t] = "probe"
    /\ proc' = Gone(child[t])
    /\ pc' = [pc EXCEPT ![t] = "stopped"]
    /\ UNCHANGED <<xrayCmd, tempPIDs, child, pruner>>

UntrackTemp(t) ==
    /\ pc[t] = "stopped"
    /\ tempPIDs' = [tempPIDs EXCEPT ![Home[t]] = @ \ {child[t]}]
    /\ child' = [child EXCEPT ![t] = NoPid]
    /\ pc' = [pc EXCEPT ![t] = "idle"]
    /\ UNCHANGED <<proc, xrayCmd, pruner>>

Probe(t) ==
    \/ \E p \in Pids : ProbeLaunch(t, p)
    \/ TrackTemp(t) \/ ProbeStop(t) \/ UntrackTemp(t)

-------------------------------------------------------------------------------
\* pruneOrphanXray, at the end of every health tick.

\* listXrayPIDs. A zombie has no command line.
Managed == {p \in Pids : proc[p] = "runs"}

Scan ==
    /\ prune = "idle"
    /\ Managed # {}
    /\ found' = Managed
    /\ keep' = {}
    /\ at' = 1
    /\ prune' = "cmd1"
    /\ UNCHANGED <<proc, launchers>>

\* managedPIDs: currentPID takes the mutex of the instance, ...
ReadCmd ==
    /\ prune \in {"cmd1", "cmd2"}
    /\ Unlocked(at)
    /\ keep' = keep \cup ({xrayCmd[at]} \ {NoPid})
    /\ prune' = IF prune = "cmd1" THEN "temp1" ELSE "temp2"
    /\ UNCHANGED <<proc, launchers, at, found>>

\* ... tempPIDSnapshot that of the set alone; after the last instance the victims
\* are what was found and is not kept.
ReadTemp ==
    /\ keep' = keep \cup tempPIDs[at]
    /\ IF at < N
       THEN /\ at' = at + 1
            /\ prune' = IF prune = "temp1" THEN "cmd1" ELSE "cmd2"
            /\ UNCHANGED found
       ELSE /\ at' = 1
            /\ prune' = IF prune = "temp1" THEN "grace" ELSE "kill"
            /\ found' = found \ keep'

ReadTemps ==
    /\ prune \in {"temp1", "temp2"}
    /\ ReadTemp
    /\ UNCHANGED <<proc, launchers>>

NoVictim ==
    /\ prune \in {"grace", "kill"}
    /\ found = {}
    /\ prune' = "idle"
    /\ UNCHANGED <<proc, launchers, at, found, keep>>

\* The grace is longer than xrayCrashDetect, for which a child is unregistered.
GraceOver == prune' = "cmd2" /\ keep' = {} /\ UNCHANGED at

Grace ==
    /\ prune = "grace"
    /\ found # {}
    /\ \A t \in Threads : pc[t] \in {"born", "reborn"} => child[t] \notin found
    /\ GraceOver
    /\ UNCHANGED <<proc, launchers, found>>

\* The last look at the command line, and killGroup.
Kill(p) ==
    /\ prune = "kill"
    /\ p \in found
    /\ found' = found \ {p}
    /\ proc' = IF p \in Managed THEN Dies(p) ELSE proc
    /\ UNCHANGED <<launchers, prune, at, keep>>

Prune ==
    \/ Scan \/ ReadCmd \/ ReadTemps \/ NoVictim \/ Grace
    \/ \E p \in Pids : Kill(p)

-------------------------------------------------------------------------------
Next ==
    \/ \E p \in Pids : ChildExits(p)
    \/ \E i \in Instances : Swap(i) \/ SwapStep(i)
    \/ \E t \in Probers : Probe(t)
    \/ Prune

Spec == Init /\ [][Next]_vars

\* The health loop ticks for ever, a swap comes to its end (every wait in it has a
\* limit), a child is registered after xrayCrashDetect, and a sync.Mutex that is
\* free again and again is not kept from a waiter for ever.
FairSpec ==
    /\ Spec
    /\ SF_vars(Prune)
    /\ \A i \in Instances : WF_vars(SwapStep(i))
    /\ \A t \in Probers : WF_vars(TrackTemp(t))

-------------------------------------------------------------------------------
\* Properties.

\* A child belongs to the instance that registered it, or to the swap or the probe
\* that has it in its hands.
Owned(p) ==
    \/ \E i \in Instances : xrayCmd[i] = p
    \/ \E t \in Threads : child[t] = p

\* No swap and no probe loses its child to the prune, in whatever order launches,
\* registrations and the two readings of them fall ("so a child spawned by a racing
\* switch/refresh between scan and kill is never harmed", watchdog.go:11-12).
OwnedIsSpared ==
    [][ \A p \in Pids : Kill(p) /\ proc'[p] # proc[p] => ~Owned(p) ]_vars

\* What an earlier life of the daemon has left behind is killed in the end, however
\* busy the instances are (pruneOrphanXray).
OrphansDie == \A p \in Orphans : <>(proc[p] = "gone")
===============================================================================
