-------------------------------- MODULE Rotation --------------------------------
(***************************************************************************)
(* May a refresh rotate a slow instance? A rotation stops the child that   *)
(* serves, which cuts every client on its port, so reconcileActive         *)
(* (v2proxy/manager.go) asks first: have bytes flowed lately, is a client  *)
(* connected, is the latency fresh, is it slow? Then it probes candidates  *)
(* for seconds, and switches.                                              *)
(*                                                                         *)
(* One instance, its health loop with the race of Probe, the refreshes     *)
(* that reconcile it, its clients and the kernel's tables. A direct client *)
(* dials the port of the child; a bridged one comes through the bridge or  *)
(* a stable endpoint, whose connection to the child is the daemon's own.   *)
(*                                                                         *)
(* Time is the ages of things, in ticks of the health loop; an age stops   *)
(* at the limit it is compared with, beyond which nobody tells it apart.   *)
(* A swap leaves a child on the port: Failover models the one that does    *)
(* not, and which upstream it is.                                          *)
(***************************************************************************)
EXTENDS Integers, Probe

CONSTANTS
    Refreshers,     \* goroutines in RefreshSubscriptions
    Direct,         \* clients that dial the SOCKS port themselves
    Bridged,        \* clients behind the bridge or a stable endpoint
    Prober,         \* the connection of HealthCheck's probe
    FailThreshold,  \* healthFailThreshold
    EgressGrace,    \* egressGrace
    MaxAge,         \* rotateLatencyMaxAge
    UnprovenGrace   \* servingSocketUnprovenGrace

ASSUME RotationAssumption ==
    /\ Direct \cap Bridged = {}
    /\ Prober \notin Direct \cup Bridged
    /\ FailThreshold \in Nat \ {0}
    /\ EgressGrace \in Nat \ {0}
    /\ MaxAge \in Nat
    /\ UnprovenGrace \in Nat \ {0}

VARIABLES
    \* The instance: ProxySelector and its entry in egressNotes.
    fails,      \* failCount
    lat,        \* lastLatency, against rotateSlowLatency
    measured,   \* the age of lastProbe
    noted,      \* the age of the last bytes in the ledger
    unproven,   \* the age of servingUnproven; Never is its zero value
    \* The goroutines.
    health,     \* where the health loop stands
    due,        \* its ticker has fired
    pc,         \* where a refresh stands
    own,        \* the daemon's sockets that procOwnInodes has found
    seen,       \* what the scan of a refresh has found
    \* The world.
    open,       \* the clients that are connected
    blind,      \* /proc cannot be read
    \* History: no program reads these.
    childAge,   \* the age of the child on the port
    late        \* the direct clients that have come since the scan of a refresh

instVars == <<fails, lat, measured, noted, unproven>>
jobVars == <<pc, own, seen>>
worldVars == <<open, blind>>
vars == <<raceVars, instVars, health, due, jobVars, worldVars, childAge, late>>

Never == -1
Clients == Direct \cup Bridged
Places == {"idle", "own", "tables", "judge", "fresh", "slow", "probe", "switch"}
Evidence == {"empty", "occupied", "unknown"}

\* An age, one tick later, that nobody compares with more than limit.
Older(age, limit) == IF age = Never \/ age = limit THEN age ELSE age + 1

TypeOK ==
    /\ RaceTypeOK
    /\ fails \in 0..FailThreshold
    /\ lat \in {"fast", "slow"}
    /\ measured \in 0..MaxAge + 1
    /\ noted \in 0..EgressGrace
    /\ unproven \in {Never} \cup 0..UnprovenGrace
    /\ health \in {"idle", "probing", "switch"}
    /\ due \in BOOLEAN
    /\ pc \in [Refreshers -> Places]
    /\ own \in [Refreshers -> SUBSET (Bridged \cup {Prober})]
    /\ seen \in [Refreshers -> Evidence]
    /\ open \subseteq Clients
    /\ blind \in BOOLEAN
    /\ childAge \in 0..UnprovenGrace
    /\ late \in [Refreshers -> SUBSET Direct]

\* Startup has just adopted an upstream.
Init ==
    /\ RaceInit
    /\ fails = 0
    /\ lat \in {"fast", "slow"}
    /\ measured = 0
    /\ noted = EgressGrace
    /\ unproven = Never
    /\ health = "idle"
    /\ due = FALSE
    /\ pc = [r \in Refreshers |-> "idle"]
    /\ own = [r \in Refreshers |-> {}]
    /\ seen = [r \in Refreshers |-> "unknown"]
    /\ open = {}
    /\ blind = FALSE
    /\ childAge = 0
    /\ late = [r \in Refreshers |-> {}]

-------------------------------------------------------------------------------
Goto(r, place) == pc' = [pc EXCEPT ![r] = place]

\* s.mu: HealthCheck holds it for the whole race.
Unlocked == health # "probing"

\* ServingTraffic
ServingTraffic == noted < EgressGrace

\* LatencyFresh
LatencyFresh == measured <= MaxAge

\* Mutated: the clock of the blind scans goes on.
SwapKeepsClock ==
    /\ open' = {}
    /\ fails' = 0
    /\ childAge' = 0
    /\ UNCHANGED unproven

\* A swap: the child is stopped, which cuts its clients, and another started, the
\* winner's or that of the old config. startXray clears servingUnproven.
Swap ==
    /\ open' = {}
    /\ fails' = 0
    /\ childAge' = 0
    /\ unproven' = Never

\* The latency that goes with it: that of the winner's probe, or the old one, if
\* the old config was restored.
NewLatency ==
    \/ lat' \in {"fast", "slow"} /\ measured' = 0
    \/ UNCHANGED <<lat, measured>>

-------------------------------------------------------------------------------
\* HealthCheck.

\* Bytes have flowed: no probe, and the strikes are forgotten. The latency is not
\* measured.
CheckVouched ==
    /\ health = "idle" /\ due
    /\ ServingTraffic
    /\ due' = FALSE
    /\ fails' = 0
    /\ UNCHANGED <<raceVars, lat, measured, noted, unproven, health, jobVars, worldVars,
                   childAge, late>>

CheckBegins ==
    /\ health = "idle" /\ due
    /\ ~ServingTraffic
    /\ due' = FALSE
    /\ Launch
    /\ health' = "probing"
    /\ UNCHANGED <<instVars, jobVars, worldVars, childAge, late>>

LegAnswers ==
    /\ health = "probing"
    /\ \E l \in Legs, a \in Answers : Answer(l, a)
    /\ UNCHANGED <<instVars, health, due, jobVars, worldVars, childAge, late>>

\* Mutated: only what is accepted dates the latency.
CheckEndsUndated ==
    /\ health = "probing"
    /\ verdict # None
    /\ lat' \in {"fast", "slow"}
    /\ measured' = IF verdict = "adopt" THEN 0 ELSE measured
    /\ fails' = IF verdict = "adopt" THEN 0
                ELSE IF verdict = "reject" /\ fails < FailThreshold THEN fails + 1 ELSE fails
    /\ health' = IF verdict = "reject" /\ fails + 1 >= FailThreshold THEN "switch" ELSE "idle"
    /\ Launch
    /\ UNCHANGED <<noted, unproven, due, jobVars, worldVars, childAge, late>>

\* The verdict. Its latency is kept, whatever it is.
CheckEnds ==
    /\ health = "probing"
    /\ verdict # None
    /\ lat' \in {"fast", "slow"}
    /\ measured' = 0
    /\ fails' = IF verdict = "adopt" THEN 0
                ELSE IF verdict = "reject" /\ fails < FailThreshold THEN fails + 1 ELSE fails
    /\ health' = IF verdict = "reject" /\ fails + 1 >= FailThreshold THEN "switch" ELSE "idle"
    /\ Launch
    /\ UNCHANGED <<noted, unproven, due, jobVars, worldVars, childAge, late>>

\* The switch of a failing instance, with and without a winner. It asks nobody:
\* the clients of a dead upstream are cut.
FailOver ==
    /\ health = "switch"
    /\ Swap
    /\ NewLatency
    /\ health' = "idle"
    /\ UNCHANGED <<raceVars, noted, due, jobVars, blind, late>>

NoFailOver ==
    /\ health = "switch"
    /\ health' = "idle"
    /\ UNCHANGED <<raceVars, instVars, due, jobVars, worldVars, childAge, late>>

-------------------------------------------------------------------------------
\* reconcileActive, of an instance whose active config is in the new pool.

Reset(r) ==
    /\ Goto(r, "idle")
    /\ own' = [own EXCEPT ![r] = {}]
    /\ seen' = [seen EXCEPT ![r] = "unknown"]
    /\ late' = [late EXCEPT ![r] = {}]

\* The guard. Bytes short-circuit it: the sockets are not looked at, and nothing changes.
Quiet(r) ==
    /\ pc[r] = "idle"
    /\ Unlocked
    /\ ~ServingTraffic
    /\ Goto(r, "own")
    /\ UNCHANGED <<raceVars, instVars, health, due, own, seen, worldVars, childAge, late>>

\* The connections to the port that the daemon has an end of.
OwnSockets == (open \cap Bridged) \cup (IF health = "probing" THEN {Prober} ELSE {})

\* procOwnInodes
ReadOwn(r) ==
    /\ pc[r] = "own"
    /\ IF ~blind
       THEN /\ own' = [own EXCEPT ![r] = OwnSockets]
            /\ Goto(r, "tables")
            /\ UNCHANGED seen
       ELSE /\ seen' = [seen EXCEPT ![r] = "unknown"]
            /\ Goto(r, "judge")
            /\ UNCHANGED own
    /\ UNCHANGED <<raceVars, instVars, health, due, worldVars, childAge, late>>

\* foreignEstablished: the connections neither end of which is known as the daemon's.
\* One that the daemon has opened since ReadOwn counts.
Foreign(r) == (open \cap Direct) \cup (OwnSockets \ own[r])

\* Mutated: an unreadable table is an empty one.
BlindIsEmpty(r) ==
    /\ pc[r] = "tables"
    /\ seen' = [seen EXCEPT ![r] = IF blind \/ Foreign(r) = {} THEN "empty"
                                   ELSE "occupied"]
    /\ Goto(r, "judge")
    /\ own' = [own EXCEPT ![r] = {}]
    /\ late' = [late EXCEPT ![r] = {}]
    /\ UNCHANGED <<raceVars, instVars, health, due, worldVars, childAge>>

\* The tables of procSocketEvidence, one after the other, in one step.
ReadTables(r) ==
    /\ pc[r] = "tables"
    /\ seen' = [seen EXCEPT ![r] = IF blind THEN "unknown"
                                   ELSE IF Foreign(r) = {} THEN "empty" ELSE "occupied"]
    /\ Goto(r, "judge")
    /\ own' = [own EXCEPT ![r] = {}]
    /\ late' = [late EXCEPT ![r] = {}]
    /\ UNCHANGED <<raceVars, instVars, health, due, worldVars, childAge>>

\* servingClients, under servingMu: somebody is there.
Occupied(r) ==
    /\ pc[r] = "judge"
    /\ seen[r] = "occupied"
    /\ unproven' = Never
    /\ Reset(r)
    /\ UNCHANGED <<raceVars, fails, lat, measured, noted, health, due, worldVars, childAge>>

\* Nobody is.
Empty(r) ==
    /\ pc[r] = "judge"
    /\ seen[r] = "empty"
    /\ unproven' = Never
    /\ Goto(r, "fresh")
    /\ UNCHANGED <<raceVars, fails, lat, measured, noted, health, due, own, seen, worldVars,
                   childAge, late>>

\* It cannot be known, and has not been for less than the grace.
Unknown(r) ==
    /\ pc[r] = "judge"
    /\ seen[r] = "unknown"
    /\ unproven < UnprovenGrace
    /\ unproven' = IF unproven = Never THEN 0 ELSE unproven
    /\ Reset(r)
    /\ UNCHANGED <<raceVars, fails, lat, measured, noted, health, due, worldVars, childAge>>

\* The guard expires.
Expired(r) ==
    /\ pc[r] = "judge"
    /\ seen[r] = "unknown"
    /\ unproven >= UnprovenGrace
    /\ Goto(r, "fresh")
    /\ UNCHANGED <<raceVars, instVars, health, due, own, seen, worldVars, childAge, late>>

\* LatencyFresh and LastLatency take s.mu, one after the other.
CheckFresh(r) ==
    /\ pc[r] = "fresh"
    /\ Unlocked
    /\ IF LatencyFresh
       THEN Goto(r, "slow") /\ UNCHANGED <<own, seen, late>>
       ELSE Reset(r)
    /\ UNCHANGED <<raceVars, instVars, health, due, worldVars, childAge>>

CheckSlow(r) ==
    /\ pc[r] = "slow"
    /\ Unlocked
    /\ IF lat = "slow"
       THEN Goto(r, "probe") /\ UNCHANGED <<own, seen, late>>
       ELSE Reset(r)
    /\ UNCHANGED <<raceVars, instVars, health, due, worldVars, childAge>>

\* A candidate works and is decisively faster; or none of rotateMaxCandidates is
\* within rotateBudget.
CandidateWins(r) ==
    /\ pc[r] = "probe"
    /\ Unlocked
    /\ Goto(r, "switch")
    /\ UNCHANGED <<raceVars, instVars, health, due, own, seen, worldVars, childAge, late>>

NoCandidate(r) ==
    /\ pc[r] = "probe"
    /\ Unlocked
    /\ Reset(r)
    /\ UNCHANGED <<raceVars, instVars, health, due, worldVars, childAge>>

\* SwitchToNextExcluding with that candidate alone: it proves itself again on a port
\* of its own and the swap follows, or it does not.
Rotate(r) ==
    /\ pc[r] = "switch"
    /\ Unlocked
    /\ Swap
    /\ NewLatency
    /\ Reset(r)
    /\ UNCHANGED <<raceVars, noted, health, due, blind>>

NoSwitch(r) ==
    /\ pc[r] = "switch"
    /\ Unlocked
    /\ Reset(r)
    /\ UNCHANGED <<raceVars, instVars, health, due, worldVars, childAge>>

-------------------------------------------------------------------------------
\* The world.

Connect(c) ==
    /\ c \in Clients \ open
    /\ open' = open \cup {c}
    /\ late' = [r \in Refreshers |-> IF pc[r] \in {"idle", "own", "tables"} THEN late[r]
                                     ELSE late[r] \cup ({c} \cap Direct)]
    /\ UNCHANGED <<raceVars, instVars, health, due, jobVars, blind, childAge>>

Leave(c) ==
    /\ c \in open
    /\ open' = open \ {c}
    /\ UNCHANGED <<raceVars, instVars, health, due, jobVars, blind, childAge, late>>

\* Bytes of a bridged client pass through a relay of the daemon, which notes them.
Bytes(c) ==
    /\ c \in open \cap Bridged
    /\ noted' = 0
    /\ UNCHANGED <<raceVars, fails, lat, measured, unproven, health, due, jobVars, worldVars,
                   childAge, late>>

\* /proc, or the form of its tables, becomes unreadable, or readable again.
ProcChanges ==
    /\ blind' = ~blind
    /\ UNCHANGED <<raceVars, instVars, health, due, jobVars, open, childAge, late>>

\* An interval of the health loop is longer than a check.
Tick ==
    /\ health = "idle" /\ ~due
    /\ due' = TRUE
    /\ measured' = Older(measured, MaxAge + 1)
    /\ noted' = Older(noted, EgressGrace)
    /\ unproven' = Older(unproven, UnprovenGrace)
    /\ childAge' = Older(childAge, UnprovenGrace)
    /\ UNCHANGED <<raceVars, fails, lat, health, jobVars, worldVars, late>>

-------------------------------------------------------------------------------
HealthSteps ==
    \/ CheckVouched \/ CheckBegins \/ LegAnswers \/ CheckEnds
    \/ FailOver \/ NoFailOver

RefreshSteps(r) ==
    \/ Quiet(r)
    \/ ReadOwn(r) \/ ReadTables(r)
    \/ Occupied(r) \/ Empty(r) \/ Unknown(r) \/ Expired(r)
    \/ CheckFresh(r) \/ CheckSlow(r)
    \/ CandidateWins(r) \/ NoCandidate(r)
    \/ Rotate(r) \/ NoSwitch(r)

World ==
    \/ \E c \in Clients : Connect(c) \/ Leave(c) \/ Bytes(c)
    \/ ProcChanges
    \/ Tick

Next ==
    \/ HealthSteps
    \/ \E r \in Refreshers : RefreshSteps(r)
    \/ World

Spec == Init /\ [][Next]_vars

\* The loops run, time passes, and a mutex that is free again and again is taken
\* (sync.Mutex is handed over to one who has waited for 1 ms). Every refresh
\* shuffles the pool, so a candidate that is decisively faster comes among the
\* first rotateMaxCandidates again and again, and what works works on the serving
\* port as well.
FairSpec ==
    /\ Spec
    /\ WF_vars(HealthSteps) /\ WF_vars(Tick)
    /\ \A r \in Refreshers :
          SF_vars(RefreshSteps(r)) /\ SF_vars(CandidateWins(r)) /\ SF_vars(Rotate(r))

-------------------------------------------------------------------------------
\* Properties.

\* A client that has dialled the port itself, and was there when its sockets were
\* read, is never cut by a rotation (servingClients: "its protection must not
\* expire"), unless the tables could not be read. Candidates are probed for up to
\* 20 s in between, while clients come and go, other refreshes rotate and the
\* health loop fails over.
SeenIsSpared ==
    [][\A r \in Refreshers :
          Rotate(r) /\ seen[r] # "unknown" => open \cap Direct \subseteq late[r]]_vars

\* "One rotation attempt per bound, not an open door" (clearServingUnproven): when
\* the guard expires, the child it gives up has been there for the whole grace.
ExpiryIsEarned ==
    [][\A r \in Refreshers : Expired(r) => childAge >= UnprovenGrace]_vars

\* Blindness "is treated as busy, but only for this long" (constants.go:224-225): an
\* instance without recent bytes, that nobody has dialled or whose sockets cannot
\* be seen, and that HealthCheck goes on measuring as slow, is not left on the
\* same child for ever, unless scan after scan the daemon dials the child between
\* the two reads, so that its own socket passes for that of a client.
Rotatable ==
    /\ lat = "slow"
    /\ ~ServingTraffic
    /\ blind \/ open \cap Direct = {}
    /\ childAge = UnprovenGrace
MistakesItself ==
    \E r \in Refreshers : pc[r] = "tables" /\ ~(OwnSockets \subseteq own[r])
SlowIsLeft == <>[]Rotatable => []<>MistakesItself
===============================================================================
