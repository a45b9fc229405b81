------------------------------- MODULE Aggregate -------------------------------
(***************************************************************************)
(* The stable endpoints (v2proxy/aggregate.go): every client that connects *)
(* to one of them gets a ladder of instances, best first, and is relayed   *)
(* to the first of them that accepts. The relay endpoint does so only      *)
(* while the relay path has proved alive, which the health loop finds out  *)
(* by being a client of that endpoint (probeRelay, v2proxy/manager.go).    *)
(*                                                                         *)
(* The statuses the ladder is made from are written by the goroutines of   *)
(* Populate and Failover; here they are reports that come at any time. The *)
(* bytes of a direct client are noted in the egress ledger, whose reader   *)
(* is the health loop: see Bytes in Rotation. Time is counted in the dial  *)
(* budgets only.                                                           *)
(***************************************************************************)
EXTENDS Integers, FiniteSets, SequencesExt

CONSTANTS
    N,          \* instances
    Direct,     \* bound: connections to the SOCKS or the HTTP endpoint
    Relayed,    \* bound: connections to the relay endpoint
    Probe,      \* probeRelay, a client of the relay endpoint as well
    MinStreak,  \* aggMinStreak()
    Budget,     \* aggFailoverBudget
    Share,      \* aggCandidateDialBudget, in the same unit
    Latencies,  \* bound: the latencies a probe may measure
    MaxReports  \* bound: reports of the other goroutines

Instances == 1..N
Clients == Direct \cup Relayed \cup {Probe}

ASSUME AggregateAssumption ==
    /\ N \in Nat
    /\ Direct \cap Relayed = {}
    /\ Probe \notin Direct \cup Relayed
    /\ MinStreak \in Nat
    /\ Budget \in Nat \ {0}
    /\ Share \in 1..Budget
    /\ Latencies \subseteq Nat /\ 0 \in Latencies
    /\ MaxReports \in Nat

VARIABLES
    ok,         \* the instances whose status is "ok"
    latency,    \* LatMs
    streak,     \* OkStreak, up to MinStreak
    stage,      \* where the goroutine of a connection stands
    ladder,     \* its candidates
    at,         \* the candidate it dials, or is relayed to
    left,       \* what is left of its failover budget
    silent,     \* the candidates that swallowed its dial
    relayAlive, \* the gate of the relay endpoint
    relayUp,    \* the relay behind the instances works
    reports     \* reports so far

tableVars == <<ok, latency, streak, reports>>
walkVars == <<stage, ladder, at, left, silent>>
aggVars == <<tableVars, walkVars, relayAlive, relayUp>>

AggTypeOK ==
    /\ ok \subseteq Instances
    /\ latency \in [Instances -> Latencies]
    /\ streak \in [Instances -> 0..MinStreak]
    /\ stage \in [Clients -> {"idle", "accepted", "walk", "relay", "cut", "ended"}]
    /\ ladder \in [Clients -> Seq(Instances)]
    /\ \A c \in Clients : Len(ladder[c]) <= N
    /\ at \in [Clients -> 1..N + 1]
    /\ left \in [Clients -> 0..Budget]
    /\ silent \in [Clients -> 0..N]
    /\ relayAlive \in BOOLEAN
    /\ relayUp \in BOOLEAN
    /\ reports \in 0..MaxReports

\* main starts the endpoints before Start: nothing is alive yet.
AggInit ==
    /\ ok = {}
    /\ latency = [i \in Instances |-> 0]
    /\ streak = [i \in Instances |-> 0]
    /\ stage = [c \in Clients |-> "idle"]
    /\ ladder = [c \in Clients |-> <<>>]
    /\ at = [c \in Clients |-> 1]
    /\ left = [c \in Clients |-> 0]
    /\ silent = [c \in Clients |-> 0]
    /\ relayAlive = FALSE
    /\ relayUp \in BOOLEAN
    /\ reports = 0

-----------------------------------------------------------------------------
(* The ladder.                                                             *)

\* GetAliveStatuses: by latency. The sort is not stable, so equal latencies come
\* in any order.
AliveStatuses ==
    {s \in SetToSeqs(ok) : \A j, k \in 1..Len(s) : j < k => latency[s[j]] <= latency[s[k]]}

Qualifies(i) == streak[i] >= MinStreak

\* Mutated: the rest before the qualified.
BeforeRestFirst(alive, j, k) ==
    \/ ~Qualifies(alive[j]) /\ Qualifies(alive[k])
    \/ (Qualifies(alive[j]) <=> Qualifies(alive[k])) /\ j < k

\* Mutated: each of the rest goes to the front of the rest.
BeforeReversesRest(alive, j, k) ==
    \/ Qualifies(alive[j]) /\ (Qualifies(alive[k]) => j < k)
    \/ ~Qualifies(alive[j]) /\ ~Qualifies(alive[k]) /\ k < j

\* The loop of orderedAlive appends the qualified to one list and the rest to
\* another, each in the order of `alive`.
Before(alive, j, k) ==
    \/ Qualifies(alive[j]) /\ ~Qualifies(alive[k])
    \/ (Qualifies(alive[j]) <=> Qualifies(alive[k])) /\ j < k

\* The place of alive[k] in the ladder: after all that are before it.
Place(alive, k) == Cardinality({j \in 1..Len(alive) : Before(alive, j, k)}) + 1

\* orderedAlive: the qualified first, the rest as a last resort, and no partition
\* at all if the gate is off (MinStreak = 0) or nobody qualifies: every place then
\* is that of `alive` itself.
OrderedAlive(alive) ==
    [n \in 1..Len(alive) |-> alive[CHOOSE k \in 1..Len(alive) : Place(alive, k) = n]]

\* pickBestBackend: the fastest, or the fastest that qualifies.
PickBest(alive) ==
    LET qualified == {j \in 1..Len(alive) : Qualifies(alive[j])}
    IN  IF MinStreak > 0 /\ qualified # {}
        THEN alive[CHOOSE j \in qualified : \A k \in qualified : j <= k]
        ELSE alive[1]

-----------------------------------------------------------------------------
(* The statuses, as other goroutines report them.                          *)

\* markOK: a good check adds to the streak, a new upstream or a failed check that
\* is below the threshold starts it again.
MarkOK(i) ==
    /\ reports < MaxReports
    /\ reports' = reports + 1
    /\ ok' = ok \cup {i}
    /\ \E l \in Latencies : latency' = [latency EXCEPT ![i] = l]
    /\ \E n \in {0, streak[i] + 1} :
          streak' = [streak EXCEPT ![i] = IF n > MinStreak THEN MinStreak ELSE n]
    /\ UNCHANGED <<walkVars, relayAlive, relayUp>>

\* markDown: nothing but the status.
MarkDown(i) ==
    /\ reports < MaxReports
    /\ i \in ok
    /\ reports' = reports + 1
    /\ ok' = ok \ {i}
    /\ UNCHANGED <<latency, streak, walkVars, relayAlive, relayUp>>

-----------------------------------------------------------------------------
(* A connection.                                                           *)

Enter(c, place) == stage' = [stage EXCEPT ![c] = place]

Accept(c) ==
    /\ stage[c] = "idle"
    /\ Enter(c, "accepted")
    /\ UNCHANGED <<tableVars, ladder, at, left, silent, relayAlive, relayUp>>

\* The candidates of a connection: every instance has its ports. A dark relay
\* (handleRelayConn's gate) has none.
Candidates(c, alive) ==
    IF c \notin Direct /\ ~relayAlive THEN <<>> ELSE OrderedAlive(alive)

\* The ladder is looked up once. If it is empty the client is cut at once.
Serve(c) ==
    /\ stage[c] = "accepted"
    /\ \E alive \in AliveStatuses :
          LET cands == Candidates(c, alive)
          IN  /\ ladder' = [ladder EXCEPT ![c] = cands]
              /\ Enter(c, IF cands = <<>> THEN "cut" ELSE "walk")
    /\ at' = [at EXCEPT ![c] = 1]
    /\ left' = [left EXCEPT ![c] = Budget]
    /\ silent' = [silent EXCEPT ![c] = 0]
    /\ UNCHANGED <<tableVars, relayAlive, relayUp>>

CanDial(c) == stage[c] = "walk" /\ at[c] <= Len(ladder[c]) /\ left[c] > 0

\* The candidate accepts: the connection is handed to two relays.
DialAccepts(c) ==
    /\ CanDial(c)
    /\ Enter(c, "relay")
    /\ UNCHANGED <<tableVars, ladder, at, left, silent, relayAlive, relayUp>>

\* Its port is closed, which the dial learns at once.
DialRefused(c) ==
    /\ CanDial(c)
    /\ at' = [at EXCEPT ![c] = @ + 1]
    /\ UNCHANGED <<tableVars, stage, ladder, left, silent, relayAlive, relayUp>>

\* Mutated: one dial may take all that is left.
DialSpend(c) == left[c]
\* `budget`: a share of what is left, never all of it.
DialBudget(c) == IF left[c] > Share THEN Share ELSE left[c]

\* Nobody answers until the candidate's share of the budget is spent.
DialSilent(c) ==
    /\ CanDial(c)
    /\ at' = [at EXCEPT ![c] = @ + 1]
    /\ left' = [left EXCEPT ![c] = @ - DialBudget(c)]
    /\ silent' = [silent EXCEPT ![c] = @ + 1]
    /\ UNCHANGED <<tableVars, stage, ladder, relayAlive, relayUp>>

\* Mutated: the end of the ladder cuts only when the budget is spent, too.
CutWaits(c) ==
    /\ stage[c] = "walk"
    /\ at[c] > Len(ladder[c])
    /\ left[c] = 0
    /\ Enter(c, "cut")
    /\ UNCHANGED <<tableVars, ladder, at, left, silent, relayAlive, relayUp>>

\* The ladder, or the budget, is exhausted.
Cut(c) ==
    /\ stage[c] = "walk"
    /\ at[c] > Len(ladder[c]) \/ left[c] = 0
    /\ Enter(c, "cut")
    /\ UNCHANGED <<tableVars, ladder, at, left, silent, relayAlive, relayUp>>

\* The relays end, both of them (Bridge, TunnelsCloseTogether).
End(c) ==
    /\ stage[c] = "relay"
    /\ c # Probe
    /\ Enter(c, "ended")
    /\ UNCHANGED <<tableVars, ladder, at, left, silent, relayAlive, relayUp>>

-----------------------------------------------------------------------------
(* probeRelay, at the end of every HealthCheckAll: Accept and Serve above  *)
(* are its connection.                                                     *)

\* The probe has its answer: it works if it came through an instance and the
\* relay is up. It may also run into its own timeout first.
ProbeEnds ==
    /\ stage[Probe] # "idle"
    /\ relayAlive' = (stage[Probe] = "relay" /\ relayUp)
    /\ Enter(Probe, "idle")
    /\ UNCHANGED <<tableVars, ladder, at, left, silent, relayUp>>

RelayFlips ==
    /\ relayUp' = ~relayUp
    /\ UNCHANGED <<tableVars, walkVars, relayAlive>>

-----------------------------------------------------------------------------

Walk(c) == Serve(c) \/ DialAccepts(c) \/ DialRefused(c) \/ DialSilent(c) \/ Cut(c)

AggNext ==
    \/ \E i \in Instances : MarkOK(i) \/ MarkDown(i)
    \/ \E c \in Clients : Accept(c) \/ Walk(c) \/ End(c)
    \/ ProbeEnds
    \/ RelayFlips

AggSpec == AggInit /\ [][AggNext]_aggVars

\* Fair: every connection's goroutine, whose dials have a timer, and the health
\* loop, which probes every tick and has a timer on its probe.
AggFairness ==
    /\ \A c \in Clients : WF_aggVars(Walk(c))
    /\ WF_aggVars(stage[Probe] \in {"relay", "cut"} /\ ProbeEnds)

AggFairSpec == AggSpec /\ AggFairness /\ WF_aggVars(Accept(Probe))

-----------------------------------------------------------------------------
(* Properties.                                                             *)

\* The ladder is whole and in tiers: whoever is alive has one place in it, the
\* qualified come first, and the faster first in each tier (orderedAlive: "this
\* partition preserves fastest first inside each tier").
LadderIsTiered ==
    \A alive \in AliveStatuses :
        LET s == OrderedAlive(alive)
        IN  /\ s \in SetToSeqs(ok)
            /\ \A j, k \in 1..Len(s) : j < k =>
                  /\ Qualifies(s[k]) => Qualifies(s[j])
                  /\ (Qualifies(s[j]) <=> Qualifies(s[k])) => latency[s[j]] <= latency[s[k]]

\* Failover does not change which instance a client lands on while the head of its
\* ladder accepts: it is pickBestBackend's (aggregateCandidates: "the head is
\* exactly that function's answer in every AGG_MIN_STREAK regime").
HeadIsBest ==
    \A alive \in AliveStatuses : alive # <<>> => OrderedAlive(alive)[1] = PickBest(alive)

\* One candidate that swallows the dial does not starve the others: a client is cut
\* before the end of its ladder only by as many silent ones as the budget has
\* shares (serveCandidates, aggCandidateDialBudget).
SilenceIsShared ==
    \A c \in Clients :
        stage[c] = "cut" /\ at[c] <= Len(ladder[c]) => silent[c] * Share >= Budget

\* Every client is relayed or cut: no ladder keeps it waiting.
ClientsAreSettled == \A c \in Clients \ {Probe} : stage[c] = "accepted" ~> stage[c] \in {"relay", "cut"}

=============================================================================
