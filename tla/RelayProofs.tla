----------------------------- MODULE RelayProofs ------------------------------
(***************************************************************************)
(* Theorems about the two places where clients meet the instances.         *)
(*                                                                         *)
(* Bridge, for any requests and any MAX_CONNS: handlers are bounded and no *)
(* connection to a target is left behind. The bound is a matter of         *)
(* accounting: a token that is not in connSem is held by a request         *)
(* (Accounting), and who is busy holds one. That the handler and the relay *)
(* pair both release does no harm, because the pair of a tunnel starts in  *)
(* the very step in which its handler is done.                             *)
(*                                                                         *)
(* Aggregate, for any instances, clients, latencies and budgets: a ladder  *)
(* is made by counting who comes before whom, so that it is whole is the   *)
(* pigeonhole principle (PlaceIsTaken); that silence is shared rests on an *)
(* invariant of the walk in which every silent candidate has cost a whole  *)
(* share, but the last (SpentInShares).                                    *)
(***************************************************************************)
EXTENDS Bridge, Aggregate, FiniteSetTheorems, TLAPS

\* Every token is in connSem or with one request.
Accounting ==
    /\ IsFiniteSet(holding)
    /\ slots + Cardinality(holding) = MaxConns

\* Who is busy holds a slot, and who has not had one yet does not.
BusyHolds ==
    \A r \in Requests :
        /\ pc[r] \notin {"idle", "slot", "return", "gone"} => r \in holding
        /\ pc[r] \in {"idle", "slot"} => r \notin holding

\* A pair works for a request whose handler is done with it.
PairsAreSpliced == \A r \in pair : pc[r] \in {"return", "gone"}

\* A dial begins with a slot; its answer waits for somebody, the handler or the
\* goroutine it left behind; and an error is no connection.
DialsAreAwaited ==
    \A r \in Requests :
        /\ pc[r] \in {"idle", "slot"} => dial[r] = "none"
        /\ dial[r] \in {"running", "conn", "err"} => pc[r] = "dial" \/ r \in reaping
        /\ dial[r] \in {"none", "running", "err"} => dest[r] # "open"

BridgeTyped == TypeOK /\ Accounting /\ BusyHolds /\ PairsAreSpliced

BridgeInv == BridgeTyped /\ DialsAreAwaited /\ NothingLeaks

-------------------------------------------------------------------------------
\* A slot that is released, once or a second time, leaves the account balanced.
LEMMA ReleaseBalances ==
    ASSUME TypeOK, Accounting, NEW r \in Requests, Release(r)
    PROVE  /\ Accounting'
           /\ slots' \in 0..MaxConns
           /\ holding' \subseteq holding
<1>1. /\ IsFiniteSet(holding \ {r})
      /\ Cardinality(holding \ {r}) =
            IF r \in holding THEN Cardinality(holding) - 1 ELSE Cardinality(holding)
  BY FS_RemoveElement DEF Accounting
<1>2. Cardinality(holding) \in Nat /\ Cardinality(holding \ {r}) \in Nat
  BY <1>1, FS_CardinalityType DEF Accounting
<1>3. QED
  BY <1>1, <1>2, BridgeAssumption DEF Release, Accounting, TypeOK

LEMMA AcquireBalances ==
    ASSUME BridgeTyped, NEW r \in Requests, Acquire(r)
    PROVE  Accounting' /\ slots' \in 0..MaxConns
<1>1. r \notin holding
  BY DEF BridgeTyped, BusyHolds, Acquire
<1>2. /\ IsFiniteSet(holding \cup {r})
      /\ Cardinality(holding \cup {r}) = Cardinality(holding) + 1
  BY <1>1, FS_AddElement DEF BridgeTyped, Accounting
<1>3. Cardinality(holding) \in Nat
  BY FS_CardinalityType DEF BridgeTyped, Accounting
<1>4. QED
  BY <1>2, <1>3, BridgeAssumption DEF Acquire, BridgeTyped, Accounting, TypeOK

-------------------------------------------------------------------------------
LEMMA InitBridgeInv == Init => BridgeInv
<1>1. Init => Accounting
  BY FS_EmptySet, BridgeAssumption DEF Init, Accounting
<1>2. Init => TypeOK
  <2>1. MaxConns \in 0..MaxConns
    BY BridgeAssumption
  <2>2. {} \in SUBSET Directions
    OBVIOUS
  <2>3. Init => /\ pc \in [Requests -> Places]
                /\ dial \in [Requests -> {"none", "running", "conn", "err", "taken"}]
    BY DEF Init, Places
  <2>4. Init => /\ dest \in [Requests -> {"none", "open", "closed"}]
                /\ client \in [Requests -> {"server", "open", "closed"}]
                /\ dirs \in [Requests -> SUBSET Directions]
    BY <2>2 DEF Init
  <2>5. QED
    BY <2>1, <2>3, <2>4 DEF Init, TypeOK
<1>3. Init => BusyHolds /\ PairsAreSpliced /\ DialsAreAwaited /\ NothingLeaks
  BY DEF Init, BusyHolds, PairsAreSpliced, DialsAreAwaited, NothingLeaks
<1>4. QED
  BY <1>1, <1>2, <1>3 DEF BridgeInv, BridgeTyped

\* The steps of a handler.
LEMMA HandleBridgeInv ==
    ASSUME BridgeInv, NEW r \in Requests, Handle(r)
    PROVE  BridgeInv'
<1> USE DEF BridgeInv, BridgeTyped, TypeOK, BusyHolds, PairsAreSpliced, DialsAreAwaited,
            NothingLeaks, Kinds, Places, Directions, GoTo, CloseDest, tunnelVars
<1>1. CASE Acquire(r)
  <2>1. Accounting' /\ slots' \in 0..MaxConns
    BY <1>1, AcquireBalances
  <2>2. TypeOK'
    BY <1>1, <2>1 DEF Acquire
  <2>3. BusyHolds' /\ PairsAreSpliced'
    BY <1>1 DEF Acquire
  <2>4. DialsAreAwaited' /\ NothingLeaks'
    BY <1>1 DEF Acquire
  <2>5. QED
    BY <2>1, <2>2, <2>3, <2>4
<1>2. CASE TurnAway(r)
  BY <1>2 DEF TurnAway, Accounting
<1>3. CASE TakeDial(r)
  <2>1. CASE dial[r] = "err"
    BY <1>3, <2>1 DEF TakeDial, Accounting
  <2>2. CASE dial[r] = "conn"
    <3>1. pc' = [pc EXCEPT ![r] = IF kind[r] = "plain" THEN "send" ELSE "hijack"]
      BY <1>3, <2>2 DEF TakeDial
    <3>2. QED
      BY <1>3, <2>2, <3>1 DEF TakeDial, Accounting
  <2>3. QED
    BY <1>3, <2>1, <2>2 DEF TakeDial
<1>4. CASE DialTimeout(r)
  BY <1>4 DEF DialTimeout, Abandon, Accounting
<1>5. CASE Return(r)
  <2>1. Accounting' /\ slots' \in 0..MaxConns /\ holding' \subseteq holding
    BY <1>5, ReleaseBalances DEF Return
  <2>2. QED
    BY <1>5, <2>1 DEF Return, Release
<1>6. CASE ReadHead(r)
  <2>1. CASE GoTo(r, "body") /\ noted' = TRUE
    BY <1>6, <2>1 DEF ReadHead, Accounting
  <2>2. CASE GoTo(r, "close") /\ UNCHANGED noted
    BY <1>6, <2>2 DEF ReadHead, Accounting
  <2>3. QED
    BY <1>6, <2>1, <2>2 DEF ReadHead
<1>7. CASE Close(r)
  BY <1>7 DEF Close, Accounting
<1>8. CASE Hijack(r)
  BY <1>8 DEF Hijack, Accounting
<1>9. CASE Splice(r)
  BY <1>9 DEF Splice, Accounting
<1>10. CASE SpliceFails(r)
  BY <1>10 DEF SpliceFails, Accounting
<1>11. QED
  BY <1>1, <1>2, <1>3, <1>4, <1>5, <1>6, <1>7, <1>8, <1>9, <1>10 DEF Handle

\* The steps of everybody else who works for a request.
LEMMA OthersBridgeInv ==
    ASSUME BridgeInv, NEW r \in Requests,
           \/ Arrive(r) \/ DialAnswers(r) \/ Sent(r) \/ SendFails(r) \/ BodyEnds(r) \/ Flow(r)
           \/ Reap(r) \/ PairDone(r)
           \/ \E d \in Directions : RelayEnds(r, d)
    PROVE  BridgeInv'
<1> USE DEF BridgeInv, BridgeTyped, TypeOK, BusyHolds, PairsAreSpliced, DialsAreAwaited,
            NothingLeaks, Kinds, Places, Directions, GoTo, CloseDest, tunnelVars
<1>1. CASE Arrive(r)
  BY <1>1 DEF Arrive, Accounting
<1>2. CASE DialAnswers(r)
  <2>1. TypeOK'
    BY <1>2 DEF DialAnswers
  <2>2. DialsAreAwaited' /\ NothingLeaks'
    BY <1>2 DEF DialAnswers
  <2>3. QED
    BY <1>2, <2>1, <2>2 DEF DialAnswers, Accounting
<1>3. CASE Sent(r) \/ SendFails(r) \/ BodyEnds(r)
  BY <1>3 DEF Sent, SendFails, BodyEnds, Accounting
<1>4. CASE Flow(r)
  BY <1>4 DEF Flow, Accounting
<1>5. CASE Reap(r)
  BY <1>5 DEF Reap, Accounting
<1>6. CASE PairDone(r)
  <2>1. Accounting' /\ slots' \in 0..MaxConns /\ holding' \subseteq holding
    BY <1>6, ReleaseBalances DEF PairDone
  <2>2. QED
    BY <1>6, <2>1 DEF PairDone, Release
<1>7. ASSUME NEW d \in Directions, RelayEnds(r, d)
      PROVE  BridgeInv'
  BY <1>7 DEF RelayEnds, Accounting
<1>8. QED
  BY <1>1, <1>2, <1>3, <1>4, <1>5, <1>6, <1>7

LEMMA NextBridgeInv == BridgeInv /\ [Next]_vars => BridgeInv'
<1> SUFFICES ASSUME BridgeInv, [Next]_vars
             PROVE  BridgeInv'
  OBVIOUS
<1>1. ASSUME NEW r \in Requests, Handle(r)
      PROVE  BridgeInv'
  BY <1>1, HandleBridgeInv
<1>2. ASSUME NEW r \in Requests,
             \/ Arrive(r) \/ DialAnswers(r) \/ Sent(r) \/ SendFails(r) \/ BodyEnds(r) \/ Flow(r)
             \/ Reap(r) \/ PairDone(r)
             \/ \E d \in Directions : PeerEnds(r, d) \/ SourceIsClosed(r, d)
      PROVE  BridgeInv'
  BY <1>2, OthersBridgeInv DEF PeerEnds, SourceIsClosed
<1>3. CASE NoteAges \/ UNCHANGED vars
  BY <1>3 DEF NoteAges, vars, tunnelVars, BridgeInv, BridgeTyped, TypeOK, Accounting, BusyHolds,
              PairsAreSpliced, DialsAreAwaited, NothingLeaks
<1>4. QED
  BY <1>1, <1>2, <1>3 DEF Next

LEMMA BridgeInvariance == Spec => []BridgeInv
BY InitBridgeInv, NextBridgeInv, PTL DEF Spec

\* The state of the bridge is well typed: connSem never holds more tokens than it
\* was filled with, although two goroutines release the slot of a tunnel.
THEOREM BridgeTypeCorrect == Spec => []TypeOK
<1>1. BridgeInv => TypeOK
  BY DEF BridgeInv, BridgeTyped
<1>2. QED
  BY <1>1, BridgeInvariance, PTL

\* MAX_CONNS bounds the handlers at work, for any number of requests.
THEOREM Bounded == Spec => []HandlersAreBounded
<1>1. BridgeInv => HandlersAreBounded
  <2> SUFFICES ASSUME BridgeInv
               PROVE  Cardinality(Busy) <= MaxConns
    BY DEF HandlersAreBounded
  <2>1. Busy \in SUBSET holding
    BY DEF Busy, BridgeInv, BridgeTyped, BusyHolds
  <2>2. /\ IsFiniteSet(Busy)
        /\ Cardinality(Busy) <= Cardinality(holding)
    BY <2>1, FS_Subset DEF BridgeInv, BridgeTyped, Accounting
  <2>3. Cardinality(Busy) \in Nat /\ Cardinality(holding) \in Nat
    BY <2>2, FS_CardinalityType DEF BridgeInv, BridgeTyped, Accounting
  <2>4. QED
    BY <2>2, <2>3, BridgeAssumption DEF BridgeInv, BridgeTyped, TypeOK, Accounting
<1>2. QED
  BY <1>1, BridgeInvariance, PTL

\* A connection to a target always has somebody who will close it, however late
\* its dial was answered and wherever its handler failed.
THEOREM NoLeak == Spec => []NothingLeaks
<1>1. BridgeInv => NothingLeaks
  BY DEF BridgeInv
<1>2. QED
  BY <1>1, BridgeInvariance, PTL

-------------------------------------------------------------------------------
(* The ladder: a partition that counts who comes before whom is a           *)
(* permutation, and its order is the one it counts.                         *)

\* The positions of a ladder are finitely many.
LEMMA UpTo ==
    ASSUME NEW n \in Nat
    PROVE  IsFiniteSet(1..n) /\ Cardinality(1..n) = n
BY FS_Interval

LEMMA AliveIsTyped ==
    ASSUME AggTypeOK, NEW alive \in AliveStatuses
    PROVE  /\ IsFiniteSet(ok) /\ Cardinality(ok) \in 0..N
           /\ Len(alive) = Cardinality(ok)
           /\ alive \in [1..Len(alive) -> ok]
           /\ \A j, k \in 1..Len(alive) : j # k => alive[j] # alive[k]
           /\ \A j, k \in 1..Len(alive) : j < k => latency[alive[j]] <= latency[alive[k]]
<1>1. /\ IsFiniteSet(1..N) /\ Cardinality(1..N) = N
  BY UpTo, AggregateAssumption
<1>2. IsFiniteSet(ok) /\ Cardinality(ok) <= N
  <2>1. ok \in SUBSET (1..N)
    BY DEF AggTypeOK, Instances
  <2>2. QED
    BY ONLY <1>1, <2>1, FS_Subset
<1>3. Cardinality(ok) \in Nat
  BY <1>2, FS_CardinalityType
<1>4. /\ alive \in [1..Cardinality(ok) -> ok]
      /\ \A j, k \in 1..Cardinality(ok) : j # k => alive[j] # alive[k]
  BY DEF AliveStatuses, SetToSeqs
<1>5. Len(alive) = Cardinality(ok)
  BY <1>3, <1>4
<1>6. QED
  BY <1>2, <1>3, <1>4, <1>5, AggregateAssumption DEF AliveStatuses

\* Those that come before position k.
Earlier(alive, k) == {j \in 1..Len(alive) : Before(alive, j, k)}

LEMMA EarlierIsFinite ==
    ASSUME NEW alive, Len(alive) \in Nat, NEW k \in 1..Len(alive)
    PROVE  /\ IsFiniteSet(Earlier(alive, k))
           /\ Cardinality(Earlier(alive, k)) \in Nat
           /\ Place(alive, k) = Cardinality(Earlier(alive, k)) + 1
           /\ Place(alive, k) \in 1..Len(alive)
<1> DEFINE D == 1..Len(alive)
<1>1. IsFiniteSet(D) /\ Cardinality(D) = Len(alive)
  BY UpTo
<1>2. IsFiniteSet(D \ {k}) /\ Cardinality(D \ {k}) = Len(alive) - 1
  BY <1>1, FS_RemoveElement
<1>3. Earlier(alive, k) \in SUBSET (D \ {k})
  BY DEF Earlier, Before
<1>4. IsFiniteSet(Earlier(alive, k)) /\ Cardinality(Earlier(alive, k)) <= Len(alive) - 1
  BY <1>2, <1>3, FS_Subset
<1>5. Cardinality(Earlier(alive, k)) \in Nat
  BY <1>4, FS_CardinalityType
<1>6. QED
  BY <1>4, <1>5 DEF Place, Earlier

\* Who comes before another has the earlier place.
LEMMA PlaceIsMonotone ==
    ASSUME NEW alive, Len(alive) \in Nat,
           NEW j \in 1..Len(alive), NEW k \in 1..Len(alive), Before(alive, j, k)
    PROVE  Place(alive, j) < Place(alive, k)
<1> DEFINE E(i) == Earlier(alive, i)
<1>1. /\ IsFiniteSet(E(j)) /\ Cardinality(E(j)) \in Nat /\ Place(alive, j) = Cardinality(E(j)) + 1
      /\ IsFiniteSet(E(k)) /\ Cardinality(E(k)) \in Nat /\ Place(alive, k) = Cardinality(E(k)) + 1
  BY EarlierIsFinite
<1>2. j \notin E(j)
  BY DEF Earlier, Before
<1>3. E(j) \cup {j} \in SUBSET E(k)
  BY DEF Earlier, Before
<1>4. Cardinality(E(j) \cup {j}) = Cardinality(E(j)) + 1
  BY <1>1, <1>2, FS_AddElement
<1>5. Cardinality(E(j) \cup {j}) <= Cardinality(E(k))
  BY <1>1, <1>3, FS_Subset
<1>6. QED
  BY <1>1, <1>4, <1>5

\* Two positions have two places, and their order is that of Before.
LEMMA PlacesDiffer ==
    ASSUME NEW alive, Len(alive) \in Nat, NEW j \in 1..Len(alive), NEW k \in 1..Len(alive)
    PROVE  /\ Place(alive, j) = Place(alive, k) => j = k
           /\ Place(alive, j) < Place(alive, k) => Before(alive, j, k)
<1>1. j = k \/ Before(alive, j, k) \/ Before(alive, k, j)
  BY DEF Before
<1>2. Place(alive, j) \in Nat /\ Place(alive, k) \in Nat
  BY EarlierIsFinite
<1>3. Before(alive, j, k) => Place(alive, j) < Place(alive, k)
  BY PlaceIsMonotone
<1>4. Before(alive, k, j) => Place(alive, k) < Place(alive, j)
  BY PlaceIsMonotone
<1>5. QED
  BY <1>1, <1>2, <1>3, <1>4

\* Every place is taken: different places within the length fill it.
LEMMA PlaceIsTaken ==
    ASSUME NEW alive, Len(alive) \in Nat, NEW n \in 1..Len(alive)
    PROVE  \E k \in 1..Len(alive) : Place(alive, k) = n
<1> DEFINE D == 1..Len(alive)
           f == [k \in D |-> Place(alive, k)]
<1>1. f \in [D -> D]
  BY EarlierIsFinite
<1>2. \A j, k \in D : f[j] = f[k] => j = k
  BY PlacesDiffer
<1>3. f \in Injection(D, D)
  BY <1>1, <1>2 DEF Injection, IsInjective
<1>4. IsFiniteSet(D)
  BY UpTo
<1>5. f \in Surjection(D, D)
  BY <1>3, <1>4, FS_Injection
<1>6. QED
  BY <1>5 DEF Surjection

\* The position of `alive` that place n of the ladder takes.
Source(alive, n) == CHOOSE k \in 1..Len(alive) : Place(alive, k) = n

LEMMA SourceHasPlace ==
    ASSUME NEW alive, Len(alive) \in Nat, NEW n \in 1..Len(alive)
    PROVE  /\ Source(alive, n) \in 1..Len(alive)
           /\ Place(alive, Source(alive, n)) = n
           /\ OrderedAlive(alive)[n] = alive[Source(alive, n)]
BY PlaceIsTaken DEF Source, OrderedAlive

\* orderedAlive returns every instance of its argument once.
LEMMA LadderIsWhole ==
    ASSUME AggTypeOK, NEW alive \in AliveStatuses
    PROVE  /\ OrderedAlive(alive) \in SetToSeqs(ok)
           /\ OrderedAlive(alive) \in Seq(Instances)
           /\ Len(OrderedAlive(alive)) = Len(alive)
           /\ Len(alive) \in 0..N
<1> DEFINE D == 1..Len(alive)
           s == OrderedAlive(alive)
<1>1. /\ Len(alive) \in Nat /\ Len(alive) = Cardinality(ok) /\ Cardinality(ok) \in 0..N
      /\ alive \in [D -> ok]
      /\ \A j, k \in D : j # k => alive[j] # alive[k]
  BY AliveIsTyped, AggregateAssumption
<1>2. \A n \in D : Source(alive, n) \in D /\ Place(alive, Source(alive, n)) = n
                   /\ s[n] = alive[Source(alive, n)]
  BY <1>1, SourceHasPlace
<1>3. s = [n \in D |-> alive[Source(alive, n)]]
  BY DEF OrderedAlive, Source
<1>4. s \in [D -> ok]
  BY <1>1, <1>2, <1>3
<1>5. \A j, k \in D : j # k => s[j] # s[k]
  BY <1>1, <1>2
<1>6. s \in SetToSeqs(ok)
  BY <1>1, <1>4, <1>5 DEF SetToSeqs
<1>7. s \in Seq(ok) /\ Len(s) = Len(alive)
  BY <1>1, <1>4
<1>8. QED
  BY <1>1, <1>6, <1>7 DEF AggTypeOK

\* Whatever the statuses, the ladder is whole and in tiers.
LEMMA LadderTiers == AggTypeOK => LadderIsTiered
<1> SUFFICES ASSUME AggTypeOK, NEW alive \in AliveStatuses
             PROVE  LET s == OrderedAlive(alive)
                    IN  /\ s \in SetToSeqs(ok)
                        /\ \A j, k \in 1..Len(s) : j < k =>
                              /\ Qualifies(s[k]) => Qualifies(s[j])
                              /\ (Qualifies(s[j]) <=> Qualifies(s[k]))
                                    => latency[s[j]] <= latency[s[k]]
  BY DEF LadderIsTiered
<1> DEFINE s == OrderedAlive(alive)
<1>1. s \in SetToSeqs(ok) /\ Len(s) = Len(alive) /\ Len(alive) \in Nat
  BY LadderIsWhole, AggregateAssumption
<1>2. ASSUME NEW j \in 1..Len(alive), NEW k \in 1..Len(alive), j < k
      PROVE  /\ Qualifies(s[k]) => Qualifies(s[j])
             /\ (Qualifies(s[j]) <=> Qualifies(s[k])) => latency[s[j]] <= latency[s[k]]
  <2> DEFINE p == Source(alive, j)
             q == Source(alive, k)
  <2>1. /\ p \in 1..Len(alive) /\ Place(alive, p) = j /\ s[j] = alive[p]
        /\ q \in 1..Len(alive) /\ Place(alive, q) = k /\ s[k] = alive[q]
    BY <1>1, SourceHasPlace
  <2>2. Before(alive, p, q)
    BY <1>1, <1>2, <2>1, PlacesDiffer
  <2>3. p < q => latency[alive[p]] <= latency[alive[q]]
    BY <2>1, AliveIsTyped
  <2>4. QED
    BY <2>1, <2>2, <2>3 DEF Before
<1>3. QED
  BY <1>1, <1>2

\* The head of the ladder has nobody before it, so it is the first that qualifies,
\* or the first of all if nobody does.
LEMMA HeadHasNobodyBefore ==
    ASSUME NEW alive, Len(alive) \in Nat \ {0}
    PROVE  /\ Source(alive, 1) \in 1..Len(alive)
           /\ OrderedAlive(alive)[1] = alive[Source(alive, 1)]
           /\ \A j \in 1..Len(alive) : ~Before(alive, j, Source(alive, 1))
<1> DEFINE h == Source(alive, 1)
<1>1. /\ h \in 1..Len(alive)
      /\ Place(alive, h) = 1
      /\ OrderedAlive(alive)[1] = alive[h]
  BY SourceHasPlace
<1>2. ASSUME NEW j \in 1..Len(alive), Before(alive, j, h)
      PROVE  FALSE
  <2>1. Place(alive, j) < Place(alive, h)
    BY <1>1, <1>2, PlaceIsMonotone
  <2>2. Place(alive, j) \in 1..Len(alive)
    BY EarlierIsFinite
  <2>3. QED
    BY <1>1, <2>1, <2>2
<1>3. QED
  BY <1>1, <1>2

LEMMA HeadIsPicked == AggTypeOK => HeadIsBest
<1> SUFFICES ASSUME AggTypeOK, NEW alive \in AliveStatuses, alive # <<>>
             PROVE  OrderedAlive(alive)[1] = PickBest(alive)
  BY DEF HeadIsBest
<1> DEFINE D == 1..Len(alive)
           h == Source(alive, 1)
           qualified == {j \in D : Qualifies(alive[j])}
<1>1. Len(alive) \in Nat \ {0} /\ \A j \in D : alive[j] \in Instances
  <2>1. Len(alive) \in Nat /\ alive \in [D -> ok]
    BY AliveIsTyped, AggregateAssumption
  <2>2. alive \in Seq(ok)
    BY <2>1
  <2>3. QED
    BY <2>1, <2>2 DEF AggTypeOK
<1>2. /\ h \in D
      /\ OrderedAlive(alive)[1] = alive[h]
      /\ \A j \in D : ~Before(alive, j, h)
  BY <1>1, HeadHasNobodyBefore
<1>3. CASE MinStreak > 0 /\ qualified # {}
  <2>1. h \in qualified
    BY <1>2, <1>3 DEF Before
  <2>2. \A k \in qualified : h <= k
    BY <1>1, <1>2, <2>1 DEF Before
  <2>3. \A j \in qualified : (\A k \in qualified : j <= k) => j = h
    BY <1>1, <2>1, <2>2
  <2>4. h = CHOOSE j \in qualified : \A k \in qualified : j <= k
    BY <2>1, <2>2, <2>3
  <2>5. PickBest(alive) = alive[CHOOSE j \in qualified : \A k \in qualified : j <= k]
    BY <1>3 DEF PickBest
  <2>6. QED
    BY <1>2, <2>4, <2>5
<1>4. CASE ~(MinStreak > 0 /\ qualified # {})
  <2>1. \A j, k \in D : Qualifies(alive[j]) <=> Qualifies(alive[k])
    <3>1. CASE MinStreak = 0
      BY <1>1, <3>1 DEF Qualifies, AggTypeOK
    <3>2. CASE qualified = {}
      BY <3>2
    <3>3. QED
      BY <1>4, <3>1, <3>2, AggregateAssumption
  <2>2. h = 1
    BY <1>1, <1>2, <2>1 DEF Before
  <2>3. PickBest(alive) = alive[1]
    BY <1>4 DEF PickBest
  <2>4. QED
    BY <1>2, <2>2, <2>3
<1>5. QED
  BY <1>3, <1>4

-------------------------------------------------------------------------------
(* The walk along the ladder.                                               *)

\* A client is at a candidate or past the last, and the silent candidates are among
\* those it has passed.
WalksInOrder ==
    \A c \in Clients :
        /\ at[c] \in 1..Len(ladder[c]) + 1
        /\ stage[c] = "relay" => at[c] <= Len(ladder[c])
        /\ silent[c] < at[c]

\* What is gone of a budget went in whole shares, but for the last one, which may
\* have been short.
SpentInShares ==
    \A c \in Clients :
        stage[c] \in {"walk", "relay", "cut", "ended"} =>
            /\ left[c] > 0 => left[c] + silent[c] * Share = Budget
            /\ left[c] = 0 => silent[c] * Share >= Budget

\* Who is cut has come to an end, of the ladder or of the budget.
CutAtAnEnd ==
    \A c \in Clients : stage[c] = "cut" => at[c] > Len(ladder[c]) \/ left[c] = 0

AggInv == AggTypeOK /\ WalksInOrder /\ SpentInShares /\ CutAtAnEnd

LEMMA InitAggInv == AggInit => AggInv
<1> SUFFICES ASSUME AggInit
             PROVE  AggInv
  OBVIOUS
<1> USE AggregateAssumption DEF AggInit
<1>1. AggTypeOK
  <2>1. ladder \in [Clients -> Seq(Instances)] /\ \A c \in Clients : Len(ladder[c]) = 0
    OBVIOUS
  <2>2. latency \in [Instances -> Latencies] /\ streak \in [Instances -> 0..MinStreak]
    OBVIOUS
  <2>3. /\ stage \in [Clients -> {"idle", "accepted", "walk", "relay", "cut", "ended"}]
        /\ left \in [Clients -> 0..Budget]
        /\ silent \in [Clients -> 0..N]
    OBVIOUS
  <2>4. (\A c \in Clients : Len(ladder[c]) <= N) /\ at \in [Clients -> 1..N + 1]
    BY <2>1
  <2>5. relayUp \in BOOLEAN /\ relayAlive \in BOOLEAN
    BY Zenon
  <2>6. reports \in 0..MaxReports /\ ok \subseteq Instances
    OBVIOUS
  <2>7. QED
    BY ONLY <2>1, <2>2, <2>3, <2>4, <2>5, <2>6 DEF AggTypeOK
<1>2. WalksInOrder /\ SpentInShares /\ CutAtAnEnd
  BY DEF WalksInOrder, SpentInShares, CutAtAnEnd
<1>3. QED
  BY <1>1, <1>2 DEF AggInv

\* A silent candidate takes a share, or the little that is left.
LEMMA ShareOfBudget ==
    ASSUME NEW l \in 1..Budget, NEW n \in Nat, l + n * Share = Budget,
           NEW m, m = l - (IF l > Share THEN Share ELSE l)
    PROVE  /\ m \in 0..Budget
           /\ m > 0 => m + (n + 1) * Share = Budget
           /\ m = 0 => (n + 1) * Share >= Budget
<1>1. Share \in Nat /\ Budget \in Nat /\ n * Share \in Nat
  BY AggregateAssumption
<1>2. (n + 1) * Share = n * Share + Share
  BY <1>1
<1>3. QED
  BY <1>1, <1>2, AggregateAssumption

\* What the others report, and what the ledger and the relay do, leaves the walks
\* alone.
LEMMA OthersAggInv ==
    ASSUME AggInv,
           \/ \E i \in Instances : MarkOK(i) \/ MarkDown(i)
           \/ RelayFlips
           \/ UNCHANGED aggVars
    PROVE  AggInv'
<1> USE AggregateAssumption DEF AggInv, AggTypeOK, tableVars, walkVars
<1>1. UNCHANGED walkVars
  BY DEF MarkOK, MarkDown, RelayFlips, aggVars
<1>2. WalksInOrder' /\ SpentInShares' /\ CutAtAnEnd'
  BY <1>1 DEF WalksInOrder, SpentInShares, CutAtAnEnd
<1>3. AggTypeOK'
  <2>1. ASSUME NEW i \in Instances, MarkOK(i)
        PROVE  AggTypeOK'
    <3>1. PICK n \in {0, streak[i] + 1} :
             streak' = [streak EXCEPT ![i] = IF n > MinStreak THEN MinStreak ELSE n]
      BY <2>1 DEF MarkOK
    <3>2. streak' \in [Instances -> 0..MinStreak]
      BY <3>1
    <3>3. latency' \in [Instances -> Latencies] /\ ok' \subseteq Instances
      BY <2>1 DEF MarkOK
    <3>4. reports' \in 0..MaxReports
      BY <2>1 DEF MarkOK
    <3>5. QED
      BY <1>1, <2>1, <3>2, <3>3, <3>4 DEF MarkOK
  <2>2. ASSUME NEW i \in Instances, MarkDown(i)
        PROVE  AggTypeOK'
    BY <1>1, <2>2 DEF MarkDown
  <2>3. CASE RelayFlips \/ UNCHANGED aggVars
    BY <1>1, <2>3 DEF RelayFlips, aggVars
  <2>4. QED
    BY <2>1, <2>2, <2>3
<1>4. QED
  BY <1>2, <1>3

\* The steps that only move a client from one stage to another.
LEMMA StageAggInv ==
    ASSUME AggInv, NEW c \in Clients,
           Accept(c) \/ DialAccepts(c) \/ Cut(c) \/ End(c) \/ (c = Probe /\ ProbeEnds)
    PROVE  AggInv'
<1> USE DEF AggInv, AggTypeOK, tableVars, Enter
<1>1. UNCHANGED <<ladder, at, left, silent, tableVars, relayUp>>
  BY DEF Accept, DialAccepts, Cut, End, ProbeEnds
<1>2. AggTypeOK'
  BY <1>1 DEF Accept, DialAccepts, Cut, End, ProbeEnds
<1>3. WalksInOrder'
  BY <1>1 DEF WalksInOrder, Accept, DialAccepts, CanDial, Cut, End, ProbeEnds
<1>4. SpentInShares'
  BY <1>1 DEF SpentInShares, Accept, DialAccepts, CanDial, Cut, End, ProbeEnds
<1>5. CutAtAnEnd'
  BY <1>1 DEF CutAtAnEnd, Accept, DialAccepts, CanDial, Cut, End, ProbeEnds
<1>6. QED
  BY <1>2, <1>3, <1>4, <1>5

LEMMA ServeAggInv ==
    ASSUME AggInv, NEW c \in Clients, Serve(c)
    PROVE  AggInv'
<1> USE AggregateAssumption DEF AggInv, AggTypeOK, tableVars
<1>1. PICK alive \in AliveStatuses :
         /\ ladder' = [ladder EXCEPT ![c] = Candidates(c, alive)]
         /\ Enter(c, IF Candidates(c, alive) = <<>> THEN "cut" ELSE "walk")
  BY DEF Serve
<1> DEFINE cands == Candidates(c, alive)
<1>2. cands \in Seq(Instances) /\ Len(cands) \in 0..N
  BY LadderIsWhole DEF Candidates
<1>3. /\ at' = [at EXCEPT ![c] = 1]
      /\ left' = [left EXCEPT ![c] = Budget]
      /\ silent' = [silent EXCEPT ![c] = 0]
      /\ UNCHANGED <<tableVars, relayAlive, relayUp>>
  BY DEF Serve
<1>4. stage' = [stage EXCEPT ![c] = IF cands = <<>> THEN "cut" ELSE "walk"]
  BY <1>1 DEF Enter
<1> HIDE DEF cands
<1>5. ladder' = [ladder EXCEPT ![c] = cands]
  BY <1>1 DEF cands
<1>6. AggTypeOK'
  BY <1>2, <1>3, <1>4, <1>5
<1>7. WalksInOrder'
  <2> SUFFICES ASSUME NEW d \in Clients
               PROVE  /\ at'[d] \in 1..Len(ladder'[d]) + 1
                      /\ stage'[d] = "relay" => at'[d] <= Len(ladder'[d])
                      /\ silent'[d] < at'[d]
    BY DEF WalksInOrder
  <2>1. CASE d = c
    <3>1. at'[d] = 1 /\ silent'[d] = 0 /\ ladder'[d] = cands /\ stage'[d] # "relay"
      BY <1>3, <1>4, <1>5, <2>1
    <3>2. QED
      BY ONLY <1>2, <3>1, AggregateAssumption
  <2>2. CASE d # c
    BY <1>3, <1>4, <1>5, <2>2 DEF WalksInOrder
  <2>3. QED
    BY <2>1, <2>2
<1>8. SpentInShares'
  BY <1>3, <1>4 DEF SpentInShares
<1>9. CutAtAnEnd'
  BY <1>2, <1>3, <1>4, <1>5 DEF CutAtAnEnd
<1>10. QED
  BY <1>6, <1>7, <1>8, <1>9

\* A dial that fails moves its client one candidate on.
LEMMA DialStaysInOrder ==
    ASSUME AggInv, NEW c \in Clients, CanDial(c),
           at' = [at EXCEPT ![c] = at[c] + 1],
           silent' = silent \/ silent' = [silent EXCEPT ![c] = silent[c] + 1],
           UNCHANGED <<stage, ladder>>
    PROVE  WalksInOrder'
<1> SUFFICES ASSUME NEW d \in Clients
             PROVE  /\ at'[d] \in 1..Len(ladder'[d]) + 1
                    /\ stage'[d] = "relay" => at'[d] <= Len(ladder'[d])
                    /\ silent'[d] < at'[d]
  BY DEF WalksInOrder
<1> USE DEF AggInv, AggTypeOK
<1>1. CASE d = c
  <2>1. at[c] \in Nat /\ Len(ladder[c]) \in Nat /\ silent[c] \in Nat
    OBVIOUS
  <2>2. at[c] >= 1 /\ at[c] <= Len(ladder[c]) /\ silent[c] < at[c] /\ stage[c] = "walk"
    BY DEF CanDial, WalksInOrder
  <2>3. at'[c] = at[c] + 1 /\ silent'[c] \in {silent[c], silent[c] + 1}
        /\ ladder'[c] = ladder[c] /\ stage'[c] = stage[c]
    OBVIOUS
  <2>4. QED
    BY ONLY <1>1, <2>1, <2>2, <2>3
<1>2. CASE d # c
  BY <1>2 DEF WalksInOrder
<1>3. QED
  BY <1>1, <1>2

\* A dial that fails: at once, or with its share of the budget gone.
LEMMA DialAggInv ==
    ASSUME AggInv, NEW c \in Clients, DialRefused(c) \/ DialSilent(c)
    PROVE  AggInv'
<1> USE AggregateAssumption DEF AggInv, AggTypeOK, tableVars
<1>1. CASE DialRefused(c)
  <2>1. AggTypeOK'
    BY <1>1 DEF DialRefused, CanDial
  <2>2. WalksInOrder'
    BY <1>1, DialStaysInOrder DEF DialRefused
  <2>3. SpentInShares' /\ CutAtAnEnd'
    BY <1>1 DEF DialRefused, CanDial, SpentInShares, CutAtAnEnd
  <2>4. QED
    BY <2>1, <2>2, <2>3
<1>2. CASE DialSilent(c)
  <2> DEFINE m == left[c] - DialBudget(c)
  <2>1. /\ stage[c] = "walk" /\ at[c] <= Len(ladder[c])
        /\ left[c] \in 1..Budget /\ silent[c] \in Nat /\ left[c] + silent[c] * Share = Budget
    BY <1>2 DEF DialSilent, CanDial, SpentInShares
  <2>2. /\ m \in 0..Budget
        /\ m > 0 => m + (silent[c] + 1) * Share = Budget
        /\ m = 0 => (silent[c] + 1) * Share >= Budget
    BY <2>1, ShareOfBudget DEF DialBudget
  <2>3. /\ at' = [at EXCEPT ![c] = at[c] + 1]
        /\ left' = [left EXCEPT ![c] = m]
        /\ silent' = [silent EXCEPT ![c] = silent[c] + 1]
        /\ UNCHANGED <<tableVars, stage, ladder, relayAlive, relayUp>>
    BY <1>2 DEF DialSilent
  <2> HIDE DEF m
  <2>4. WalksInOrder'
    <3>1. CanDial(c)
      BY <1>2 DEF DialSilent
    <3>2. QED
      BY <2>3, <3>1, DialStaysInOrder
  <2>5. SpentInShares'
    BY <2>2, <2>3 DEF SpentInShares
  <2>6. CutAtAnEnd'
    BY <2>1, <2>3 DEF CutAtAnEnd
  <2>7. silent[c] + 1 \in 0..N /\ at[c] + 1 \in 1..N + 1
    BY <2>1 DEF WalksInOrder
  <2>8. AggTypeOK'
    BY <2>2, <2>3, <2>7
  <2>9. QED
    BY <2>4, <2>5, <2>6, <2>8
<1>3. QED
  BY <1>1, <1>2

LEMMA NextAggInv == AggInv /\ [AggNext]_aggVars => AggInv'
<1> SUFFICES ASSUME AggInv, [AggNext]_aggVars
             PROVE  AggInv'
  OBVIOUS
<1>1. CASE \/ \E i \in Instances : MarkOK(i) \/ MarkDown(i)
           \/ RelayFlips
           \/ UNCHANGED aggVars
  BY <1>1, OthersAggInv
<1>2. ASSUME NEW c \in Clients, Accept(c) \/ DialAccepts(c) \/ Cut(c) \/ End(c)
      PROVE  AggInv'
  BY <1>2, StageAggInv
<1>3. ASSUME NEW c \in Clients, Serve(c)
      PROVE  AggInv'
  BY <1>3, ServeAggInv
<1>4. ASSUME NEW c \in Clients, DialRefused(c) \/ DialSilent(c)
      PROVE  AggInv'
  BY <1>4, DialAggInv
<1>5. CASE ProbeEnds
  BY <1>5, StageAggInv DEF Clients
<1>6. QED
  BY <1>1, <1>2, <1>3, <1>4, <1>5 DEF AggNext, Walk

LEMMA AggInvariance == AggSpec => []AggInv
BY InitAggInv, NextAggInv, PTL DEF AggSpec

\* The state of the stable endpoints is well typed: a ladder holds no instance that
\* is not there, and no budget is overdrawn.
THEOREM AggTypeCorrect == AggSpec => []AggTypeOK
<1>1. AggInv => AggTypeOK
  BY DEF AggInv
<1>2. QED
  BY <1>1, AggInvariance, PTL

\* Every ladder is whole and in tiers, whatever the other goroutines report.
THEOREM LaddersAreTiered == AggSpec => []LadderIsTiered
BY AggTypeCorrect, LadderTiers, PTL

\* The head of the ladder is the answer of pickBestBackend in every regime of
\* AGG_MIN_STREAK.
THEOREM HeadsAreBest == AggSpec => []HeadIsBest
BY AggTypeCorrect, HeadIsPicked, PTL

\* A client that is cut within its ladder has met as many silent candidates as the
\* budget has shares.
THEOREM SilenceCosts == AggSpec => []SilenceIsShared
<1>1. AggInv => SilenceIsShared
  <2> SUFFICES ASSUME AggInv, NEW c \in Clients, stage[c] = "cut", at[c] <= Len(ladder[c])
               PROVE  silent[c] * Share >= Budget
    BY DEF SilenceIsShared
  <2>1. at[c] \in Nat /\ Len(ladder[c]) \in Nat
    BY DEF AggInv, AggTypeOK
  <2>2. left[c] = 0
    BY <2>1 DEF AggInv, CutAtAnEnd
  <2>3. QED
    BY <2>2 DEF AggInv, SpentInShares
<1>2. QED
  BY <1>1, AggInvariance, PTL

-------------------------------------------------------------------------------
\* The relay endpoint. While its gate is shut its clients, and the probe that could
\* open the gate is one of them, come no further than the gate.
GateIsShut ==
    /\ ~relayAlive
    /\ \A c \in Clients \ Direct : stage[c] \in {"idle", "accepted", "cut"}

\* The gate of the relay endpoint never opens: probeRelay asks for an answer through
\* the endpoint that the gate shuts, and nothing else in the program sets it. (The
\* operator's guide has "watch one health tick for `relay egress alive`".)
THEOREM RelayStaysDark == AggSpec => []~relayAlive
<1>1. AggInit => GateIsShut
  BY DEF AggInit, GateIsShut
<1>2. AggTypeOK /\ GateIsShut /\ [AggNext]_aggVars => GateIsShut'
  <2> SUFFICES ASSUME AggTypeOK, GateIsShut, [AggNext]_aggVars
               PROVE  GateIsShut'
    OBVIOUS
  <2> USE DEF AggTypeOK
  <2>1. ASSUME UNCHANGED <<stage, relayAlive>>
        PROVE  GateIsShut'
    BY <2>1 DEF GateIsShut
  <2>2. ASSUME NEW c \in Clients, Accept(c) \/ Cut(c) \/ End(c) \/ DialAccepts(c)
        PROVE  GateIsShut'
    <3>1. CASE Accept(c)
      BY <3>1 DEF Accept, Enter, GateIsShut
    <3>2. CASE Cut(c)
      BY <3>2 DEF Cut, Enter, GateIsShut
    <3>3. CASE End(c) \/ DialAccepts(c)
      <4>1. c \in Direct
        BY <3>3 DEF End, DialAccepts, CanDial, GateIsShut
      <4>2. \A d \in Clients \ Direct : stage'[d] = stage[d]
        BY <3>3, <4>1 DEF End, DialAccepts, Enter
      <4>3. relayAlive' = relayAlive
        BY <3>3 DEF End, DialAccepts
      <4>4. QED
        BY <4>2, <4>3 DEF GateIsShut
    <3>4. QED
      BY <2>2, <3>1, <3>2, <3>3
  <2>3. ASSUME NEW c \in Clients, Serve(c)
        PROVE  GateIsShut'
    <3>1. c \notin Direct => stage' = [stage EXCEPT ![c] = "cut"]
      BY <2>3 DEF Serve, Candidates, Enter, GateIsShut
    <3>2. c \in Direct => \A d \in Clients \ Direct : stage'[d] = stage[d]
      BY <2>3 DEF Serve, Enter
    <3>3. relayAlive' = relayAlive
      BY <2>3 DEF Serve
    <3>4. QED
      BY <3>1, <3>2, <3>3 DEF GateIsShut
  <2>4. CASE ProbeEnds
    <3>1. Probe \in Clients \ Direct
      BY AggregateAssumption DEF Clients
    <3>2. ~relayAlive'
      BY <2>4, <3>1 DEF ProbeEnds, GateIsShut
    <3>3. QED
      BY <2>4, <3>1, <3>2 DEF ProbeEnds, Enter, GateIsShut
  <2>5. CASE \/ \E i \in Instances : MarkOK(i) \/ MarkDown(i)
             \/ \E c \in Clients : DialRefused(c) \/ DialSilent(c)
             \/ RelayFlips
             \/ UNCHANGED aggVars
    BY <2>1, <2>5 DEF MarkOK, MarkDown, DialRefused, DialSilent, RelayFlips, walkVars, aggVars
  <2>6. QED
    BY <2>2, <2>3, <2>4, <2>5 DEF AggNext, Walk
<1>3. GateIsShut => ~relayAlive
  BY DEF GateIsShut
<1>4. QED
  BY <1>1, <1>2, <1>3, AggTypeCorrect, PTL DEF AggSpec
===============================================================================
