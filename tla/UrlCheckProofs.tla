---------------------------- MODULE UrlCheckProofs ----------------------------
(***************************************************************************)
(* Theorems about UrlCheck, for any callers, URLs, depths and limits.      *)
(*                                                                         *)
(* OneFlight says that who is in the table leads. What makes it inductive  *)
(* is the converse, LeadersAreListed: whoever leads is in the table, so    *)
(* that nobody else can claim the same URL until finish clears the entry.  *)
(***************************************************************************)
EXTENDS UrlCheck, FiniteSetTheorems, TLAPS

\* Whoever leads a flight is in the table of flights.
LeadersAreListed == \A c \in Callers : Leads(c) => inflight[url[c]] = c

\* A caller that has asked has a URL.
UrlIsKnown == \A c \in Callers : pc[c] # "idle" => url[c] \in Urls

\* Who joins, joins somebody.
JoinersHaveLeaders == \A c \in Callers : pc[c] = "join" => flight[c] \in Callers

Flights == UrlIsKnown /\ JoinersHaveLeaders /\ LeadersAreListed /\ OneFlight /\ JoinedIsFlying

IInv == TypeOK /\ Flights /\ CacheIsSound

\* What a leader has found is as deep as it was asked for, and who has joined
\* remembers whom.
DepthIsKept ==
    /\ \A c \in Callers : pc[c] = "finish" => answer[c] \in {depth[c], Failed}
    /\ \A c \in Callers : pc[c] \in {"join", "woken"} => flight[c] # NoCaller
    /\ OnlyJoinersAreShort

-------------------------------------------------------------------------------
\* What is written into the cache leaves it within its limit (finish): the victims
\* are chosen before the entry is written.
LEMMA StoreFits ==
    ASSUME TypeOK, CacheIsSound, NEW u \in Urls, NEW drop \in Evictions,
           NEW res \in Depths, Store(u, drop, res)
    PROVE  /\ CacheIsSound'
           /\ stored' \subseteq Urls
           /\ at' \in [Urls -> 0..MaxClock]
           /\ cached' \in [Urls -> Depths \cup {Failed}]
<1> DEFINE kept == stored \ drop
<1>1. IsFiniteSet(kept)
  BY FS_Subset, UrlCheckAssumption DEF TypeOK
<1>2. /\ Cardinality(kept) \in Nat
      /\ Cardinality(kept \cup {u}) \in Nat
      /\ Cardinality(kept \cup {u}) <= Cardinality(kept) + 1
  <2>1. Cardinality(kept) \in Nat
    BY <1>1, FS_CardinalityType
  <2>2. Cardinality(kept \cup {u}) = IF u \in kept THEN Cardinality(kept)
                                                  ELSE Cardinality(kept) + 1
    BY <1>1, FS_AddElement
  <2>3. QED
    BY <2>1, <2>2
<1>3. Cardinality(kept) < MaxEntries
  BY DEF Evictions
<1>4. Cardinality(stored') <= MaxEntries
  <2>1. stored' = kept \cup {u}
    BY DEF Store
  <2>2. QED
    BY <1>2, <1>3, <2>1, UrlCheckAssumption
<1>5. \A v \in stored' : cached'[v] # Failed
  BY DEF Store, TypeOK, CacheIsSound, Depths, Failed
<1>6. /\ at' \in [Urls -> 0..MaxClock]
      /\ cached' \in [Urls -> Depths \cup {Failed}]
  <2>1. 0 \in 0..MaxClock
    BY UrlCheckAssumption
  <2>2. QED
    BY <2>1 DEF Store, TypeOK
<1>7. stored' \subseteq Urls
  BY DEF Store, TypeOK
<1>8. QED
  BY <1>4, <1>5, <1>6, <1>7 DEF CacheIsSound

-------------------------------------------------------------------------------
LEMMA InitIInv == Init => IInv
<1> SUFFICES ASSUME Init
             PROVE  IInv
  OBVIOUS
<1>1. TypeOK
  <2>1. 0 \in 0..MaxClock /\ 0 \in Depths
    BY UrlCheckAssumption DEF Depths
  <2>2. QED
    BY <2>1 DEF Init, TypeOK, Places
<1>2. CacheIsSound
  BY FS_EmptySet, UrlCheckAssumption DEF Init, CacheIsSound
<1>3. Flights
  BY UrlCheckAssumption
     DEF Init, Flights, UrlIsKnown, JoinersHaveLeaders, LeadersAreListed, OneFlight,
         JoinedIsFlying, Leads
<1>4. QED
  BY <1>1, <1>2, <1>3 DEF IInv

\* The steps that leave the cache and the table of flights alone.
LEMMA PrivateIInv ==
    ASSUME IInv, NEW c \in Callers,
           \/ \E u \in Urls, d \in -1..MaxDepth + 1 : Request(c, u, d)
           \/ Hit(c) \/ Miss(c) \/ Take(c) \/ Leave(c) \/ Respond(c)
    PROVE  IInv'
<1> USE DEF IInv, Flights, TypeOK, Places, Goto, cacheVars, UrlIsKnown, JoinersHaveLeaders,
            LeadersAreListed, OneFlight, JoinedIsFlying, Leads, CacheIsSound
<1>1. ASSUME NEW u \in Urls, NEW d \in -1..MaxDepth + 1, Request(c, u, d)
      PROVE  IInv'
  <2>1. Clamped(d) \in Depths
    BY UrlCheckAssumption DEF Clamped, Depths
  <2>2. TypeOK' /\ CacheIsSound'
    BY <1>1, <2>1 DEF Request
  <2>3. Flights'
    BY <1>1 DEF Request
  <2>4. QED
    BY <2>2, <2>3
<1>2. CASE Hit(c)
  <2>1. url[c] \in Urls
    BY <1>2 DEF Hit
  <2>2. QED
    BY <1>2, <2>1 DEF Hit
<1>3. CASE Miss(c)
  BY <1>3 DEF Miss
<1>4. CASE Take(c)
  BY <1>4 DEF Take
<1>5. CASE Leave(c)
  BY <1>5 DEF Leave
<1>6. CASE Respond(c)
  <2>1. 0 \in Depths
    BY UrlCheckAssumption DEF Depths
  <2>2. QED
    BY <1>6, <2>1 DEF Respond
<1>7. QED
  BY <1>1, <1>2, <1>3, <1>4, <1>5, <1>6

\* begin.
LEMMA BeginIInv ==
    ASSUME IInv, NEW c \in Callers, Lead(c) \/ Join(c)
    PROVE  IInv'
<1> USE DEF IInv, Flights, TypeOK, Places, Goto, cacheVars, UrlIsKnown, JoinersHaveLeaders,
            LeadersAreListed, OneFlight, JoinedIsFlying, Leads, CacheIsSound
<1>1. url[c] \in Urls
  BY DEF Lead, Join
<1>2. CASE Lead(c)
  <2>1. TypeOK' /\ CacheIsSound'
    BY <1>1, <1>2 DEF Lead
  <2>2. UrlIsKnown' /\ JoinersHaveLeaders' /\ LeadersAreListed' /\ JoinedIsFlying'
    BY <1>1, <1>2, UrlCheckAssumption DEF Lead
  <2>3. OneFlight'
    BY <1>1, <1>2, UrlCheckAssumption DEF Lead
  <2>4. QED
    BY <2>1, <2>2, <2>3
<1>3. CASE Join(c)
  <2>1. inflight[url[c]] \in Callers
    BY <1>1, <1>3 DEF Join
  <2>2. QED
    BY <1>1, <1>3, <2>1 DEF Join
<1>4. QED
  BY <1>2, <1>3

\* The probes of a leader.
LEMMA ProbeIInv ==
    ASSUME IInv, NEW c \in Callers, ProbeAlive(c) \/ ProbePool(c)
    PROVE  IInv'
<1> USE DEF IInv, Flights, TypeOK, Places, Goto, cacheVars, UrlIsKnown, JoinersHaveLeaders,
            LeadersAreListed, OneFlight, JoinedIsFlying, Leads, CacheIsSound
<1>1. ASSUME pc[c] \in {"alive", "pool"}, NEW some \in BOOLEAN, Result(c, some),
             UNCHANGED <<now, cacheVars, inflight, url, depth, flight>>
      PROVE  IInv'
  BY <1>1 DEF Result
<1>2. ASSUME NEW serving \in BOOLEAN, pc[c] = "alive",
             checked' = [checked EXCEPT ![c] = serving], Goto(c, "pool"),
             UNCHANGED <<now, cacheVars, inflight, url, depth, flight, answer>>
      PROVE  IInv'
  BY <1>2
<1>3. CASE ProbeAlive(c)
  BY <1>1, <1>2, <1>3 DEF ProbeAlive
<1>4. CASE ProbePool(c)
  <2>1. PICK some \in BOOLEAN : Result(c, checked[c] \/ some)
    BY <1>4 DEF ProbePool
  <2>2. (checked[c] \/ some) \in BOOLEAN
    OBVIOUS
  <2>3. QED
    BY <1>1, <1>4, <2>1, <2>2 DEF ProbePool
<1>5. QED
  BY <1>3, <1>4

\* finish clears the entry of the flight and wakes its joiners in one step.
LEMMA LandFlights ==
    ASSUME IInv, NEW c \in Callers, pc[c] = "finish",
           inflight' = [inflight EXCEPT ![url[c]] = NoCaller], Land(c),
           UNCHANGED <<url, depth, flight, checked>>
    PROVE  /\ Flights'
           /\ inflight' \in [Urls -> Callers \cup {NoCaller}]
           /\ pc' \in [Callers -> Places]
           /\ answer' \in [Callers -> Depths \cup {Failed}]
<1> USE DEF IInv, TypeOK, Places, Land, Joined
<1>1. url[c] \in Urls /\ inflight[url[c]] = c
  BY DEF Flights, UrlIsKnown, JoinersHaveLeaders, LeadersAreListed, Leads
<1>2. /\ inflight' \in [Urls -> Callers \cup {NoCaller}]
      /\ pc' \in [Callers -> Places]
      /\ answer' \in [Callers -> Depths \cup {Failed}]
  OBVIOUS
<1>3. UrlIsKnown' /\ JoinersHaveLeaders'
  BY DEF Flights, UrlIsKnown, JoinersHaveLeaders
<1>4. \A d \in Callers : Leads(d)' => Leads(d) /\ d # c /\ url[d] # url[c]
  BY <1>1 DEF Flights, LeadersAreListed, Leads
<1>5. LeadersAreListed'
  BY <1>1, <1>4 DEF Flights, LeadersAreListed, UrlIsKnown, Leads
<1>6. OneFlight'
  <2>1. \A d, e \in Callers : Leads(d)' /\ Leads(e)' /\ url[d] = url[e] => d = e
    BY <1>4 DEF Flights, OneFlight
  <2>2. ASSUME NEW u \in Urls, NEW d \in Callers, inflight'[u] = d
        PROVE  Leads(d)' /\ url[d] = u
    <3>1. u # url[c] /\ inflight[u] = d
      BY <1>1, <2>2, UrlCheckAssumption
    <3>2. Leads(d) /\ url[d] = u
      BY <3>1, UrlCheckAssumption DEF Flights, OneFlight
    <3>3. QED
      BY <3>1, <3>2 DEF Leads
  <2>3. QED
    BY <1>2, <2>1, <2>2 DEF OneFlight
<1>7. JoinedIsFlying'
  <2>1. ASSUME NEW j \in Callers, pc'[j] = "join"
        PROVE  Leads(flight[j])' /\ url[flight[j]] = url[j]
    <3>1. pc[j] = "join" /\ flight[j] # c /\ j # c
      BY <2>1
    <3>2. Leads(flight[j]) /\ url[flight[j]] = url[j]
      BY <3>1 DEF Flights, JoinedIsFlying
    <3>3. flight[j] \in Callers
      BY <3>1 DEF Flights, JoinersHaveLeaders
    <3>4. QED
      BY <3>1, <3>2, <3>3 DEF Leads
  <2>2. QED
    BY <2>1 DEF JoinedIsFlying
<1>8. QED
  BY <1>2, <1>3, <1>5, <1>6, <1>7 DEF Flights

LEMMA FinishIInv ==
    ASSUME IInv, NEW c \in Callers, FinishOk(c) \/ FinishFailed(c)
    PROVE  IInv'
<1>1. url[c] \in Urls
  BY DEF IInv, Flights, UrlIsKnown, FinishOk, FinishFailed
<1>2. CASE FinishOk(c)
  <2>1. PICK drop \in Evictions : Store(url[c], drop, answer[c])
    BY <1>2 DEF FinishOk
  <2>2. answer[c] \in Depths
    BY <1>2 DEF FinishOk, IInv, TypeOK
  <2>3. /\ CacheIsSound'
        /\ stored' \subseteq Urls
        /\ at' \in [Urls -> 0..MaxClock]
        /\ cached' \in [Urls -> Depths \cup {Failed}]
    BY <1>1, <2>1, <2>2, StoreFits DEF IInv
  <2>4. /\ Flights'
        /\ inflight' \in [Urls -> Callers \cup {NoCaller}]
        /\ pc' \in [Callers -> Places]
        /\ answer' \in [Callers -> Depths \cup {Failed}]
    BY <1>2, LandFlights DEF FinishOk
  <2>5. TypeOK'
    BY <1>2, <2>3, <2>4 DEF FinishOk, IInv, TypeOK
  <2>6. QED
    BY <2>3, <2>4, <2>5 DEF IInv
<1>3. CASE FinishFailed(c)
  <2>1. /\ Flights'
        /\ inflight' \in [Urls -> Callers \cup {NoCaller}]
        /\ pc' \in [Callers -> Places]
        /\ answer' \in [Callers -> Depths \cup {Failed}]
    BY <1>3, LandFlights DEF FinishFailed
  <2>2. TypeOK' /\ CacheIsSound'
    BY <1>3, <2>1 DEF FinishFailed, IInv, TypeOK, CacheIsSound, cacheVars
  <2>3. QED
    BY <2>1, <2>2 DEF IInv
<1>4. QED
  BY <1>2, <1>3

LEMMA NextIInv == IInv /\ [Next]_vars => IInv'
<1> SUFFICES ASSUME IInv, [Next]_vars
             PROVE  IInv'
  OBVIOUS
<1>1. CASE Tick \/ UNCHANGED vars
  <2>1. now' \in 0..MaxClock
    BY <1>1, UrlCheckAssumption DEF Tick, vars, IInv, TypeOK
  <2>2. UNCHANGED <<cacheVars, inflight, pc, url, depth, flight, checked, answer>>
    BY <1>1 DEF Tick, vars
  <2>3. QED
    BY <2>1, <2>2
       DEF cacheVars, IInv, TypeOK, Flights, UrlIsKnown, JoinersHaveLeaders, LeadersAreListed,
           OneFlight, JoinedIsFlying, Leads, CacheIsSound
<1>2. ASSUME NEW c \in Callers,
             \/ \E u \in Urls, d \in -1..MaxDepth + 1 : Request(c, u, d)
             \/ Serve(c)
             \/ Leave(c)
      PROVE  IInv'
  BY <1>2, PrivateIInv, BeginIInv, ProbeIInv, FinishIInv DEF Serve
<1>3. QED
  BY <1>1, <1>2 DEF Next

LEMMA Invariance == Spec => []IInv
BY InitIInv, NextIInv, PTL DEF Spec

LEMMA InitDepth == Init => DepthIsKept
BY DEF Init, DepthIsKept, OnlyJoinersAreShort

\* No step lets a caller without a flight have less than it asked for.
LEMMA NextDepth == IInv /\ DepthIsKept /\ [Next]_vars => DepthIsKept'
<1> SUFFICES ASSUME IInv, DepthIsKept, [Next]_vars
             PROVE  DepthIsKept'
  OBVIOUS
<1> USE DEF DepthIsKept, OnlyJoinersAreShort, IInv, TypeOK, Places, Goto, cacheVars
<1>1. CASE Tick \/ UNCHANGED vars
  BY <1>1 DEF Tick, vars
<1>2. ASSUME NEW c \in Callers, NEW u \in Urls, NEW d \in -1..MaxDepth + 1, Request(c, u, d)
      PROVE  DepthIsKept'
  BY <1>2 DEF Request
<1>3. ASSUME NEW c \in Callers, Hit(c)
      PROVE  DepthIsKept'
  <2>1. url[c] \in Urls
    BY <1>3 DEF Hit, Flights, UrlIsKnown
  <2>2. cached[url[c]] \in Depths \cup {Failed} /\ depth[c] \in Depths
    BY <2>1
  <2>3. ~(cached[url[c]] < depth[c])
    BY <1>3, <2>2, UrlCheckAssumption DEF Hit, Depths, Failed
  <2>4. QED
    BY <1>3, <2>3 DEF Hit
<1>4. ASSUME NEW c \in Callers, Miss(c) \/ Lead(c)
      PROVE  DepthIsKept'
  BY <1>4 DEF Miss, Lead
<1>5. ASSUME NEW c \in Callers, Join(c)
      PROVE  DepthIsKept'
  BY <1>5 DEF Join
<1>6. ASSUME NEW c \in Callers, ProbeAlive(c) \/ ProbePool(c)
      PROVE  DepthIsKept'
  BY <1>6 DEF ProbeAlive, ProbePool, Result
<1>7. ASSUME NEW c \in Callers, FinishOk(c) \/ FinishFailed(c)
      PROVE  DepthIsKept'
  <2>1. pc[c] = "finish" /\ Land(c) /\ UNCHANGED <<depth, flight>>
    BY <1>7 DEF FinishOk, FinishFailed
  <2>2. ~(answer[c] # Failed /\ answer[c] < depth[c])
    BY <2>1, UrlCheckAssumption DEF Depths, Failed
  <2>3. QED
    BY <2>1, <2>2 DEF Land, Joined
<1>8. ASSUME NEW c \in Callers, Take(c) \/ Leave(c) \/ Respond(c)
      PROVE  DepthIsKept'
  BY <1>8 DEF Take, Leave, Respond
<1>9. QED
  BY <1>1, <1>2, <1>3, <1>4, <1>5, <1>6, <1>7, <1>8 DEF Next, Serve

\* The state of /check is well typed.
THEOREM TypeCorrect == Spec => []TypeOK
<1>1. IInv => TypeOK
  BY DEF IInv
<1>2. QED
  BY <1>1, Invariance, PTL

\* begin and finish keep one flight per URL, whoever asks and whatever fails.
THEOREM SingleFlight == Spec => []OneFlight
<1>1. IInv => OneFlight
  BY DEF IInv, Flights
<1>2. QED
  BY <1>1, Invariance, PTL

\* No joiner outlives the flight it waits for.
THEOREM NoJoinerIsForgotten == Spec => []JoinedIsFlying
<1>1. IInv => JoinedIsFlying
  BY DEF IInv, Flights
<1>2. QED
  BY <1>1, Invariance, PTL

\* The cache keeps its limit and holds no error.
THEOREM CacheIsBounded == Spec => []CacheIsSound
<1>1. IInv => CacheIsSound
  BY DEF IInv
<1>2. QED
  BY <1>1, Invariance, PTL

\* The cache never answers with less than was asked for, and neither does a flight
\* its leader.
THEOREM CacheIsDeepEnough == Spec => []OnlyJoinersAreShort
<1>1. DepthIsKept => OnlyJoinersAreShort
  BY DEF DepthIsKept
<1>2. QED
  BY <1>1, InitDepth, NextDepth, Invariance, PTL DEF Spec
===============================================================================
