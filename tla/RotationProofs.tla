---------------------------- MODULE RotationProofs ----------------------------
(***************************************************************************)
(* Theorems about Rotation, for any legs, refreshers, clients and limits.  *)
(*                                                                         *)
(* Three facts carry them. VerdictIsJust is inductive by itself. The clock *)
(* of the blind scans is never older than the child (ClockIsYoung). And    *)
(* what a refresh has seen stays true of the clients that were there       *)
(* (SightHolds): between its scan and its switch clients may come, but     *)
(* then they are late.                                                     *)
(***************************************************************************)
EXTENDS Rotation, TLAPS

ClockIsYoung == unproven = Never \/ unproven <= childAge

Decided == {"fresh", "slow", "probe", "switch"}

SightHolds ==
    \A r \in Refreshers :
        /\ pc[r] \in Decided => seen[r] # "occupied"
        /\ pc[r] \in Decided \cup {"judge"} /\ seen[r] = "empty"
              => open \cap Direct \subseteq late[r]

IInv == TypeOK /\ VerdictIsJust /\ ClockIsYoung /\ SightHolds

-------------------------------------------------------------------------------
\* The race.

\* An accepted answer, and only one, makes raceProbe's verdict "adopt"; a rejection
\* takes them all.
LEMMA AnswerIsJust ==
    ASSUME RaceTypeOK, VerdictIsJust, NEW l \in Legs, NEW a \in Answers, Answer(l, a)
    PROVE  RaceTypeOK' /\ VerdictIsJust'
<1> USE DEF RaceTypeOK, VerdictIsJust, Answers, Verdicts, None, Classify
<1>1. RaceTypeOK'
  BY DEF Answer
<1>2. /\ got' = [got EXCEPT ![l] = a]
      /\ \A k \in Legs \ {l} : got'[k] = got[k]
      /\ got'[l] = a /\ a # None
  BY DEF Answer
<1>3. \A k \in Legs : got[k] # None => ~Accepts(k, got[k])
  BY DEF Answer
<1>4. CASE Accepts(l, a)
  <2>1. verdict' = "adopt"
    BY <1>4 DEF Answer
  <2>2. QED
    BY <1>1, <1>2, <1>4, <2>1
<1>5. CASE ~Accepts(l, a)
  <2>1. \A k \in Legs : got'[k] # None => ~Accepts(k, got'[k])
    BY <1>2, <1>3, <1>5
  <2>2. verdict' = IF \A k \in Legs \ {l} : got[k] # None THEN Classify(first') ELSE None
    BY <1>5 DEF Answer
  <2>3. verdict' # "adopt"
    BY <2>2
  <2>4. verdict' = "reject" => first' # "throttled" /\ \A k \in Legs : got'[k] # None
    BY <1>2, <2>2
  <2>5. QED
    BY <1>1, <2>1, <2>3, <2>4
<1>6. QED
  BY <1>4, <1>5

LEMMA LaunchIsJust ==
    ASSUME Launch
    PROVE  RaceTypeOK' /\ VerdictIsJust'
BY DEF Launch, NoRace, RaceTypeOK, VerdictIsJust, None, Answers, Verdicts

-------------------------------------------------------------------------------
LEMMA InitIInv == Init => IInv
<1> SUFFICES ASSUME Init
             PROVE  IInv
  OBVIOUS
<1> USE RotationAssumption
<1>1. TypeOK
  <2>1. RaceTypeOK
    BY DEF Init, RaceInit, RaceTypeOK, NoRace
  <2>2. /\ 0 \in 0..FailThreshold /\ 0 \in 0..MaxAge + 1 /\ 0 \in 0..UnprovenGrace
        /\ EgressGrace \in 0..EgressGrace
    OBVIOUS
  <2>3. QED
    BY <2>1, <2>2 DEF Init, TypeOK, Places, Evidence
<1>2. VerdictIsJust
  BY DEF Init, RaceInit, VerdictIsJust, NoRace, None
<1>3. ClockIsYoung /\ SightHolds
  BY DEF Init, ClockIsYoung, SightHolds, Decided
<1>4. QED
  BY <1>1, <1>2, <1>3 DEF IInv

\* The health loop.
LEMMA HealthIInv ==
    ASSUME IInv, HealthSteps
    PROVE  IInv'
<1> USE RotationAssumption DEF IInv, TypeOK, ClockIsYoung, SightHolds, Decided, instVars,
        jobVars, worldVars
<1>1. CASE CheckVouched
  <2>1. RaceTypeOK' /\ VerdictIsJust'
    BY <1>1 DEF CheckVouched, raceVars, RaceTypeOK, VerdictIsJust
  <2>2. /\ fails' = 0 /\ due' = FALSE
        /\ UNCHANGED <<lat, measured, noted, unproven, health, childAge>>
        /\ UNCHANGED <<pc, own, seen, open, blind, late>>
    BY <1>1 DEF CheckVouched
  <2>3. fails' \in 0..FailThreshold
    BY <2>2
  <2>4. TypeOK' /\ ClockIsYoung' /\ SightHolds'
    BY <2>1, <2>2, <2>3
  <2>5. QED
    BY <2>1, <2>4
<1>2. CASE CheckBegins
  BY <1>2, LaunchIsJust DEF CheckBegins
<1>3. CASE LegAnswers
  <2>1. RaceTypeOK' /\ VerdictIsJust'
    BY <1>3, AnswerIsJust DEF LegAnswers
  <2>2. QED
    BY <1>3, <2>1 DEF LegAnswers
<1>4. CASE CheckEnds
  <2>1. RaceTypeOK' /\ VerdictIsJust'
    BY <1>4, LaunchIsJust DEF CheckEnds
  <2>2. fails' \in 0..FailThreshold
    BY <1>4 DEF CheckEnds, RaceTypeOK, Verdicts, None
  <2>3. QED
    BY <1>4, <2>1, <2>2 DEF CheckEnds
<1>5. CASE FailOver
  BY <1>5 DEF FailOver, Swap, NewLatency, raceVars, RaceTypeOK, VerdictIsJust, Never
<1>6. CASE NoFailOver
  BY <1>6 DEF NoFailOver, raceVars, RaceTypeOK, VerdictIsJust
<1>7. QED
  BY <1>1, <1>2, <1>3, <1>4, <1>5, <1>6 DEF HealthSteps

\* reconcileActive, up to what the guard says.
LEMMA GuardIInv ==
    ASSUME IInv, NEW r \in Refreshers,
           \/ Quiet(r) \/ ReadOwn(r) \/ ReadTables(r)
           \/ Occupied(r) \/ Empty(r) \/ Unknown(r) \/ Expired(r)
    PROVE  IInv'
<1> USE RotationAssumption DEF IInv, TypeOK, ClockIsYoung, SightHolds, Decided, instVars,
        jobVars, worldVars, raceVars, RaceTypeOK, VerdictIsJust, Goto, Places, Evidence, Never
<1>1. CASE Quiet(r)
  BY <1>1 DEF Quiet
<1>2. CASE ReadOwn(r)
  BY <1>2 DEF ReadOwn, OwnSockets
<1>3. CASE ReadTables(r)
  <2>1. seen'[r] = "empty" => open \cap Direct = {}
    BY <1>3 DEF ReadTables, Foreign
  <2>2. QED
    BY <1>3, <2>1 DEF ReadTables
<1>4. CASE Occupied(r)
  BY <1>4 DEF Occupied, Reset
<1>5. CASE Empty(r)
  BY <1>5 DEF Empty
<1>6. CASE Unknown(r)
  BY <1>6 DEF Unknown, Reset
<1>7. CASE Expired(r)
  BY <1>7 DEF Expired
<1>8. QED
  BY <1>1, <1>2, <1>3, <1>4, <1>5, <1>6, <1>7

\* And from there to the switch.
LEMMA SwitchIInv ==
    ASSUME IInv, NEW r \in Refreshers,
           \/ CheckFresh(r) \/ CheckSlow(r) \/ CandidateWins(r) \/ NoCandidate(r)
           \/ Rotate(r) \/ NoSwitch(r)
    PROVE  IInv'
<1> USE RotationAssumption DEF IInv, TypeOK, ClockIsYoung, SightHolds, Decided, instVars,
        jobVars, worldVars, raceVars, RaceTypeOK, VerdictIsJust, Goto, Places, Evidence, Never
<1>1. CASE CheckFresh(r)
  BY <1>1 DEF CheckFresh, Reset
<1>2. CASE CheckSlow(r)
  BY <1>2 DEF CheckSlow, Reset
<1>3. CASE CandidateWins(r)
  BY <1>3 DEF CandidateWins
<1>4. CASE NoCandidate(r)
  BY <1>4 DEF NoCandidate, Reset
<1>5. CASE Rotate(r)
  BY <1>5 DEF Rotate, Swap, NewLatency, Reset
<1>6. CASE NoSwitch(r)
  BY <1>6 DEF NoSwitch, Reset
<1>7. QED
  BY <1>1, <1>2, <1>3, <1>4, <1>5, <1>6

\* Clients, the kernel and time.
LEMMA WorldIInv ==
    ASSUME IInv, World
    PROVE  IInv'
<1> USE RotationAssumption DEF IInv, TypeOK, ClockIsYoung, SightHolds, Decided, instVars,
        jobVars, worldVars, raceVars, RaceTypeOK, VerdictIsJust
<1>1. ASSUME NEW c \in Clients, Connect(c)
      PROVE  IInv'
  <2>1. late' \in [Refreshers -> SUBSET Direct]
    BY <1>1 DEF Connect
  <2>2. SightHolds'
    BY <1>1 DEF Connect
  <2>3. QED
    BY <1>1, <2>1, <2>2 DEF Connect
<1>2. ASSUME NEW c \in Clients, Leave(c) \/ Bytes(c)
      PROVE  IInv'
  BY <1>2 DEF Leave, Bytes
<1>3. CASE ProcChanges
  BY <1>3 DEF ProcChanges
<1>4. CASE Tick
  <2>1. /\ measured' \in 0..MaxAge + 1
        /\ noted' \in 0..EgressGrace
        /\ unproven' \in {Never} \cup 0..UnprovenGrace
        /\ childAge' \in 0..UnprovenGrace
    BY <1>4 DEF Tick, Older, Never
  <2>2. ClockIsYoung'
    BY <1>4 DEF Tick, Older, Never
  <2>3. QED
    BY <1>4, <2>1, <2>2 DEF Tick
<1>5. QED
  BY <1>1, <1>2, <1>3, <1>4 DEF World

LEMMA NextIInv == IInv /\ [Next]_vars => IInv'
<1> SUFFICES ASSUME IInv, [Next]_vars
             PROVE  IInv'
  OBVIOUS
<1>1. CASE UNCHANGED vars
  BY <1>1 DEF vars, IInv, TypeOK, ClockIsYoung, SightHolds, instVars, jobVars, worldVars,
              raceVars, RaceTypeOK, VerdictIsJust
<1>2. CASE Next
  BY <1>2, HealthIInv, GuardIInv, SwitchIInv, WorldIInv DEF Next, RefreshSteps
<1>3. QED
  BY <1>1, <1>2

LEMMA Invariance == Spec => []IInv
BY InitIInv, NextIInv, PTL DEF Spec

-------------------------------------------------------------------------------
\* The state of the guard is well typed.
THEOREM TypeCorrect == Spec => []TypeOK
<1>1. IInv => TypeOK
  BY DEF IInv
<1>2. QED
  BY <1>1, Invariance, PTL

\* Whatever the order in which the legs of raceProbe answer, a target that accepts
\* is not outvoted, and it takes all of them to reject an upstream.
THEOREM RaceIsJust == Spec => []VerdictIsJust
<1>1. IInv => VerdictIsJust
  BY DEF IInv
<1>2. QED
  BY <1>1, Invariance, PTL

\* The guard expires at most once per grace of a child.
THEOREM ExpiryIsRare == Spec => ExpiryIsEarned
<1> DEFINE Earned == \A r \in Refreshers : Expired(r) => childAge >= UnprovenGrace
<1>1. IInv /\ [Next]_vars => [Earned]_vars
  BY RotationAssumption DEF IInv, TypeOK, ClockIsYoung, Expired, Never
<1>2. QED
  BY <1>1, Invariance, PTL DEF Spec, ExpiryIsEarned

\* No rotation cuts a client whose socket the scan could see.
THEOREM SeenAreSpared == Spec => SeenIsSpared
<1> DEFINE Spares == \A r \in Refreshers :
                        Rotate(r) /\ seen[r] # "unknown" => open \cap Direct \subseteq late[r]
<1>1. IInv /\ [Next]_vars => [Spares]_vars
  BY DEF IInv, TypeOK, Evidence, SightHolds, Decided, Rotate
<1>2. QED
  BY <1>1, Invariance, PTL DEF Spec, SeenIsSpared
===============================================================================
