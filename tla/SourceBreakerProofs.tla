-------------------------- MODULE SourceBreakerProofs --------------------------
(***************************************************************************)
(* Theorems about SourceBreaker, for any number of sources and overlapping *)
(* refreshes. TypeOK and RestNeedsFailures are inductive together.         *)
(***************************************************************************)
EXTENDS SourceBreaker, TLAPS

IInv == TypeOK /\ RestNeedsFailures

LEMMA InitIInv == Init => IInv
BY BreakerAssumption DEF Init, IInv, TypeOK, RestNeedsFailures, NotResting

\* What note() does to the source it is about.
LEMMA NoteIInv ==
    ASSUME IInv, NEW r \in Refreshers, NEW u \in Sources, Note(r, u)
    PROVE  IInv'
<1> USE BreakerAssumption DEF IInv, TypeOK, RestNeedsFailures, NotResting, Done, fetchVars
<1>1. CASE NoteOk(u)
  BY <1>1 DEF Note, NoteOk
<1>2. CASE NoteFailed(u)
  <2> DEFINE count == IF fails[u] < FailCap THEN fails[u] + 1 ELSE FailCap
             rests == count >= FailThreshold /\ skip[u] = NotResting
  <2>1. count \in 0..FailCap /\ count >= fails[u]
    OBVIOUS
  <2>2. fails' = [fails EXCEPT ![u] = count]
    BY <1>2 DEF NoteFailed
  <2>3. CASE rests
    <3>1. skip' = [skip EXCEPT ![u] = SkipCycles]
      BY <1>2, <2>3 DEF NoteFailed
    <3>2. QED
      BY <2>1, <2>2, <2>3, <3>1 DEF Note
  <2>4. CASE ~rests
    <3>1. skip' = skip
      BY <1>2, <2>4 DEF NoteFailed
    <3>2. QED
      BY <2>1, <2>2, <3>1 DEF Note
  <2>5. QED
    BY <2>3, <2>4
<1>3. QED
  BY <1>1, <1>2 DEF Note

LEMMA NextIInv == IInv /\ [Next]_vars => IInv'
<1> SUFFICES ASSUME IInv, [Next]_vars
             PROVE  IInv'
  OBVIOUS
<1> USE BreakerAssumption DEF IInv, TypeOK, RestNeedsFailures, NotResting
<1> USE DEF Goto, Done, brkVars, fetchVars
<1>1. ASSUME NEW r \in Refreshers, StartRefresh(r)
      PROVE  IInv'
  BY <1>1 DEF StartRefresh
<1>2. ASSUME NEW r \in Refreshers, NEW u \in Sources, Skip(r, u)
      PROVE  IInv'
  BY <1>2 DEF Skip, CountDown, Resting
<1>3. ASSUME NEW r \in Refreshers, NEW u \in Sources, Allow(r, u)
      PROVE  IInv'
  BY <1>3 DEF Allow
<1>4. ASSUME NEW r \in Refreshers, AllowDone(r)
      PROVE  IInv'
  BY <1>4 DEF AllowDone
<1>5. ASSUME NEW r \in Refreshers, NEW u \in Sources, FetchOk(r, u) \/ FetchFails(r, u)
      PROVE  IInv'
  BY <1>5 DEF FetchOk, FetchFails
<1>6. ASSUME NEW r \in Refreshers, FetchDone(r)
      PROVE  IInv'
  BY <1>6 DEF FetchDone
<1>7. ASSUME NEW r \in Refreshers, NEW u \in Sources, Note(r, u)
      PROVE  IInv'
  BY <1>7, NoteIInv
<1>8. ASSUME NEW r \in Refreshers, NoteDone(r) \/ Update(r)
      PROVE  IInv'
  BY <1>8 DEF NoteDone, Update
<1>9. ASSUME NEW u \in Sources, SourceFlips(u)
      PROVE  IInv'
  BY <1>9 DEF SourceFlips
<1>10. CASE UNCHANGED vars
  BY <1>10 DEF vars
<1>11. QED
  BY <1>1, <1>2, <1>3, <1>4, <1>5, <1>6, <1>7, <1>8, <1>9, <1>10 DEF Next, Refresh

LEMMA Invariance == Spec => []IInv
BY InitIInv, NextIInv, PTL DEF Spec

\* The breaker's state is well typed.
THEOREM TypeCorrect == Spec => []TypeOK
<1>1. IInv => TypeOK
  BY DEF IInv
<1>2. QED
  BY <1>1, Invariance, PTL

\* The breaker never keeps a rest for a source whose failures it has forgotten,
\* however the refreshes that note its outcomes overlap.
THEOREM RestsAreEarned == Spec => []RestNeedsFailures
<1>1. IInv => RestNeedsFailures
  BY DEF IInv
<1>2. QED
  BY <1>1, Invariance, PTL

===============================================================================
