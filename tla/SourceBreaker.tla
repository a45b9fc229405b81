----------------------------- MODULE SourceBreaker -----------------------------
(***************************************************************************)
(* The circuit breaker that rests dead subscription sources (srcBreaker in *)
(* v2proxy/manager.go) under the refreshes that use it, and the way of a   *)
(* source's configs into the pool.                                         *)
(*                                                                         *)
(* RefreshSubscriptions asks allow(url) for every source, fetches the      *)
(* allowed ones in parallel (fetchMergedReport in v2proxy/subscription.go),*)
(* reports every outcome with note(url, ok) and gives what was merged to   *)
(* the instances. Each call of the breaker is one critical section of its  *)
(* mutex, but a refresh as a whole is not: the ticker of subscriptionLoop  *)
(* and the goroutine of POST /refresh overlap, so one refresh may be       *)
(* counting a rest down while another still has a fetch of the same source *)
(* in flight, and the older one may be the last to bring its pool.         *)
(*                                                                         *)
(* The configs of a source are the source: a pool is the set of the        *)
(* sources it was merged from.                                             *)
(***************************************************************************)
EXTENDS Integers

CONSTANTS
    Sources,        \* the configured subscription URLs
    Refreshers,     \* the goroutines that run RefreshSubscriptions
    Ticker,         \* the one of subscriptionLoop, which never stops
    FailThreshold,  \* srcFailThreshold
    SkipCycles,     \* srcSkipCycles
    FailCap         \* where the model stops counting failures

\* The code only compares a failure count with FailThreshold, so counts from
\* FailCap on are not told apart.
ASSUME BreakerAssumption ==
    /\ Ticker \in Refreshers
    /\ FailThreshold \in Nat \ {0}
    /\ SkipCycles \in Nat \ {0}
    /\ FailCap \in Nat
    /\ FailCap >= FailThreshold

VARIABLES
    fails,      \* srcBreaker.fails; an absent key reads 0
    skip,       \* srcBreaker.skip; NotResting is an absent key
    pc,         \* where each refresh stands
    todo,       \* the sources a refresh has still to ask about, fetch or note
    allowed,    \* the sources a refresh may fetch
    merged,     \* the sources that have given a refresh configs
    failed,     \* those that have given it none
    pool,       \* configs of an instance
    up          \* the sources that answer with configs

brkVars == <<fails, skip>>
fetchVars == <<merged, failed>>
vars == <<brkVars, pc, todo, allowed, fetchVars, pool, up>>

NotResting == -1

TypeOK ==
    /\ fails \in [Sources -> 0..FailCap]
    /\ skip \in [Sources -> {NotResting} \cup 0..SkipCycles]
    /\ pc \in [Refreshers -> {"idle", "allow", "fetch", "note", "update"}]
    /\ todo \in [Refreshers -> SUBSET Sources]
    /\ allowed \in [Refreshers -> SUBSET Sources]
    /\ merged \in [Refreshers -> SUBSET Sources]
    /\ failed \in [Refreshers -> SUBSET Sources]
    /\ pool \in SUBSET Sources
    /\ up \in SUBSET Sources

\* Startup has fetched a pool from some of the sources, or has given up.
Init ==
    /\ fails = [u \in Sources |-> 0]
    /\ skip = [u \in Sources |-> NotResting]
    /\ pc = [r \in Refreshers |-> "idle"]
    /\ todo = [r \in Refreshers |-> {}]
    /\ allowed = [r \in Refreshers |-> {}]
    /\ merged = [r \in Refreshers |-> {}]
    /\ failed = [r \in Refreshers |-> {}]
    /\ pool \in SUBSET Sources
    /\ up \in SUBSET Sources

-------------------------------------------------------------------------------
\* Mutated forms of the operations below, which the properties must tell from
\* the code: a rest that is not counted down, and a success that forgets the failures
\* but not the rest.
CountDownForgotten(u) == UNCHANGED skip

NoteOkKeepsRest(u) ==
    /\ fails' = [fails EXCEPT ![u] = 0]
    /\ UNCHANGED skip

-------------------------------------------------------------------------------
\* The breaker's own operations.

\* allow(url): a rest with cycles left is counted down and refuses the fetch.
\* The key of a spent rest stays in the map, at 0.
Resting(u) == skip[u] > 0

CountDown(u) == skip' = [skip EXCEPT ![u] = @ - 1]

\* note(url, true): one success forgets both the failures and the rest.
NoteOk(u) ==
    /\ fails' = [fails EXCEPT ![u] = 0]
    /\ skip' = [skip EXCEPT ![u] = NotResting]

\* note(url, false): from the FailThreshold-th failure on, a source that has no
\* key in skip gets one. The key of a spent rest is one.
NoteFailed(u) ==
    LET count == IF fails[u] < FailCap THEN fails[u] + 1 ELSE FailCap
        rests == count >= FailThreshold /\ skip[u] = NotResting
    IN  /\ fails' = [fails EXCEPT ![u] = count]
        /\ skip' = IF rests THEN [skip EXCEPT ![u] = SkipCycles] ELSE skip

-------------------------------------------------------------------------------
\* RefreshSubscriptions.

Goto(r, place) == pc' = [pc EXCEPT ![r] = place]

\* u is no longer to be done.
Done(r, u) == todo' = [todo EXCEPT ![r] = @ \ {u}]

StartRefresh(r) ==
    /\ pc[r] = "idle"
    /\ Goto(r, "allow")
    /\ todo' = [todo EXCEPT ![r] = Sources]
    /\ UNCHANGED <<brkVars, allowed, fetchVars, pool, up>>

Skip(r, u) ==
    /\ pc[r] = "allow"
    /\ u \in todo[r]
    /\ Resting(u)
    /\ CountDown(u)
    /\ Done(r, u)
    /\ UNCHANGED <<fails, pc, allowed, fetchVars, pool, up>>

Allow(r, u) ==
    /\ pc[r] = "allow"
    /\ u \in todo[r]
    /\ ~Resting(u)
    /\ Done(r, u)
    /\ allowed' = [allowed EXCEPT ![r] = @ \cup {u}]
    /\ UNCHANGED <<brkVars, pc, fetchVars, pool, up>>

\* With every source resting the refresh ends here and keeps the old configs.
AllowDone(r) ==
    /\ pc[r] = "allow"
    /\ todo[r] = {}
    /\ Goto(r, IF allowed[r] = {} THEN "idle" ELSE "fetch")
    /\ todo' = [todo EXCEPT ![r] = allowed[r]]
    /\ UNCHANGED <<brkVars, allowed, fetchVars, pool, up>>

-------------------------------------------------------------------------------
\* fetchMergedReport: a goroutine for every allowed source.

\* Mutated: two goroutines append to the same merged, and one of them is lost.
FetchOkAlone(r, u) ==
    /\ pc[r] = "fetch"
    /\ u \in todo[r] \cap up
    /\ merged' = [merged EXCEPT ![r] = {u}]
    /\ Done(r, u)
    /\ UNCHANGED <<brkVars, pc, allowed, failed, pool, up>>

\* FetchSubscription: one of the candidates for u has an answer, at the first attempt
\* or the last, with configs in it.
FetchOk(r, u) ==
    /\ pc[r] = "fetch"
    /\ u \in todo[r] \cap up
    /\ merged' = [merged EXCEPT ![r] = @ \cup {u}]
    /\ Done(r, u)
    /\ UNCHANGED <<brkVars, pc, allowed, failed, pool, up>>

\* It has an answer in which no line is a config, after which nothing more is tried;
\* or the last attempt at the last candidate fails. u may have been up before that.
FetchFails(r, u) ==
    /\ pc[r] = "fetch"
    /\ u \in todo[r] \ up
    /\ failed' = [failed EXCEPT ![r] = @ \cup {u}]
    /\ Done(r, u)
    /\ UNCHANGED <<brkVars, pc, allowed, merged, pool, up>>

\* wg.Wait
FetchDone(r) ==
    /\ pc[r] = "fetch"
    /\ todo[r] = {}
    /\ Goto(r, "note")
    /\ todo' = [todo EXCEPT ![r] = allowed[r]]
    /\ UNCHANGED <<brkVars, allowed, merged, failed, pool, up>>

-------------------------------------------------------------------------------
\* RefreshSubscriptions, with its report.

Note(r, u) ==
    /\ pc[r] = "note"
    /\ u \in todo[r]
    /\ \/ u \notin failed[r] /\ NoteOk(u)
       \/ u \in failed[r] /\ NoteFailed(u)
    /\ Done(r, u)
    /\ UNCHANGED <<pc, allowed, fetchVars, pool, up>>

NoteDone(r) ==
    /\ pc[r] = "note"
    /\ todo[r] = {}
    /\ Goto(r, "update")
    /\ allowed' = [allowed EXCEPT ![r] = {}]
    /\ failed' = [failed EXCEPT ![r] = {}]
    /\ UNCHANGED <<brkVars, todo, merged, pool, up>>

\* UpdateConfigs, or "got 0 configs from all sources, keeping old".
Update(r) ==
    /\ pc[r] = "update"
    /\ pool' = IF merged[r] = {} THEN pool ELSE merged[r]
    /\ merged' = [merged EXCEPT ![r] = {}]
    /\ Goto(r, "idle")
    /\ UNCHANGED <<brkVars, todo, allowed, failed, up>>

-------------------------------------------------------------------------------
\* A source comes or goes, or its list loses every config it had.
SourceFlips(u) ==
    /\ up' = (up \ {u}) \cup ({u} \ up)
    /\ UNCHANGED <<brkVars, pc, todo, allowed, fetchVars, pool>>

Refresh(r) ==
    \/ StartRefresh(r)
    \/ \E u \in Sources : Skip(r, u) \/ Allow(r, u)
    \/ AllowDone(r)
    \/ \E u \in Sources : FetchOk(r, u) \/ FetchFails(r, u)
    \/ FetchDone(r)
    \/ \E u \in Sources : Note(r, u)
    \/ NoteDone(r)
    \/ Update(r)

Next ==
    \/ \E r \in Refreshers : Refresh(r)
    \/ \E u \in Sources : SourceFlips(u)

Spec == Init /\ [][Next]_vars

\* subscriptionLoop calls RefreshSubscriptions on every tick, for ever, and every
\* attempt at a source has a timeout; nothing obliges anybody to POST /refresh.
FairSpec == Spec /\ WF_vars(Refresh(Ticker))

-------------------------------------------------------------------------------
\* Properties.

\* A rest is always backed by FailThreshold failures in a row: with a success
\* and a failure of overlapping refreshes noted in either order, the breaker
\* (note, manager.go) never keeps a rest for a source whose failures it forgot.
RestNeedsFailures ==
    \A u \in Sources : skip[u] # NotResting => fails[u] >= FailThreshold

\* A resting source is asked again: the rest of allow() (manager.go) is counted
\* down to its end as long as the subscription ticker keeps ticking.
RestEnds == \A u \in Sources : (skip[u] > 0) ~> (skip[u] <= 0)

\* A source that stays up after whatever outage is in the pool again, and for good:
\* neither its rest, nor the goroutines that merge beside its own, nor a refresh of
\* the time when it was down, whose failures and whose pool come late, keep it out
\* (RefreshSubscriptions with fetchMergedReport).
SourcesReturn == \A u \in Sources : <>[](u \in up) => <>[](u \in pool)

\* What srcBreaker says of the fetch that follows a rest: it "probes recovery (success
\* resets, failure re-arms)" (manager.go:67-68).
FailureRearms ==
    [][\A r \in Refreshers, u \in Sources :
          Note(r, u) /\ u \in failed[r] /\ skip[u] = 0 => skip'[u] = SkipCycles]_vars

===============================================================================
