--------------------------------- MODULE Probe ---------------------------------
(***************************************************************************)
(* The probe of an upstream (raceProbe in v2proxy/healthcheck.go): every   *)
(* target of probeLegs is asked at once, and the first answer that its     *)
(* target's own rule accepts decides. If none is accepted the answer that  *)
(* came first does, so the order in which targets fail matters.            *)
(*                                                                         *)
(* The channel has room for every leg: a leg that answers after the        *)
(* verdict blocks nobody and is left out.                                  *)
(***************************************************************************)

CONSTANTS
    Legs,       \* the targets of probeLegs
    AnyAnswer   \* those that any completed exchange satisfies: Telegram's

ASSUME LegsAssumption == Legs # {} /\ AnyAnswer \subseteq Legs

\* What testSingleURL may find: 2xx or 3xx, 429 or 403, another status, or no
\* exchange at all (a transport error, or its timeout).
Answers == {"ok", "throttled", "refused", "silent"}
Verdicts == {"adopt", "unproven", "reject"}
None == "none"

VARIABLES
    got,        \* the answers that have come
    first,      \* the first of them
    verdict     \* classifyProbe of what raceProbe returns

raceVars == <<got, first, verdict>>

RaceTypeOK ==
    /\ got \in [Legs -> Answers \cup {None}]
    /\ first \in Answers \cup {None}
    /\ verdict \in Verdicts \cup {None}

NoRace == [l \in Legs |-> None]

RaceInit == got = NoRace /\ first = None /\ verdict = None

\* The grade of a leg: statusOK, or telegramWorking.
Accepts(l, a) == IF l \in AnyAnswer THEN a # "silent" ELSE a = "ok"

\* classifyProbe, of an answer that was not accepted.
Classify(a) == IF a = "throttled" THEN "unproven" ELSE "reject"

Launch ==
    /\ got' = NoRace
    /\ first' = None
    /\ verdict' = None

\* Mutated: the first answer decides.
AnswerFirstOnly(l, a) ==
    /\ verdict = None
    /\ got[l] = None
    /\ got' = [got EXCEPT ![l] = a]
    /\ first' = a
    /\ verdict' = IF Accepts(l, a) THEN "adopt" ELSE Classify(a)

Answer(l, a) ==
    /\ verdict = None
    /\ got[l] = None
    /\ got' = [got EXCEPT ![l] = a]
    /\ first' = IF first = None THEN a ELSE first
    /\ verdict' = IF Accepts(l, a) THEN "adopt"
                  ELSE IF \A k \in Legs \ {l} : got[k] # None THEN Classify(first')
                  ELSE None

\* What is known of the race when it has a verdict, whatever the order of the
\* answers (raceProbe): a target that accepts is never outvoted, and an upstream
\* is rejected only by all of its targets, the first of which did not throttle. (One
\* that throttles after another has failed does not prevent the rejection.)
VerdictIsJust ==
    /\ verdict = "adopt" <=> \E l \in Legs : got[l] # None /\ Accepts(l, got[l])
    /\ verdict = "reject" => /\ \A l \in Legs : got[l] # None
                             /\ first # "throttled"
===============================================================================
