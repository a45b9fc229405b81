------------------------------- MODULE UrlCheck -------------------------------
(***************************************************************************)
(* The /check endpoint: CheckURL over urlCheckCache (v2proxy/urlcheck.go). *)
(*                                                                         *)
(* A caller first looks into the cache, and after a miss either leads a    *)
(* flight, one round of probing of its URL, or joins the one in the air.   *)
(* get, begin and finish are one critical section of the cache's mutex     *)
(* each, and nothing is held between them.                                 *)
(*                                                                         *)
(* An answer is the depth it is labelled with; what the probes found, and  *)
(* how much of the pool a context that ended early left unprobed, is left  *)
(* out. Failed is any answer that carries an error.                        *)
(***************************************************************************)
EXTENDS Integers, FiniteSets

CONSTANTS
    Urls,           \* probe URLs (checkTarget.ProbeURL)
    Callers,        \* requests in progress at a time
    NoCaller,       \* nobody
    NoUrl,          \* no URL
    MaxDepth,       \* checkMaxDepth
    TTL,            \* checkCacheTTL
    MaxEntries,     \* checkCacheEntries
    MaxClock        \* bound: where time stops

ASSUME UrlCheckAssumption ==
    /\ IsFiniteSet(Urls)
    /\ NoCaller \notin Callers
    /\ NoUrl \notin Urls
    /\ MaxDepth \in Nat
    /\ TTL \in Nat
    /\ MaxEntries \in Nat \ {0}
    /\ MaxClock \in Nat

VARIABLES
    now,        \* clock()
    stored,     \* the keys of entries
    at,         \* when an entry was written
    cached,     \* the answer of an entry
    inflight,   \* who leads the flight of a URL
    pc,         \* where a caller stands
    url,        \* what it asks for
    depth,      \* how deep
    flight,     \* whose flight it has joined
    checked,    \* res.Checked > 0
    answer      \* what it will return

cacheVars == <<stored, at, cached>>
vars == <<now, cacheVars, inflight, pc, url, depth, flight, checked, answer>>

Depths == 0..MaxDepth
Failed == -1

Places == {"idle", "get", "begin", "alive", "pool", "finish", "join", "woken", "answered"}

TypeOK ==
    /\ now \in 0..MaxClock
    /\ stored \subseteq Urls
    /\ at \in [Urls -> 0..MaxClock]
    /\ cached \in [Urls -> Depths \cup {Failed}]
    /\ inflight \in [Urls -> Callers \cup {NoCaller}]
    /\ pc \in [Callers -> Places]
    /\ url \in [Callers -> Urls \cup {NoUrl}]
    /\ depth \in [Callers -> Depths]
    /\ flight \in [Callers -> Callers \cup {NoCaller}]
    /\ checked \in [Callers -> BOOLEAN]
    /\ answer \in [Callers -> Depths \cup {Failed}]

Init ==
    /\ now = 0
    /\ stored = {}
    /\ at = [u \in Urls |-> 0]
    /\ cached = [u \in Urls |-> Failed]
    /\ inflight = [u \in Urls |-> NoCaller]
    /\ pc = [c \in Callers |-> "idle"]
    /\ url = [c \in Callers |-> NoUrl]
    /\ depth = [c \in Callers |-> 0]
    /\ flight = [c \in Callers |-> NoCaller]
    /\ checked = [c \in Callers |-> FALSE]
    /\ answer = [c \in Callers |-> Failed]

-------------------------------------------------------------------------------
Goto(c, place) == pc' = [pc EXCEPT ![c] = place]

\* The depth CheckURL makes of the one it is asked for.
Clamped(d) == IF d < 0 THEN 0 ELSE IF d > MaxDepth THEN MaxDepth ELSE d

Request(c, u, d) ==
    /\ pc[c] = "idle"
    /\ Goto(c, "get")
    /\ url' = [url EXCEPT ![c] = u]
    /\ depth' = [depth EXCEPT ![c] = Clamped(d)]
    /\ UNCHANGED <<now, cacheVars, inflight, flight, checked, answer>>

\* get: the entry of u is there and not too old.
Fresh(u) == u \in stored /\ now - at[u] <= TTL

\* Mutated: an entry of any depth will do.
HitShallow(c) ==
    LET u == url[c]
    IN  /\ pc[c] = "get"
        /\ Fresh(u)
        /\ answer' = [answer EXCEPT ![c] = cached[u]]
        /\ Goto(c, "answered")
        /\ UNCHANGED <<now, cacheVars, inflight, url, depth, flight, checked>>

\* "A deeper earlier result still satisfies a shallower request."
Hit(c) ==
    LET u == url[c]
    IN  /\ pc[c] = "get"
        /\ Fresh(u)
        /\ cached[u] >= depth[c]
        /\ answer' = [answer EXCEPT ![c] = cached[u]]
        /\ Goto(c, "answered")
        /\ UNCHANGED <<now, cacheVars, inflight, url, depth, flight, checked>>

Miss(c) ==
    /\ pc[c] = "get"
    /\ ~(Fresh(url[c]) /\ cached[url[c]] >= depth[c])
    /\ Goto(c, "begin")
    /\ UNCHANGED <<now, cacheVars, inflight, url, depth, flight, checked, answer>>

\* Mutated: begin does not look for a flight.
LeadAlways(c) ==
    /\ pc[c] = "begin"
    /\ inflight' = [inflight EXCEPT ![url[c]] = c]
    /\ Goto(c, "alive")
    /\ UNCHANGED <<now, cacheVars, url, depth, flight, checked, answer>>

\* begin, without and with a flight of the same URL in the air. The depth of the
\* flight is not looked at.
Lead(c) ==
    /\ pc[c] = "begin"
    /\ inflight[url[c]] = NoCaller
    /\ inflight' = [inflight EXCEPT ![url[c]] = c]
    /\ Goto(c, "alive")
    /\ UNCHANGED <<now, cacheVars, url, depth, flight, checked, answer>>

Join(c) ==
    /\ pc[c] = "begin"
    /\ inflight[url[c]] # NoCaller
    /\ flight' = [flight EXCEPT ![c] = inflight[url[c]]]
    /\ Goto(c, "join")
    /\ UNCHANGED <<now, cacheVars, inflight, url, depth, checked, answer>>

-------------------------------------------------------------------------------
\* runURLCheck, the leader's work.

\* The result, an error unless at least one probe was performed.
Result(c, some) ==
    /\ answer' = [answer EXCEPT ![c] = IF some THEN depth[c] ELSE Failed]
    /\ checked' = [checked EXCEPT ![c] = FALSE]
    /\ Goto(c, "finish")

\* The instances that serve have been probed; there may be none. The pool follows
\* if it was asked for and the context is still alive: checkBudget may have run out
\* by now, or the leader's client gone away.
ProbeAlive(c) ==
    /\ pc[c] = "alive"
    /\ \E serving \in BOOLEAN :
          \/ /\ depth[c] > 0
             /\ checked' = [checked EXCEPT ![c] = serving]
             /\ Goto(c, "pool")
             /\ UNCHANGED answer
          \/ Result(c, serving)
    /\ UNCHANGED <<now, cacheVars, inflight, url, depth, flight>>

\* The pool has been probed, to the asked depth or until the context ended.
ProbePool(c) ==
    /\ pc[c] = "pool"
    /\ \E some \in BOOLEAN : Result(c, checked[c] \/ some)
    /\ UNCHANGED <<now, cacheVars, inflight, url, depth, flight>>

\* Mutated: one entry too many fits.
EvictionsOffByOne ==
    {drop \in SUBSET stored :
        /\ Cardinality(stored \ drop) <= MaxEntries
        /\ drop # {} => Cardinality(stored \ drop) = MaxEntries
        /\ \A u \in drop, v \in stored \ drop : at[u] <= at[v]}

\* The entries that make room for a new one: the oldest, as few as it takes. An
\* entry of the same URL counts like any other.
Evictions ==
    {drop \in SUBSET stored :
        /\ Cardinality(stored \ drop) < MaxEntries
        /\ drop # {} => Cardinality(stored \ drop) = MaxEntries - 1
        /\ \A u \in drop, v \in stored \ drop : at[u] <= at[v]}

Store(u, drop, res) ==
    /\ stored' = (stored \ drop) \cup {u}
    /\ at' = [v \in Urls |-> IF v = u THEN now ELSE IF v \in drop THEN 0 ELSE at[v]]
    /\ cached' = [v \in Urls |-> IF v = u THEN res
                                 ELSE IF v \in drop THEN Failed ELSE cached[v]]

\* The callers that wait for the flight of c.
Joined(c) == {j \in Callers : pc[j] = "join" /\ flight[j] = c}

\* Mutated: the flight lands, and nobody is woken.
LandSilently(c) ==
    /\ Goto(c, "answered")
    /\ UNCHANGED answer

\* close(f.done)
Land(c) ==
    /\ pc' = [j \in Callers |-> IF j = c THEN "answered"
                                ELSE IF j \in Joined(c) THEN "woken" ELSE pc[j]]
    /\ answer' = [j \in Callers |-> IF j \in Joined(c) THEN answer[c] ELSE answer[j]]

\* Mutated: a failed flight returns before it lands.
FinishFailedEarly(c) ==
    /\ pc[c] = "finish"
    /\ answer[c] = Failed
    /\ Goto(c, "answered")
    /\ UNCHANGED <<now, cacheVars, inflight, url, depth, flight, checked, answer>>

\* finish: an answer without an error is remembered; the flight lands either way.
FinishOk(c) ==
    /\ pc[c] = "finish"
    /\ answer[c] # Failed
    /\ \E drop \in Evictions : Store(url[c], drop, answer[c])
    /\ inflight' = [inflight EXCEPT ![url[c]] = NoCaller]
    /\ Land(c)
    /\ UNCHANGED <<now, url, depth, flight, checked>>

FinishFailed(c) ==
    /\ pc[c] = "finish"
    /\ answer[c] = Failed
    /\ inflight' = [inflight EXCEPT ![url[c]] = NoCaller]
    /\ Land(c)
    /\ UNCHANGED <<now, cacheVars, url, depth, flight, checked>>

-------------------------------------------------------------------------------
\* A joiner takes the flight's result, or its own context ends first; when both
\* are ready, select takes either.
Take(c) ==
    /\ pc[c] = "woken"
    /\ Goto(c, "answered")
    /\ UNCHANGED <<now, cacheVars, inflight, url, depth, flight, checked, answer>>

Leave(c) ==
    /\ pc[c] \in {"join", "woken"}
    /\ Goto(c, "answered")
    /\ answer' = [answer EXCEPT ![c] = Failed]
    /\ UNCHANGED <<now, cacheVars, inflight, url, depth, flight, checked>>

\* The handler has written the answer; the next request is another one.
Respond(c) ==
    /\ pc[c] = "answered"
    /\ Goto(c, "idle")
    /\ url' = [url EXCEPT ![c] = NoUrl]
    /\ depth' = [depth EXCEPT ![c] = 0]
    /\ flight' = [flight EXCEPT ![c] = NoCaller]
    /\ answer' = [answer EXCEPT ![c] = Failed]
    /\ UNCHANGED <<now, cacheVars, inflight, checked>>

Tick ==
    /\ now < MaxClock
    /\ now' = now + 1
    /\ UNCHANGED <<cacheVars, inflight, pc, url, depth, flight, checked, answer>>

\* What a request does on its own account once it is made, its client's departure
\* aside.
Serve(c) ==
    \/ Hit(c) \/ Miss(c)
    \/ Lead(c) \/ Join(c)
    \/ ProbeAlive(c) \/ ProbePool(c)
    \/ FinishOk(c) \/ FinishFailed(c)
    \/ Take(c)
    \/ Respond(c)

Next ==
    \/ Tick
    \/ \E c \in Callers :
          \/ \E u \in Urls, d \in -1..MaxDepth + 1 : Request(c, u, d)
          \/ Serve(c)
          \/ Leave(c)

Spec == Init /\ [][Next]_vars

\* Probes have timeouts, so a handler always goes on; no client has to give up.
FairSpec == Spec /\ \A c \in Callers : WF_vars(Serve(c))

-------------------------------------------------------------------------------
\* Properties.

Leads(c) == pc[c] \in {"alive", "pool", "finish"}

\* "Concurrent requests for the SAME probe URL share one round of probing" (the
\* comment on checkFlight): no two callers probe one URL at a time, and whoever
\* has claimed the flight of a URL in inflight is still probing it.
OneFlight ==
    /\ \A c, d \in Callers : Leads(c) /\ Leads(d) /\ url[c] = url[d] => c = d
    /\ \A u \in Urls : inflight[u] # NoCaller => Leads(inflight[u]) /\ url[inflight[u]] = u

\* Nobody waits for a flight that has landed: between begin and finish a joiner's
\* leader keeps probing the joiner's URL, although the leader may long be busy
\* with another request when a joiner it has woken reads the result.
JoinedIsFlying ==
    \A c \in Callers :
        pc[c] = "join" => Leads(flight[c]) /\ url[flight[c]] = url[c]

\* The cache never outgrows checkCacheEntries, and holds no answer with an error,
\* which would be served for a whole TTL (finish).
CacheIsSound ==
    /\ Cardinality(stored) <= MaxEntries
    /\ \A u \in stored : cached[u] # Failed

\* Every request is answered, the joiners of a flight included, whatever becomes
\* of its leader's client (CheckURL).
EveryoneIsAnswered == \A c \in Callers : (pc[c] = "get") ~> (pc[c] = "answered")

\* "A shallower one must NOT satisfy a deeper request" (CheckURL, urlcheck.go:
\* 354-355), whatever was evicted, overwritten by a shallower flight or expired
\* meanwhile, except for a caller that has joined a flight: begin does not look at
\* its depth. So an answer shorter than the request came from the flight of another.
OnlyJoinersAreShort ==
    \A c \in Callers :
        pc[c] = "answered" /\ answer[c] # Failed /\ answer[c] < depth[c]
            => flight[c] # NoCaller
===============================================================================
