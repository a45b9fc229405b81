------------------------------- MODULE Bridge -------------------------------
(***************************************************************************)
(* The SOCKS5 -> HTTP bridge of an instance (v2proxy/httpproxy.go): one    *)
(* handler goroutine per request, the connection slots of connSem, the     *)
(* dial through the instance's SOCKS port with a timeout, plain requests   *)
(* and CONNECT tunnels.                                                    *)
(*                                                                         *)
(* Four goroutines may work for one request: its handler, the goroutine    *)
(* that dials, the one that waits for an abandoned dial, and the pair of   *)
(* relays of a tunnel. The program promises that none of them leaves a     *)
(* connection behind, and that MAX_CONNS bounds what they hold together.   *)
(*                                                                         *)
(* connSem is the program's, shared by the bridges of all instances, so    *)
(* the requests below are those of all of them; `noted` is the ledger      *)
(* entry of one.                                                           *)
(***************************************************************************)
EXTENDS Integers, FiniteSets

CONSTANTS
    Requests,   \* bound: the requests that clients make
    MaxConns    \* getMaxConns()

ASSUME BridgeAssumption ==
    /\ IsFiniteSet(Requests)
    /\ MaxConns \in Nat \ {0}

VARIABLES
    pc,         \* where a request's handler stands
    kind,       \* "plain" or "connect"
    slots,      \* the tokens in connSem
    holding,    \* the requests whose slot is not released: releaseOnce has not run
    dial,       \* the dialling goroutine and its channel
    reaping,    \* the requests whose abandoned dial somebody waits for
    dest,       \* the connection to the target, through the instance
    client,     \* a hijacked connection of the client
    dirs,       \* the relays of a tunnel that still run
    pair,       \* the tunnels whose relay pair is not yet accounted for
    noted       \* the egress ledger vouches for the instance

vars == <<pc, kind, slots, holding, dial, reaping, dest, client, dirs, pair, noted>>
tunnelVars == <<client, dirs, pair>>

\* relay(destConn, clientConn) reads the client, relay(clientConn, destConn) the target.
Directions == {"in", "out"}

Kinds == {"plain", "connect"}
Places == {"idle", "slot", "dial", "send", "head", "body", "close", "hijack", "write", "return",
           "gone"}

TypeOK ==
    /\ pc \in [Requests -> Places]
    /\ kind \in [Requests -> Kinds]
    /\ slots \in 0..MaxConns
    /\ holding \subseteq Requests
    /\ dial \in [Requests -> {"none", "running", "conn", "err", "taken"}]
    /\ reaping \subseteq Requests
    /\ dest \in [Requests -> {"none", "open", "closed"}]
    /\ client \in [Requests -> {"server", "open", "closed"}]
    /\ dirs \in [Requests -> SUBSET Directions]
    /\ pair \subseteq Requests
    /\ noted \in BOOLEAN

Init ==
    /\ pc = [r \in Requests |-> "idle"]
    /\ kind \in [Requests -> Kinds]
    /\ slots = MaxConns                             \* initConnSem fills it
    /\ holding = {}
    /\ dial = [r \in Requests |-> "none"]
    /\ reaping = {}
    /\ dest = [r \in Requests |-> "none"]
    /\ client = [r \in Requests |-> "server"]
    /\ dirs = [r \in Requests |-> {}]
    /\ pair = {}
    /\ noted = FALSE

-----------------------------------------------------------------------------
(* Moves.                                                                  *)

GoTo(r, place) == pc' = [pc EXCEPT ![r] = place]

\* Mutated: the release without its Once.
ReleasesTwice(r) ==
    /\ slots' = slots + 1
    /\ holding' = holding \ {r}

\* releaseSlot: a sync.Once, run by the handler's defer and by the pair's.
Release(r) ==
    /\ slots' = IF r \in holding THEN slots + 1 ELSE slots
    /\ holding' = holding \ {r}

CloseDest(r) == dest' = [dest EXCEPT ![r] = "closed"]

-----------------------------------------------------------------------------
(* Both kinds of requests: the slot and the dial.                          *)

Arrive(r) ==
    /\ pc[r] = "idle"
    /\ GoTo(r, "slot")
    /\ UNCHANGED <<kind, slots, holding, dial, reaping, dest, tunnelVars, noted>>

\* `case <-connSem`, then the goroutine of dialSocksTimeout starts.
Acquire(r) ==
    /\ pc[r] = "slot"
    /\ slots > 0
    /\ slots' = slots - 1
    /\ holding' = holding \cup {r}
    /\ dial' = [dial EXCEPT ![r] = "running"]
    /\ GoTo(r, "dial")
    /\ UNCHANGED <<kind, reaping, dest, tunnelVars, noted>>

\* `case <-time.After(proxySlotWait)`: 503. A token may be there by now: select
\* takes either branch.
TurnAway(r) ==
    /\ pc[r] = "slot"
    /\ GoTo(r, "gone")
    /\ UNCHANGED <<kind, slots, holding, dial, reaping, dest, tunnelVars, noted>>

\* dialer.Dial returns, whenever it does: its handshake has no deadline. The
\* channel has room for the answer, whoever will read it.
DialAnswers(r) ==
    /\ dial[r] = "running"
    /\ \/ /\ dial' = [dial EXCEPT ![r] = "conn"]
          /\ dest' = [dest EXCEPT ![r] = "open"]
       \/ /\ dial' = [dial EXCEPT ![r] = "err"]
          /\ UNCHANGED dest
    /\ UNCHANGED <<pc, kind, slots, holding, reaping, tunnelVars, noted>>

\* `case r := <-ch`.
TakeDial(r) ==
    /\ pc[r] = "dial"
    /\ dial[r] \in {"conn", "err"}
    /\ dial' = [dial EXCEPT ![r] = "taken"]
    /\ GoTo(r, IF dial[r] = "err" THEN "return" ELSE IF kind[r] = "plain" THEN "send" ELSE "hijack")
    /\ UNCHANGED <<kind, slots, holding, reaping, dest, tunnelVars, noted>>

Abandon(r) ==
    /\ GoTo(r, "return")
    /\ UNCHANGED <<kind, slots, holding, dial, dest, tunnelVars, noted>>

\* Mutated: nobody waits for the abandoned dial.
DialTimeoutForgets(r) ==
    /\ pc[r] = "dial"
    /\ reaping' = reaping
    /\ Abandon(r)

\* Mutated: the wait for a dial has no limit.
DialTimeoutWaits(r) ==
    /\ pc[r] = "dial"
    /\ dial[r] # "running"
    /\ reaping' = reaping \cup {r}
    /\ Abandon(r)

\* `case <-timer.C`: 504, and a goroutine is left to wait for the answer.
DialTimeout(r) ==
    /\ pc[r] = "dial"
    /\ reaping' = reaping \cup {r}
    /\ Abandon(r)

\* The goroutine left behind closes the connection that came too late.
Reap(r) ==
    /\ r \in reaping
    /\ dial[r] \in {"conn", "err"}
    /\ reaping' = reaping \ {r}
    /\ dial' = [dial EXCEPT ![r] = "taken"]
    /\ dest' = IF dial[r] = "conn" THEN [dest EXCEPT ![r] = "closed"] ELSE dest
    /\ UNCHANGED <<pc, kind, slots, holding, tunnelVars, noted>>

\* The handler's deferred releaseSlot: of every request, a tunnel's too.
Return(r) ==
    /\ pc[r] = "return"
    /\ Release(r)
    /\ GoTo(r, "gone")
    /\ UNCHANGED <<kind, dial, reaping, dest, tunnelVars, noted>>

-----------------------------------------------------------------------------
(* A plain request.                                                        *)

\* r.Write: the request is written to the target, its body as fast as the client sends
\* it. The deadline is the target's only (conn.SetDeadline), and the server has none for
\* bodies: a client that stops in the middle keeps the handler here.
Sent(r) ==
    /\ pc[r] = "send"
    /\ GoTo(r, "head")
    /\ UNCHANGED <<kind, slots, holding, dial, reaping, dest, tunnelVars, noted>>

\* The client hangs up, or the target does not take what is written to it in time.
SendFails(r) ==
    /\ pc[r] = "send"
    /\ GoTo(r, "close")
    /\ UNCHANGED <<kind, slots, holding, dial, reaping, dest, tunnelVars, noted>>

\* The head of the response, which proves the whole path, or an error, the deadline's
\* (bridgeUpstreamDeadline) at the latest.
ReadHead(r) ==
    /\ pc[r] = "head"
    /\ \/ GoTo(r, "body") /\ noted' = TRUE
       \/ GoTo(r, "close") /\ UNCHANGED noted
    /\ UNCHANGED <<kind, slots, holding, dial, reaping, dest, tunnelVars>>

\* The body ends, breaks off or falls silent; it may also go on for ever.
BodyEnds(r) ==
    /\ pc[r] = "body"
    /\ GoTo(r, "close")
    /\ UNCHANGED <<kind, slots, holding, dial, reaping, dest, tunnelVars, noted>>

\* The deferred Close, which runs before the deferred release.
Close(r) ==
    /\ pc[r] = "close"
    /\ CloseDest(r)
    /\ GoTo(r, "return")
    /\ UNCHANGED <<kind, slots, holding, dial, reaping, tunnelVars, noted>>

-----------------------------------------------------------------------------
(* A CONNECT tunnel.                                                       *)

\* The server hands over the client's connection, or refuses to.
Hijack(r) ==
    /\ pc[r] = "hijack"
    /\ \/ /\ client' = [client EXCEPT ![r] = "open"]
          /\ GoTo(r, "write")
          /\ UNCHANGED dest
       \/ /\ CloseDest(r)
          /\ GoTo(r, "return")
          /\ UNCHANGED client
    /\ UNCHANGED <<kind, slots, holding, dial, reaping, dirs, pair, noted>>

\* "200 Connection Established" is written, and the relay pair started.
Splice(r) ==
    /\ pc[r] = "write"
    /\ dirs' = [dirs EXCEPT ![r] = Directions]
    /\ pair' = pair \cup {r}
    /\ GoTo(r, "return")
    /\ UNCHANGED <<kind, slots, holding, dial, reaping, dest, client, noted>>

\* The write fails: the client is gone.
SpliceFails(r) ==
    /\ pc[r] = "write"
    /\ CloseDest(r)
    /\ client' = [client EXCEPT ![r] = "closed"]
    /\ GoTo(r, "return")
    /\ UNCHANGED <<kind, slots, holding, dial, reaping, dirs, pair, noted>>

\* Bytes move in either direction: every batch notes the egress.
Flow(r) ==
    /\ dirs[r] # {}
    /\ dest[r] = "open"
    /\ noted' = TRUE
    /\ UNCHANGED <<pc, kind, slots, holding, dial, reaping, dest, tunnelVars>>

\* Mutated: a relay closes its own side only.
RelayClosesSource(r, d) ==
    /\ d \in dirs[r]
    /\ dirs' = [dirs EXCEPT ![r] = @ \ {d}]
    /\ dest' = IF d = "out" THEN [dest EXCEPT ![r] = "closed"] ELSE dest
    /\ client' = IF d = "in" THEN [client EXCEPT ![r] = "closed"] ELSE client
    /\ UNCHANGED <<pc, kind, slots, holding, dial, reaping, pair, noted>>

\* A relay returns: its defers close both connections.
RelayEnds(r, d) ==
    /\ d \in dirs[r]
    /\ dirs' = [dirs EXCEPT ![r] = @ \ {d}]
    /\ CloseDest(r)
    /\ client' = [client EXCEPT ![r] = "closed"]
    /\ UNCHANGED <<pc, kind, slots, holding, dial, reaping, pair, noted>>

\* ... because an end hung up, a write failed or nothing moved for
\* relayIdleDeadline,
PeerEnds(r, d) ==
    /\ dest[r] = "open" /\ client[r] = "open"
    /\ RelayEnds(r, d)

\* ... or because the connection it reads is closed under it.
SourceIsClosed(r, d) ==
    /\ \/ d = "in" /\ client[r] = "closed"
       \/ d = "out" /\ dest[r] = "closed"
    /\ RelayEnds(r, d)

\* wg.Wait() returns and the pair's deferred releaseSlot runs.
PairDone(r) ==
    /\ r \in pair
    /\ dirs[r] = {}
    /\ pair' = pair \ {r}
    /\ Release(r)
    /\ UNCHANGED <<pc, kind, dial, reaping, dest, client, dirs, noted>>

\* No byte for egressGrace.
NoteAges ==
    /\ noted
    /\ noted' = FALSE
    /\ UNCHANGED <<pc, kind, slots, holding, dial, reaping, dest, tunnelVars>>

-----------------------------------------------------------------------------

Handle(r) ==
    \/ Acquire(r) \/ TurnAway(r) \/ TakeDial(r) \/ DialTimeout(r) \/ Return(r)
    \/ ReadHead(r) \/ Close(r)
    \/ Hijack(r) \/ Splice(r) \/ SpliceFails(r)

Next ==
    \/ \E r \in Requests :
          \/ Arrive(r) \/ DialAnswers(r) \/ Sent(r) \/ SendFails(r) \/ BodyEnds(r) \/ Flow(r)
          \/ Handle(r) \/ Reap(r) \/ PairDone(r)
          \/ \E d \in Directions : PeerEnds(r, d) \/ SourceIsClosed(r, d)
    \/ NoteAges

Spec == Init /\ [][Next]_vars

\* Fair: the handlers, whose every wait for the slot, the dial and the target has a
\* timer, the goroutine that reaps and the relays whose connection is closed. Not
\* fair: the dial, which nobody may be waiting for any more, and the clients: they
\* arrive, send the body of a request, take that of a response and keep a tunnel as
\* slowly as they like, for the server has a timer for the head of a request only.
Fairness ==
    \A r \in Requests :
        /\ WF_vars(Handle(r))
        /\ WF_vars(Reap(r))
        /\ WF_vars(PairDone(r))
        /\ \A d \in Directions : WF_vars(SourceIsClosed(r, d))

FairSpec == Spec /\ Fairness

-----------------------------------------------------------------------------
(* Properties.                                                             *)

Busy == {r \in Requests : pc[r] \notin {"idle", "slot", "return", "gone"}}
Tunnels == {r \in Requests : dirs[r] # {}}

\* No more handlers have a target to talk to, or dial one, than MAX_CONNS: a slot
\* that two defers release comes back once (handlePlainHTTP, handleConnect).
HandlersAreBounded == Cardinality(Busy) <= MaxConns

\* A connection to a target is open only while somebody is left who will close it:
\* the handler, the relays, or the goroutine that waits for an abandoned dial
\* (dialSocksTimeout: "closing the orphan is the only way to keep the fd table
\* bounded").
NothingLeaks ==
    \A r \in Requests :
        dest[r] = "open" => \/ pc[r] \in {"dial", "send", "head", "body", "close", "hijack", "write"}
                            \/ r \in reaping
                            \/ dirs[r] # {}

\* Nothing but a client keeps a handler, and its slot: whatever the upstream does, it
\* returns unless it reads the body of a request or streams that of a response, and
\* once the request is written only the latter (proxySlotWait, bridgeDialTimeout,
\* bridgeUpstreamDeadline).
EveryHandlerReturns ==
    \A r \in Requests :
        /\ pc[r] # "idle" ~> pc[r] \in {"gone", "send", "body"}
        /\ pc[r] = "head" ~> pc[r] \in {"gone", "body"}

\* A tunnel that lost one direction loses the other, and both connections with it
\* (relayWithIdle: "both sides close, client reconnects").
TunnelsCloseTogether ==
    \A r \in Requests :
        (r \in pair /\ dirs[r] # Directions)
            ~> (r \notin pair /\ dest[r] = "closed" /\ client[r] = "closed")

\* What handleConnect says of its slot: "released by the RELAY PAIR, not by this
\* handler's defer", so that MAX_CONNS bounds the tunnels (httpproxy.go:270-275).
ConnectsAreBounded == Cardinality(Tunnels) <= MaxConns

=============================================================================
