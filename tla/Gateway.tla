-------------------------------- MODULE Gateway --------------------------------
(***************************************************************************)
(* The VPN gateway (vpn-gateway/watchdog.sh): one loop that pins the       *)
(* tunnel to an instance of the daemon, proves again and again that        *)
(* traffic of the tunnel leaves where traffic of that instance leaves, and *)
(* publishes the outcome in status.json, which GET /vpn serves.            *)
(*                                                                         *)
(* The loop is one process, and everything it looks at moves under it: the *)
(* list of GET /proxies, the egress of each instance (a failover replaces  *)
(* the upstream behind a port, a target blocks it), the process that       *)
(* carries the tunnel, the container. Its calls take seconds, so each      *)
(* waiting call is a step of its own.                                      *)
(*                                                                         *)
(* External, modelled from how the script uses them: hev-socks5-tunnel (it *)
(* reads its upstream once, makes the device some time after its start,    *)
(* and takes the device and the routes through it along when it dies) and  *)
(* the proof URL (it answers with the exit it is asked through).           *)
(***************************************************************************)
EXTENDS Naturals

CONSTANTS
    Proxies,        \* instances, by the SOCKS port that the API lists
    Exits,          \* egress addresses
    NoProxy,        \* the empty string in CURRENT_SOCKS; no process in hev
    NoExit,         \* an empty answer, or none
    RotateFails,    \* PROOF_ROTATE_FAILS
    WaitTries       \* how often the first loop asks the API

ASSUME GatewayAssumption ==
    /\ NoProxy \notin Proxies
    /\ NoExit \notin Exits
    /\ RotateFails \in Nat \ {0}
    /\ WaitTries \in Nat \ {0}

VARIABLES
    alive,      \* the instances that GET /proxies lists
    first,      \* the one it lists first
    exit,       \* what the proof URL answers through the SOCKS port of each
    calm,       \* the world has stopped to move
    pc,         \* where the script stands
    why,        \* which call of start_tunnel and verify_egress it is in
    tries,      \* the turns of the first loop
    pin,        \* CURRENT_SOCKS
    target,     \* socks, the upstream of this turn
    via,        \* via_socks, the first half of a proof
    fails,      \* PROOF_FAILS
    hev,        \* the upstream that the running tunnel process read
    device,     \* tun0 exists
    route,      \* table 100 leads into tun0
    status      \* status.json

world == <<alive, first, exit, calm>>
script == <<pc, why, tries, pin, target, via, fails, status>>
tunnel == <<hev, device, route>>
vars == <<world, script, tunnel>>

TypeOK ==
    /\ alive \subseteq Proxies
    /\ IF alive = {} THEN first = NoProxy ELSE first \in alive
    /\ exit \in [Proxies -> Exits \cup {NoExit}]
    /\ calm \in BOOLEAN
    /\ pc \in {"boot", "wait", "device", "socks", "tun", "sleep"}
    /\ why \in {"initial", "repin", "restart", "periodic"}
    /\ tries \in 0..WaitTries
    /\ pin \in Proxies \cup {NoProxy}
    /\ target \in Proxies \cup {NoProxy}
    /\ via \in Exits \cup {NoExit}
    /\ fails \in 0..(RotateFails - 1)
    /\ hev \in Proxies \cup {NoProxy}
    /\ device \in BOOLEAN /\ (device => hev # NoProxy)
    /\ route \in BOOLEAN /\ (route => device)
    /\ status \in [upstream : Proxies \cup {NoProxy}, verified : BOOLEAN]

Init ==
    /\ alive = {} /\ first = NoProxy
    /\ exit = [p \in Proxies |-> NoExit]
    /\ calm = FALSE
    /\ pc = "boot" /\ why = "initial" /\ tries = 0
    /\ pin = NoProxy /\ target = NoProxy /\ via = NoExit /\ fails = 0
    /\ hev = NoProxy /\ device = FALSE /\ route = FALSE
    /\ status = [upstream |-> NoProxy, verified |-> FALSE]

-------------------------------------------------------------------------------
\* Mutated forms of parts of a turn: a start that leaves a running tunnel process
\* be, and a pin that is never dropped.
StartTunnelKeepsOld(p, reason) ==
    /\ target' = p
    /\ why' = reason
    /\ pc' = "device"
    /\ hev' = IF hev = NoProxy THEN p ELSE hev
    /\ UNCHANGED <<device, route>>

TurnFailedNeverDrops ==
    /\ pc' = "sleep"
    /\ via' = NoExit
    /\ status' = [upstream |-> target, verified |-> FALSE]
    /\ UNCHANGED <<why, tries, pin, target, fails>>

-------------------------------------------------------------------------------
\* The parts of a turn.

WriteStatus(p, ok) == status' = [upstream |-> p, verified |-> ok]

\* tunnel_alive
TunnelAlive == device /\ hev # NoProxy

\* A pin that is still listed is kept, however the list is ordered.
Choice == IF pin \in alive THEN pin ELSE first

\* start_tunnel up to its wait for the device: the old process is gone before
\* the new one reads the new upstream. The pin is not moved yet.
StartTunnel(p, reason) ==
    /\ target' = p
    /\ why' = reason
    /\ pc' = "device"
    /\ hev' = p
    /\ device' = FALSE
    /\ route' = FALSE

\* The container stops, or the script exits: Docker starts it again. What was in
\* the shell and in the network namespace is gone, status.json stays.
Restart ==
    /\ pc' = "boot" /\ why' = "initial" /\ tries' = 0
    /\ pin' = NoProxy /\ target' = NoProxy /\ via' = NoExit /\ fails' = 0
    /\ hev' = NoProxy /\ device' = FALSE /\ route' = FALSE

\* The end of a turn without a proof, by the call it was for.
TurnFailed ==
    /\ pc' = "sleep"
    /\ via' = NoExit
    /\ WriteStatus(target, FALSE)
    /\ IF why = "periodic"
       THEN LET drop == fails + 1 >= RotateFails
            IN  /\ fails' = IF drop THEN 0 ELSE fails + 1
                /\ pin' = IF drop THEN NoProxy ELSE pin
       ELSE UNCHANGED <<fails, pin>>
    /\ UNCHANGED <<why, tries, target>>

-------------------------------------------------------------------------------
\* The script, from entrypoint.sh to the loop.

Boot ==
    /\ pc = "boot"
    /\ pc' = "wait"
    /\ UNCHANGED <<world, tunnel, why, tries, pin, target, via, fails, status>>

FirstPin ==
    /\ pc = "wait"
    /\ alive # {}
    /\ StartTunnel(first, "initial")
    /\ UNCHANGED <<world, tries, pin, via, fails, status>>

WaitMore ==
    /\ pc = "wait"
    /\ alive = {}
    /\ IF tries + 1 < WaitTries
       THEN tries' = tries + 1 /\ UNCHANGED <<pc, why, pin, target, via, fails, tunnel, status>>
       ELSE WriteStatus(NoProxy, FALSE) /\ Restart
    /\ UNCHANGED world

\* start_tunnel after its wait: routes, then the pin.
Routed ==
    /\ pc = "device"
    /\ device
    /\ route' = TRUE
    /\ pin' = target
    /\ pc' = "socks"
    /\ why' = IF why = "restart" THEN "periodic" ELSE why
    /\ UNCHANGED <<world, hev, device, tries, target, via, fails, status>>

\* No device within the wait: the pin stays where it was, and the process that was
\* started stays too.
NoDevice ==
    /\ pc = "device"
    /\ ~device
    /\ calm => hev = NoProxy
    /\ IF why = "initial"
       THEN Restart /\ UNCHANGED status
       ELSE /\ pc' = "sleep"
            /\ WriteStatus(target, FALSE)
            /\ UNCHANGED <<why, tries, pin, target, via, fails, tunnel>>
    /\ UNCHANGED world

\* verify_egress, its first question: through the SOCKS port of the upstream.
AskSocks ==
    /\ pc = "socks"
    /\ IF exit[target] = NoExit
       THEN TurnFailed
       ELSE /\ via' = exit[target]
            /\ pc' = "tun"
            /\ UNCHANGED <<why, tries, pin, target, fails, status>>
    /\ UNCHANGED <<world, tunnel>>

\* Its second, through the tunnel, which has a path only along the route.
ViaTun == IF device /\ route THEN exit[hev] ELSE NoExit

AskTun ==
    /\ pc = "tun"
    /\ IF ViaTun = via
       THEN /\ fails' = 0
            /\ WriteStatus(target, TRUE)
            /\ pc' = "sleep"
            /\ via' = NoExit
            /\ UNCHANGED <<why, tries, pin, target>>
       ELSE TurnFailed
    /\ UNCHANGED <<world, tunnel>>

-------------------------------------------------------------------------------
\* The loop's turn. ensure_ipsec may send it out, an empty list ends it at once.
IpsecDown ==
    /\ pc = "sleep"
    /\ ~calm
    /\ Restart
    /\ UNCHANGED <<world, status>>

NothingListed ==
    /\ pc = "sleep"
    /\ alive = {}
    /\ WriteStatus(pin, FALSE)
    /\ UNCHANGED <<world, tunnel, pc, why, tries, pin, target, via, fails>>

Repin ==
    /\ pc = "sleep"
    /\ alive # {}
    /\ Choice # pin
    /\ fails' = 0
    /\ StartTunnel(Choice, "repin")
    /\ UNCHANGED <<world, tries, pin, via, status>>

Revive ==
    /\ pc = "sleep"
    /\ alive # {}
    /\ Choice = pin
    /\ ~TunnelAlive
    /\ StartTunnel(pin, "restart")
    /\ UNCHANGED <<world, tries, pin, via, fails, status>>

Reprove ==
    /\ pc = "sleep"
    /\ alive # {}
    /\ Choice = pin
    /\ TunnelAlive
    /\ pc' = "socks"
    /\ why' = "periodic"
    /\ target' = pin
    /\ UNCHANGED <<world, tunnel, tries, pin, via, fails, status>>

Script ==
    \/ Boot \/ FirstPin \/ WaitMore
    \/ Routed \/ NoDevice \/ AskSocks \/ AskTun
    \/ NothingListed \/ Repin \/ Revive \/ Reprove

-------------------------------------------------------------------------------
\* What moves under the script. In the calm the list keeps being reordered by
\* latency, among instances whose egress answers.

HevOpens ==
    /\ hev # NoProxy
    /\ ~device
    /\ device' = TRUE
    /\ UNCHANGED <<world, script, hev, route>>

HevDies ==
    /\ ~calm
    /\ hev # NoProxy
    /\ hev' = NoProxy /\ device' = FALSE /\ route' = FALSE
    /\ UNCHANGED <<world, script>>

Killed ==
    /\ ~calm
    /\ pc # "boot"
    /\ Restart
    /\ UNCHANGED <<world, status>>

ListMoves ==
    /\ ~calm
    /\ alive' \in SUBSET Proxies
    /\ IF alive' = {} THEN first' = NoProxy ELSE first' \in alive'
    /\ UNCHANGED <<exit, calm, script, tunnel>>

LatencyFlaps ==
    /\ first' \in {p \in alive : calm => exit[p] # NoExit}
    /\ UNCHANGED <<alive, exit, calm, script, tunnel>>

ExitMoves ==
    /\ ~calm
    /\ \E p \in Proxies, e \in Exits \cup {NoExit} : exit' = [exit EXCEPT ![p] = e]
    /\ UNCHANGED <<alive, first, calm, script, tunnel>>

CalmsDown ==
    /\ calm' = TRUE
    /\ UNCHANGED <<alive, first, exit, script, tunnel>>

World ==
    \/ HevOpens \/ HevDies \/ Killed \/ IpsecDown
    \/ ListMoves \/ LatencyFlaps \/ ExitMoves \/ CalmsDown

Next == Script \/ World

Spec == Init /\ [][Next]_vars

\* The script never waits without a time limit, Docker starts what has exited
\* (restart: unless-stopped), and a tunnel process that lives gets its device.
FairSpec == Spec /\ WF_vars(Script) /\ WF_vars(HevOpens)

-------------------------------------------------------------------------------
\* Properties.

\* A proof is a proof of the upstream it names: when status.json turns verified,
\* the process behind tun0 reads that upstream and it is the pin, even if another
\* instance leaves through the same exit (verify_egress compares exits only).
VerifiedIsTheTunnel ==
    [][ pc = "tun" /\ pc' = "sleep" /\ status'.verified =>
            hev = status'.upstream /\ pin' = status'.upstream ]_vars

\* Once the world is calm and the list begins with an instance whose egress answers,
\* the gateway comes to carry its clients for good, proven and on one tunnel,
\* however the list is reordered: whatever state it was left in, a pin that is
\* listed but proves nothing, a process without device or a device without routes
\* (sticky pins, PROOF_ROTATE_FAILS, tunnel_alive).
Carries == route /\ hev = pin /\ status = [upstream |-> pin, verified |-> TRUE]
Good == calm /\ alive # {} /\ exit[first] # NoExit
Recovers == [](Good => <>[]Carries)
===============================================================================
