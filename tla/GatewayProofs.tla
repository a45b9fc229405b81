----------------------------- MODULE GatewayProofs -----------------------------
(***************************************************************************)
(* For any instances, exits and limits: the gateway's state stays well     *)
(* typed, and a proof is a proof of the upstream it names.                 *)
(***************************************************************************)
EXTENDS Gateway, TLAPS

\* A turn that waits for something has an upstream it works on, and a second
\* question is only asked after the first was answered.
Working ==
    /\ pc \in {"device", "socks", "tun"} => target \in Proxies
    /\ pc = "tun" => via \in Exits

\* Until a start has come to its end nothing leads into the tunnel, and what does
\* lead there leads to the pin, unless the pin was dropped.
RouteIsPin ==
    /\ pc = "device" => ~route /\ hev \in {target, NoProxy}
    /\ pc \in {"socks", "tun"} => pin = target
    /\ route => hev = pin \/ pin = NoProxy

IInv == TypeOK /\ Working /\ RouteIsPin

LEMMA InitIInv == Init => IInv
<1> SUFFICES ASSUME Init PROVE IInv
  OBVIOUS
<1> USE DEF Init
<1>1. tries \in 0..WaitTries /\ fails \in 0..(RotateFails - 1)
  BY GatewayAssumption
<1>2. status \in [upstream : Proxies \cup {NoProxy}, verified : BOOLEAN]
  OBVIOUS
<1>3. TypeOK
  BY <1>1, <1>2 DEF TypeOK
<1> QED
  BY <1>3 DEF IInv, Working, RouteIsPin

StatusType == [upstream : Proxies \cup {NoProxy}, verified : BOOLEAN]

LEMMA WriteTyped ==
    ASSUME NEW p \in Proxies \cup {NoProxy}, NEW ok \in BOOLEAN, WriteStatus(p, ok)
    PROVE  status' \in StatusType
  BY DEF WriteStatus, StatusType

\* What the ways out of a turn do to the types.
LEMMA FailedTyped ==
    ASSUME TypeOK, TurnFailed
    PROVE  /\ via' = NoExit
           /\ fails' \in 0..(RotateFails - 1)
           /\ pin' \in {pin, NoProxy}
           /\ status' \in StatusType
           /\ ~status'.verified
<1>1. fails \in 0..(RotateFails - 1) /\ target \in Proxies \cup {NoProxy}
  BY DEF TypeOK
<1>2. status' = [upstream |-> target, verified |-> FALSE]
  BY DEF TurnFailed, WriteStatus
<1>3. status' \in StatusType /\ ~status'.verified
  BY <1>1, <1>2 DEF StatusType
<1>4. fails' \in 0..(RotateFails - 1) /\ pin' \in {pin, NoProxy}
  BY <1>1, GatewayAssumption DEF TurnFailed
<1> QED
  BY <1>3, <1>4 DEF TurnFailed

-------------------------------------------------------------------------------
\* The steps of the script that move the pin, the tunnel or a proof.
LEMMA StartKeeps ==
    ASSUME IInv, NEW p \in Proxies,
           NEW reason \in {"initial", "repin", "restart"},
           StartTunnel(p, reason),
           UNCHANGED <<world, tries, pin, via, status>>,
           fails' \in 0..(RotateFails - 1)
    PROVE  IInv'
<1> USE DEF StartTunnel, world
<1>1. TypeOK'
  BY DEF IInv, TypeOK
<1> QED
  BY <1>1 DEF IInv, TypeOK, Working, RouteIsPin

LEMMA RestartKeeps ==
    ASSUME IInv, Restart, UNCHANGED world,
           status' \in StatusType
    PROVE  IInv'
<1>1. tries' \in 0..WaitTries /\ fails' \in 0..(RotateFails - 1)
  BY GatewayAssumption DEF Restart
<1>2. TypeOK'
  BY <1>1 DEF IInv, TypeOK, StatusType, Restart, world
<1> QED
  BY <1>2 DEF IInv, Working, RouteIsPin, Restart

LEMMA FailedKeeps ==
    ASSUME IInv, TurnFailed, UNCHANGED <<world, tunnel>>
    PROVE  IInv'
<1>1. /\ via' = NoExit
      /\ fails' \in 0..(RotateFails - 1)
      /\ pin' \in {pin, NoProxy}
      /\ status' \in StatusType
  BY FailedTyped DEF IInv
<1>2. pc' = "sleep" /\ UNCHANGED <<why, tries, target>>
  BY DEF TurnFailed
<1>3. TypeOK'
  BY <1>1, <1>2 DEF IInv, TypeOK, StatusType, world, tunnel
<1> QED
  BY <1>1, <1>2, <1>3 DEF IInv, Working, RouteIsPin, tunnel

LEMMA ChoiceIsListed ==
    ASSUME TypeOK, alive # {}
    PROVE  Choice \in Proxies
  BY DEF TypeOK, Choice

LEMMA StepIInv == IInv /\ [Next]_vars => IInv'
<1> SUFFICES ASSUME IInv, [Next]_vars
             PROVE  IInv'
  OBVIOUS
<1> USE DEF IInv
<1>0. 0 \in 0..(RotateFails - 1) /\ fails \in 0..(RotateFails - 1)
  BY GatewayAssumption DEF TypeOK
<1>1. CASE Boot
  BY <1>1 DEF Boot, TypeOK, Working, RouteIsPin, world, tunnel
<1>2. CASE FirstPin
  <2>1. first \in Proxies
    BY <1>2 DEF FirstPin, TypeOK
  <2> QED
    BY <1>0, <1>2, <2>1, StartKeeps DEF FirstPin
<1>3. CASE WaitMore
  <2>1. CASE tries + 1 < WaitTries
    <3>1. tries' \in 0..WaitTries
      BY <1>3, <2>1, GatewayAssumption DEF WaitMore, TypeOK
    <3> QED
      BY <1>3, <2>1, <3>1 DEF WaitMore, TypeOK, Working, RouteIsPin, world, tunnel
  <2>2. CASE ~(tries + 1 < WaitTries)
    <3>1. status' \in StatusType
      BY <1>3, <2>2, WriteTyped DEF WaitMore
    <3> QED
      BY <1>3, <2>2, <3>1, RestartKeeps DEF WaitMore
  <2> QED
    BY <2>1, <2>2
<1>4. CASE Routed
  BY <1>4 DEF Routed, TypeOK, Working, RouteIsPin, world
<1>5. CASE NoDevice
  <2>1. CASE why = "initial"
    BY <1>5, <2>1, RestartKeeps DEF NoDevice, TypeOK, StatusType
  <2>2. CASE why # "initial"
    <3>1. status' \in StatusType
      BY <1>5, <2>2, WriteTyped DEF NoDevice, TypeOK
    <3> QED
      BY <1>5, <2>2, <3>1 DEF NoDevice, TypeOK, StatusType, Working, RouteIsPin, world, tunnel
  <2> QED
    BY <2>1, <2>2
<1>6. CASE AskSocks
  <2>1. CASE exit[target] = NoExit
    BY <1>6, <2>1, FailedKeeps DEF AskSocks
  <2>2. CASE exit[target] # NoExit
    <3>1. exit[target] \in Exits
      BY <1>6, <2>2 DEF AskSocks, TypeOK, Working
    <3> QED
      BY <1>6, <2>2, <3>1 DEF AskSocks, TypeOK, Working, RouteIsPin, world, tunnel
  <2> QED
    BY <2>1, <2>2
<1>7. CASE AskTun
  <2>1. CASE ViaTun = via
    <3>1. status' \in StatusType
      BY <1>7, <2>1, WriteTyped DEF AskTun, TypeOK
    <3> QED
      BY <1>0, <1>7, <2>1, <3>1 DEF AskTun, TypeOK, StatusType, Working, RouteIsPin, world, tunnel
  <2>2. CASE ViaTun # via
    BY <1>7, <2>2, FailedKeeps DEF AskTun
  <2> QED
    BY <2>1, <2>2
<1>8. CASE NothingListed
  <2>1. status' \in StatusType
    BY <1>8, WriteTyped DEF NothingListed, TypeOK
  <2> QED
    BY <1>8, <2>1 DEF NothingListed, TypeOK, StatusType, Working, RouteIsPin, world, tunnel
<1>9. CASE Repin
  BY <1>0, <1>9, ChoiceIsListed, StartKeeps DEF Repin
<1>10. CASE Revive
  BY <1>0, <1>10, ChoiceIsListed, StartKeeps DEF Revive
<1>11. CASE Reprove
  BY <1>11, ChoiceIsListed DEF Reprove, TypeOK, Working, RouteIsPin, world, tunnel
<1>12. CASE HevOpens \/ HevDies \/ CalmsDown
  <2>1. CASE HevOpens
    <3>1. TypeOK'
      BY <2>1 DEF HevOpens, TypeOK, world, script
    <3> QED
      BY <2>1, <3>1 DEF HevOpens, TypeOK, Working, RouteIsPin, world, script
  <2>2. CASE HevDies
    <3>1. TypeOK'
      BY <2>2 DEF HevDies, TypeOK, world, script
    <3> QED
      BY <2>2, <3>1 DEF HevDies, TypeOK, Working, RouteIsPin, world, script
  <2>3. CASE CalmsDown
    <3>1. TypeOK'
      BY <2>3 DEF CalmsDown, TypeOK, script, tunnel
    <3> QED
      BY <2>3, <3>1 DEF CalmsDown, Working, RouteIsPin, script, tunnel
  <2> QED
    BY <1>12, <2>1, <2>2, <2>3
<1>13. CASE Killed \/ IpsecDown
  BY <1>13, RestartKeeps DEF Killed, IpsecDown, TypeOK, StatusType
<1>14. CASE ListMoves \/ LatencyFlaps \/ ExitMoves
  <2>1. /\ alive' \subseteq Proxies
        /\ IF alive' = {} THEN first' = NoProxy ELSE first' \in alive'
    BY <1>14, Zenon DEF ListMoves, LatencyFlaps, ExitMoves, TypeOK
  <2>2. exit' \in [Proxies -> Exits \cup {NoExit}]
    BY <1>14 DEF ListMoves, LatencyFlaps, ExitMoves, TypeOK
  <2>3. UNCHANGED <<calm, script, tunnel>>
    BY <1>14 DEF ListMoves, LatencyFlaps, ExitMoves
  <2> QED
    BY <2>1, <2>2, <2>3 DEF TypeOK, Working, RouteIsPin, script, tunnel
<1>15. CASE UNCHANGED vars
  BY <1>15 DEF vars, TypeOK, Working, RouteIsPin, world, script, tunnel
<1> QED
  BY <1>1, <1>2, <1>3, <1>4, <1>5, <1>6, <1>7, <1>8, <1>9, <1>10, <1>11, <1>12,
     <1>13, <1>14, <1>15 DEF Next, Script, World

THEOREM Invariance == Spec => []IInv
  BY InitIInv, StepIInv, PTL DEF Spec

\* The gateway's state stays well typed: a failed proof is counted only below
\* RotateFails, and no route or device outlives its process.
THEOREM TypeCorrect == Spec => []TypeOK
<1>1. IInv => TypeOK
  BY DEF IInv
<1> QED
  BY <1>1, Invariance, PTL

\* A proof that succeeds was answered through the process that reads the upstream
\* which status.json names (verify_egress, write_status), because nothing leads
\* into the tunnel before a start has moved the pin, and every start cuts the route.
THEOREM ProofsAreOfThePin == Spec => VerifiedIsTheTunnel
<1> DEFINE Proven ==
      pc = "tun" /\ pc' = "sleep" /\ status'.verified =>
          hev = status'.upstream /\ pin' = status'.upstream
<1>1. IInv /\ [Next]_vars => [Proven]_vars
  <2> SUFFICES ASSUME IInv, Next, pc = "tun", pc' = "sleep", status'.verified
               PROVE  hev = status'.upstream /\ pin' = status'.upstream
    OBVIOUS
  <2>1. AskTun
    BY DEF Next, Script, World, Boot, FirstPin, WaitMore, Routed, NoDevice, AskSocks,
           NothingListed, Repin, Revive, Reprove, StartTunnel, Restart, HevOpens,
           HevDies, Killed, IpsecDown, ListMoves, LatencyFlaps, ExitMoves, CalmsDown, script
  <2>2. ViaTun = via
    BY <2>1, FailedTyped DEF AskTun, IInv
  <2>3. route /\ pin = target /\ target \in Proxies
    BY <2>2, GatewayAssumption DEF ViaTun, IInv, Working, RouteIsPin
  <2>4. hev = target
    BY <2>3, GatewayAssumption DEF IInv, RouteIsPin
  <2> QED
    BY <2>1, <2>2, <2>3, <2>4 DEF AskTun, WriteStatus
<1> QED
  BY <1>1, Invariance, PTL DEF Spec, VerifiedIsTheTunnel
===============================================================================
