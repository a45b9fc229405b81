------------------------------- MODULE Serving -------------------------------
(***************************************************************************)
(* What the serving ports promise their clients, before and after startup: *)
(* a port goes from one upstream to another through silence only (the old  *)
(* child is stopped before a new one starts), and no upstream is on two    *)
(* ports. Populate implements this module, and so does Failover until the  *)
(* first refresh; from then on it implements PortSpec, which is the first  *)
(* half of the promise.                                                    *)
(***************************************************************************)
CONSTANTS
    Instances,  \* the proxy instances
    Keys,       \* the upstreams
    NoKey       \* silence, not one of Keys

VARIABLE serving    \* the upstream on the serving port of an instance

Init == serving \in [Instances -> Keys \cup {NoKey}]

Unique == \A i, j \in Instances : serving[i] = serving[j] => i = j \/ serving[i] = NoKey

\* The child is stopped, or dies.
Silence(i) == serving' = [serving EXCEPT ![i] = NoKey]

\* A child starts on a silent port.
Take(i, k) ==
    /\ serving[i] = NoKey
    /\ serving' = [serving EXCEPT ![i] = k]

TakeFree(i, k) ==
    /\ \A j \in Instances : serving[j] # k
    /\ Take(i, k)

PortSpec ==
    /\ Init
    /\ [][\E i \in Instances : Silence(i) \/ \E k \in Keys : Take(i, k)]_serving

Next == \E i \in Instances : Silence(i) \/ \E k \in Keys : TakeFree(i, k)

Spec == Init /\ Unique /\ [][Next]_serving
==============================================================================
