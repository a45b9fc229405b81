------------------------------ MODULE Assignment ------------------------------
(***************************************************************************)
(* What startup promises, without rounds, workers, claims or probes: every *)
(* instance is given at most one upstream, no upstream is given to two     *)
(* instances, an assignment is never taken back, and none is made once     *)
(* startup has ended.  Populate implements this module.                    *)
(***************************************************************************)
CONSTANTS
    Instances,  \* the proxy instances
    Keys,       \* the upstreams
    NoKey       \* no upstream, not one of Keys

VARIABLES
    owner,  \* the upstream an instance serves
    ended   \* startup has returned

vars == <<owner, ended>>

Init ==
    /\ owner = [i \in Instances |-> NoKey]
    /\ ended = FALSE

Assign(i, k) ==
    /\ ~ended
    /\ owner[i] = NoKey
    /\ \A j \in Instances : owner[j] # k
    /\ owner' = [owner EXCEPT ![i] = k]
    /\ UNCHANGED ended

End ==
    /\ ~ended
    /\ ended' = TRUE
    /\ UNCHANGED owner

Next == End \/ \E i \in Instances, k \in Keys : Assign(i, k)

Spec == Init /\ [][Next]_vars
===============================================================================
