------------------------------ MODULE RelaysMC ------------------------------
(***************************************************************************)
(* Bridge and Aggregate for TLC, side by side: a behaviour is one of the   *)
(* bridges or one of the stable endpoints, and the other module rests in   *)
(* an initial state. They share no variable: all that the program lets    *)
(* them share is the egress ledger, of which either writes entries and     *)
(* neither reads any, so the order of their steps makes no difference to   *)
(* a property of one of them.                                              *)
(***************************************************************************)
EXTENDS Bridge, Aggregate

VARIABLE part   \* whose behaviour it is

MCInit ==
    /\ Init
    /\ AggInit
    /\ \/ part = "bridges" /\ ~relayUp
       \/ part = "endpoints" /\ kind = [r \in Requests |-> "plain"]

MCNext ==
    \/ part = "bridges" /\ Next /\ UNCHANGED <<aggVars, part>>
    \/ part = "endpoints" /\ AggNext /\ UNCHANGED <<vars, part>>

\* The probe is excused while the endpoints rest. Nobody else needs an excuse: until a
\* client arrives no other step that is fair is enabled.
MCSpec ==
    /\ MCInit /\ [][MCNext]_<<vars, aggVars, part>>
    /\ Fairness
    /\ AggFairness
    /\ WF_aggVars(part = "endpoints" /\ Accept(Probe))

=============================================================================
