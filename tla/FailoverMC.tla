----------------------------- MODULE FailoverMC -----------------------------
(***************************************************************************)
(* Failover for TLC: two instances and three upstreams, which start from   *)
(* one of each kind of assignment that startup can leave behind. The pool  *)
(* a refresh finds either lists every upstream or has dropped k1.          *)
(***************************************************************************)
EXTENDS Failover

CONSTANTS k1, k2, k3

MCKeys == {k1, k2, k3}
MCPools == {MCKeys, {k2, k3}}

\* Both instances served; or only the first, in an earlier round than the last; or none,
\* as no source could be fetched.
With(p, k) == [pool |-> p, key |-> k]
MCSomeServe ==
    {<<With(MCKeys, k1), With(MCKeys, k2)>>,
     <<With({k1, k2}, k1), With(MCKeys, NoKey)>>}
MCStarts == MCSomeServe \cup {<<With({}, NoKey), With({}, NoKey)>>}

\* One instance, on the upstream that every pool has.
MCAlone == {<<With(MCKeys, k2)>>}
=============================================================================
