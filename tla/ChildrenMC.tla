------------------------------ MODULE ChildrenMC ------------------------------
(***************************************************************************)
(* Children for TLC: two instances, a prober that uses the second one's    *)
(* selector, and launches enough for a swap that is restored beside a      *)
(* probe.                                                                  *)
(***************************************************************************)
EXTENDS Children

CONSTANT t1

MCProbers == {t1}
MCHome == [t \in MCProbers |-> 2]
===============================================================================
