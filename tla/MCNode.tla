------------------------------- MODULE MCNode -------------------------------
(* A plan, one of another release, one of another configuration.           *)
EXTENDS Node, TLC

CONSTANTS r1, r2, a1, a2, e1, e2, v1, v2, local

MCReleases == {r1, r2}
MCSpoilable == {r2}
MCArgs == {a1, a2}
MCEnvs == {e1, e2}
MCPlans ==
  {[release |-> r1, args |-> a1, env |-> e1], [release |-> r2, args |-> a1, env |-> e1],
   [release |-> r1, args |-> a2, env |-> e2]}

\* Releases differ in their version, arguments in directories only.
MCVersionOf == [r \in MCReleases |-> IF r = r1 THEN v1 ELSE v2]
MCListenOf == [a \in MCArgs |-> local]
=============================================================================
