---------------------------- MODULE MCNodeConfig ----------------------------
(* Two invocations of gg over two nodes, each of a subscription.           *)
EXTENDS NodeConfig, TLC

CONSTANTS r1, r2, n1, n2, s1, s2

MCRuns == {r1, r2}
MCNodes == {n1, n2}
MCOneSub == {s1}
MCNodesOf == [s \in MCOneSub |-> {n1, n2}]

(* Nothing tells invocations, or nodes, apart.                             *)
Symmetric == Permutations(MCRuns) \cup Permutations(MCNodes)

=============================================================================
