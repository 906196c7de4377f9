-------------------------- MODULE MCLockfileAudit ---------------------------
(* TLC instances of LockfileAudit. *)
EXTENDS LockfileAudit, TLC

CONSTANTS k1, k2, d1, d2

\* Two versions of one package: node_modules/<name> is d1, a nested one d2.
MCLocalDir == [k \in Keys |-> d1]

\* Nothing; one version; one version in two places; both versions.
MCTrees == {{}, {<<k1, d1>>}, {<<k1, d1>>, <<k1, d2>>}, {<<k1, d1>>, <<k2, d2>>}}

Symmetry == Permutations(Contents)
=============================================================================
