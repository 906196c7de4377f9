--------------------------- MODULE MCTrustScorer ----------------------------
(* TLC instances of TrustScorer. *)
EXTENDS TrustScorer, TLC

CONSTANTS a, b, c, v1, v2

\* v1 is a pre-release, v2 is mature.
OneNode == {<<a, v2>>}
TwoVersions == {<<a, v1>>, <<a, v2>>}
ThreeNames == {<<a, v2>>, <<b, v2>>, <<c, v2>>}
MCMature == {v2}

\* A popular and an unpopular package.
MCCounts == {50, 500000}
OneCount == {500000}

Pol(min, hash, closed) ==
  [auditOnly |-> FALSE, minScore |-> min, requireHash |-> hash, failClosed |-> closed]
Open == {Pol(50, FALSE, FALSE)}
AllPolicies ==
  {Pol(50, FALSE, FALSE), Pol(60, TRUE, TRUE), Pol(0, TRUE, FALSE),
   [Pol(50, TRUE, FALSE) EXCEPT !.auditOnly = TRUE]}
=============================================================================
