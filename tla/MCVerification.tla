--------------------------- MODULE MCVerification ----------------------------
(* TLC instances of Verification. *)
EXTENDS Verification

MCToken == {"*", "@", "/", "v", "n", "N", "m", "s", "f", "g"}

n == <<"n">>
N == <<"N">>
nm == <<"n", "m">>
sn == <<"@", "s", "/", "n">>

Rule(name) == [name |-> name, pattern |-> <<>>]
Globs(p) == [name |-> <<>>, pattern |-> p]

Pol(mode, allow, deny, depth, score, enforcement) ==
  [mode |-> mode, allow |-> allow, deny |-> deny, maxDepth |-> depth,
   minScore |-> score, requireHash |-> FALSE, onViolation |-> enforcement]

RequireHash(p) == [p EXCEPT !.requireHash = TRUE]

Patterns ==
  {<<"*">>, <<"*", "m">>, <<"N", "*">>, <<"*", "m", "*">>, <<"*", "n", "*">>,
   <<"@", "s", "/", "*">>, <<"N">>}

\* Every form of rule in a denylist; an allowlist with a depth; and two policies that
\* only audit, one of them for want of a mode, whose deny rules stage verify applies.
MCPolicies ==
  {Pol("denylist", <<>>, <<Globs(p)>>, 0, FALSE, "block") : p \in Patterns}
    \cup {Pol("denylist", <<>>, <<Rule(N), Globs(<<"*", "m">>)>>, 0, TRUE, "warn"),
          Pol("allowlist", <<Rule(n), Globs(<<"@", "s", "/", "*">>)>>, <<>>, 1, TRUE, "block"),
          RequireHash(Pol("denylist", <<>>, <<Rule(sn)>>, 0, FALSE, "block")),
          Pol("audit-only", <<>>, <<[name |-> nm, pattern |-> <<"*", "n">>]>>, 0, TRUE, "warn"),
          Pol("", <<>>, <<Globs(<<"*", "m">>)>>, 0, FALSE, "")}

MCTarballs ==
  {<<<<"package", name>>>> : name \in {n, N, nm, sn}}
    \cup {<<<<"data", <<>>>>, <<"package", n>>, <<"data", <<>>>>>>,
          <<<<"data", <<>>>>, <<"end", <<>>>>>>, <<<<"bad", <<>>>>>>, <<<<"data", <<>>>>>>}

Genuine == <<<<"package", n>>>>

StageCommands ==
  {[cmd |-> "stage verify", id |-> id, tarball |-> t, checksum |-> c, ci |-> TRUE] :
     id \in {<<"n", "@", "v">>, <<"N">>, sn \o <<"@", "v">>}, t \in MCTarballs,
     c \in {<<>>, Genuine}}
    \cup {[cmd |-> "stage verify", id |-> <<"n", "@", "v">>, tarball |-> t, checksum |-> t,
           ci |-> FALSE] : t \in MCTarballs}

p1 == <<"d1", <<"f">>>>
p2 == <<"d2", <<"f">>>>
p3 == <<"d1", <<"f", "g">>>>
MCPaths == {p1, p2, p3}
MCSums ==
  {NoFile, <<[kind |-> "comment"], Entry("c1", <<"f">>), Malformed, Entry("c2", <<"f">>)>>}

ArtifactCommands ==
  {[cmd |-> "checksum", paths |-> ps] : ps \in {<<p1, p2>>, <<p1, p3>>}}
    \cup {[cmd |-> "verify", path |-> p, ci |-> b] : p \in MCPaths, b \in BOOLEAN}

Nodes(a, b) == <<[name |-> a, depth |-> 0], [name |-> b, depth |-> 2]>>
CheckCommands ==
  {[cmd |-> "policy check", nodes |-> ns, ci |-> b] :
     ns \in {Nodes(n, sn), Nodes(N, nm), Nodes(nm, n)}, b \in BOOLEAN}
CiCommands ==
  {[cmd |-> "ci", nodes |-> Nodes(a, n), enforcement |-> e, fork |-> e = "block"] :
     a \in {n, nm}, e \in {"block", "warn"}}
AuditCommands ==
  {[cmd |-> "audit", path |-> p1, format |-> f, ci |-> b] :
            f \in {"md", "sarif"}, b \in BOOLEAN}

MCPackages == <<n, sn, nm>>

AllC1 == [p \in MCPaths |-> "c1"]
Project(policy, commands, sumsFile, k) ==
  [policy |-> policy, files |-> AllC1, sums |-> sumsFile, commands |-> commands, runs |-> k]

ByScore == {p \in MCPolicies : p.minScore \/ p.requireHash}

\* What depends on the rules of the policy; what is said of the tree; artifacts,
\* with several commands; and projects without a policy.
MCProjects ==
  {Project(p, StageCommands \cup CheckCommands, NoFile, 1) : p \in MCPolicies}
    \cup {Project(p, AuditCommands \cup CiCommands, s, 1) : p \in ByScore, s \in MCSums}
    \cup {Project(p, ArtifactCommands, s, 3) :
            p \in {q \in ByScore : q.minScore /\ q.mode # "audit-only"}, s \in MCSums}
    \cup {Project(p, {c \in StageCommands : c.id = sn \o <<"@", "v">>}
                     \cup AuditCommands \cup ArtifactCommands, NoFile, 1) :
            p \in {Missing, Invalid}}
=============================================================================
