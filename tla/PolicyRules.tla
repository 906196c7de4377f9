----------------------------- MODULE PolicyRules -----------------------------
(***************************************************************************)
(* The rules of a policy: how a name and a pattern match a package, what   *)
(* policy.Evaluate finds in a list of packages, and what the enforcement   *)
(* makes of it.  scalp stage verify has a matcher of its own.              *)
(*                                                                         *)
(* A name, a pattern and a package id are sequences of tokens: "*", "@",   *)
(* "/" and words.  The words "N" and "n" differ in case only; "v" is every *)
(* version.                                                                *)
(***************************************************************************)
EXTENDS Naturals, Sequences, SequencesExt

CONSTANT Token   \* what names, patterns and ids are made of

ASSUME TokenAssumption == {"*", "@", "/", "v", "n"} \subseteq Token

Name == Seq(Token)
PackageRule == [name : Name, pattern : Name]

\* Its mode and its enforcement may be any words.
IsPolicy(pol) == pol.allow \in Seq(PackageRule) /\ pol.deny \in Seq(PackageRule)

Fold(s) == [i \in DOMAIN s |-> IF s[i] = "N" THEN "n" ELSE s[i]]
EqualFold(s, t) == Fold(s) = Fold(t)

HasPart(s, sub) == \E i \in 0..Len(s) : IsPrefix(sub, SubSeq(s, i + 1, Len(s)))

Opens(p) == p # <<>> /\ Head(p) = "*"
Closes(p) == p # <<>> /\ Last(p) = "*"
Within(p) == Opens(p) /\ Closes(p) /\ Len(p) > 2
IsGlob(p) == Opens(p) \/ Closes(p)

\* Mutant: the check for *substr* after that for *suffix.
GlobSuffixFirst(p, name) ==
  \/ Opens(p) /\ IsSuffix(Tail(p), name)
  \/ Closes(p) /\ ~Opens(p) /\ IsPrefix(Front(p), name)

\* The globs of both matchers.  "*" is the suffix pattern with an empty suffix,
\* and @scope/* the prefix pattern that it looks like.
Glob(p, name) ==
  \/ Within(p) /\ HasPart(name, SubSeq(p, 2, Len(p) - 1))
  \/ Opens(p) /\ ~Within(p) /\ IsSuffix(Tail(p), name)
  \/ Closes(p) /\ ~Opens(p) /\ IsPrefix(Front(p), name)

\* policy.matchPattern looks at the case of a glob, cli.patternMatch does not.
matchPattern(p, name) == IF IsGlob(p) THEN Glob(p, name) ELSE EqualFold(p, name)

patternMatch(p, name) ==
  IF IsGlob(p) THEN Glob(Fold(p), Fold(name)) ELSE EqualFold(p, name)

\* A rule has a name, a pattern, or both; the one it does not have is empty.
\* Its versions and checksum are never looked at.
NameMatches(rule, name) == rule.name # <<>> /\ EqualFold(rule.name, name)
PatternMatches(rule, name) == rule.pattern # <<>> /\ matchPattern(rule.pattern, name)
Matches(rule, name) == NameMatches(rule, name) \/ PatternMatches(rule, name)

matchesAllow(rules, name) == \E i \in DOMAIN rules : Matches(rules[i], name)

\* The rule that a denied package is reported with, its name before its pattern.
DenyRule(rules, name) ==
  LET first == CHOOSE i \in DOMAIN rules :
                 Matches(rules[i], name) /\ \A j \in 1..(i - 1) : ~Matches(rules[j], name)
  IN  IF NameMatches(rules[first], name)
        THEN <<"name", rules[first].name>> ELSE <<"pattern", rules[first].pattern>>

-----------------------------------------------------------------------------
\* The rule of a violation is an id and what follows its colon, if anything.
Violation(pkg, reason, rule) == [pkg |-> pkg, reason |-> reason, rule |-> rule]

Package(name) == name \o <<"@", "v">>

If(condition, violation) == IF condition THEN <<violation>> ELSE <<>>

NodeViolations(pol, node) ==
  LET pkg == Package(node.name)
  IN  If(pol.maxDepth > 0 /\ node.depth > pol.maxDepth,
         Violation(pkg, "transitive_depth_exceeded", <<"max_depth", pol.maxDepth>>))
      \o If(pol.mode = "allowlist" /\ ~matchesAllow(pol.allow, node.name),
            Violation(pkg, "not_in_allowlist", <<"allowlist">>))
      \o IF pol.mode = "denylist" /\ matchesAllow(pol.deny, node.name)
           THEN <<Violation(pkg, "denylist_match", DenyRule(pol.deny, node.name))>>
           ELSE <<>>

Evaluate(pol, nodes) ==
  IF pol.mode = "audit-only" THEN <<>>
  ELSE FlattenSeq([i \in DOMAIN nodes |-> NodeViolations(pol, nodes[i])])

\* "warn", "log" and every unknown mode differ in what they print.
ApplyEnforcement(mode, violations) ==
  IF violations # <<>> /\ mode = "block" THEN "failed" ELSE "ok"

-----------------------------------------------------------------------------
(* The name in a package id, as the stage command and the reports read it. *)

LastAt(id) == {i \in DOMAIN id : id[i] = "@" /\ \A j \in (i + 1)..Len(id) : id[j] # "@"}

\* Mutant: the first @ sign ends the name.
stagePkgNameFirst(id) ==
  IF LastAt(id) = {} THEN id
  ELSE SubSeq(id, 1, (CHOOSE i \in DOMAIN id :
                        id[i] = "@" /\ \A j \in 1..(i - 1) : id[j] # "@") - 1)

stagePkgName(id) ==
  IF LastAt(id) = {} THEN id ELSE SubSeq(id, 1, (CHOOSE i \in LastAt(id) : TRUE) - 1)

\* Every mode of the policy has its deny rules checked here.
denylistCheck(pol, id) ==
  \E i \in DOMAIN pol.deny :
    LET rule == pol.deny[i]
        name == stagePkgName(id)
    IN  \/ NameMatches(rule, name)
        \/ rule.pattern # <<>> /\ patternMatch(rule.pattern, name)
=============================================================================
