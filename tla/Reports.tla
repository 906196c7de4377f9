------------------------------- MODULE Reports -------------------------------
(***************************************************************************)
(* What the reports say of the violations and the audit events of a run:   *)
(* the counts of the JSON report of scalp ci and of the Markdown report of *)
(* scalp audit, and the SARIF report of both and of scalp stage verify.    *)
(* Headings, texts and the layout of the reports are left out.             *)
(***************************************************************************)
EXTENDS PolicyRules, FiniteSets

Event(event, pkg, status, reason, match) ==
  [event |-> event, pkg |-> pkg, status |-> status, reason |-> reason, match |-> match]

Count(events, Test(_)) == Cardinality({i \in DOMAIN events : Test(events[i])})

policyMissingEvent == Event("policy_missing", <<>>, "warn", "policy_not_found", FALSE)

policyViolationEvents(violations) ==
  [i \in DOMAIN violations |->
     Event("policy_violation", violations[i].pkg, "blocked", violations[i].reason, FALSE)]

-----------------------------------------------------------------------------
(* The JSON report. *)

SaysMissing(e) ==
  \/ e.status = "missing"
  \/ e.reason \in {"missing_lock_entry", "package_not_installed"}

\* Mutant: a package without a lockfile entry counts as mismatched.
AuditFromEventsByStatus(events) ==
  [verified   |-> Count(events, LAMBDA e : e.match),
   missing    |-> Count(events, LAMBDA e : ~e.match /\ e.status = "missing"),
   mismatched |-> Count(events, LAMBDA e : ~e.match /\ e.status # "missing")]

\* What neither matches nor is missing counts as mismatched.
AuditFromEvents(events) ==
  [verified   |-> Count(events, LAMBDA e : e.match),
   missing    |-> Count(events, LAMBDA e : ~e.match /\ SaysMissing(e)),
   mismatched |-> Count(events, LAMBDA e : ~e.match /\ ~SaysMissing(e))]

RenderReport(passed, violations, events) ==
  [passed |-> passed, violations |-> violations, audit |-> AuditFromEvents(events)]

-----------------------------------------------------------------------------
(* The Markdown report. *)

Verifies(e) == e.event = "hash_verified" \/ (e.event = "hash_check" /\ e.match)

countHashEvents(events) ==
  [verified   |-> Count(events, Verifies),
   mismatched |-> Count(events, LAMBDA e : ~Verifies(e) /\ e.status = "mismatch"),
   missing    |-> Count(events, LAMBDA e : ~Verifies(e) /\ e.status = "missing")]

HashRow(e) ==
  [pkg    |-> e.pkg,
   status |-> CASE e.match -> "verified"
                [] ~e.match /\ e.status \in {"missing", "mismatch"} -> e.status
                [] OTHER -> "none"]

\* The rows of the hash table, a package each.
HashDetails(events) ==
  FlattenSeq([i \in DOMAIN events |->
    If(events[i].event \in {"hash_check", "hash_verified", "hash_missing"},
       HashRow(events[i]))])

\* The verdict of a package that has a score.
Verdict(pkg, violations) ==
  IF \E i \in DOMAIN violations :
       violations[i].pkg = pkg /\ violations[i].rule[1] = "min_score"
    THEN "fail" ELSE "pass"

RenderAuditMarkdown(violations, events, scored) ==
  [failed     |-> violations # <<>>,
   summary    |-> countHashEvents(events),
   trust      |-> Count(violations, LAMBDA v : v.rule[1] = "min_score"),
   hashes     |-> HashDetails(events),
   scores     |-> [i \in DOMAIN scored |->
                     [pkg |-> scored[i], verdict |-> Verdict(scored[i], violations)]],
   violations |-> violations,
   rawLog     |-> events]

-----------------------------------------------------------------------------
(* The SARIF report. *)

normalizeRuleID(rule) == rule[1]

\* Every rule but this one, known or not, is an error.
ruleLevel(id) == IF id = "max_depth" THEN "warning" ELSE "error"

\* Mutant: a rule that was seen is listed again.
NextRuleAgain(b, id) ==
  [rules |-> Append(b.rules, id),
   seen  |-> [x \in DOMAIN b.seen \cup {id} |->
                IF x = id THEN Len(b.rules) ELSE b.seen[x]]]

\* One violation more: a new rule is listed, and its index is remembered.
NextRule(b, id) ==
  IF id \in DOMAIN b.seen THEN b
  ELSE [rules |-> Append(b.rules, id),
        seen  |-> [x \in DOMAIN b.seen \cup {id} |->
                     IF x = id THEN Len(b.rules) ELSE b.seen[x]]]

\* The rules in the order of their first violations, and where each one is.
buildRules(violations) ==
  LET built[n \in 0..Len(violations)] ==
        IF n = 0 THEN [rules |-> <<>>, seen |-> [id \in {} |-> 0]]
        ELSE NextRule(built[n - 1], normalizeRuleID(violations[n].rule))
  IN  built[Len(violations)]

\* The location is the package's directory in node_modules, or below the name
\* of the artifact.
buildResults(violations, seen, artifact) ==
  [i \in DOMAIN violations |->
     LET id == normalizeRuleID(violations[i].rule)
     IN  [ruleId    |-> id,
          ruleIndex |-> seen[id],
          level     |-> ruleLevel(id),
          message   |-> violations[i].reason,
          uri       |-> (IF artifact = <<>> THEN <<"node_modules">> ELSE artifact)
                          \o <<"/">> \o stagePkgName(violations[i].pkg)]]

RenderSarif(passed, violations, artifact) ==
  LET built == buildRules(violations)
  IN  [executionSuccessful |-> passed,
       rules               |-> built.rules,
       results             |-> buildResults(violations, built.seen, artifact)]
=============================================================================
