---------------------------- MODULE CommandsProofs ----------------------------
(***************************************************************************)
(* Proofs about Commands, for any packages, configurations and verdicts of *)
(* policy and scorer, with every failure, interruption and change by       *)
(* others: the gate of a guarded install and of scalp ci, the audit log,   *)
(* the exit code and the ci report.                                        *)
(***************************************************************************)
EXTENDS Commands, TLAPS

-----------------------------------------------------------------------------
(* The inductive invariant. *)

\* Which command is in which phase; until it ends there is no report.
Order ==
  /\ phase # "idle" => exit = "running" /\ report = NoReport
  /\ phase \in {"resolve", "parse"} => is("ci") \/ (is("install") /\ config.guarded)
  /\ phase = "enforce" => is("install") /\ config.guarded
  /\ phase \in {"install", "sync", "save"} => ~is("audit")
  /\ phase \in {"checksum", "report"} => is("ci")
  /\ phase = "verify" => is("ci") \/ is("audit")
  /\ phase = "trust" /\ is("install") => config.guarded
  /\ phase = "end" => is("audit")

\* The package manager has not been told to install.
Before ==
  phase \in {"resolve", "parse", "enforce", "install"} \/ (phase = "trust" /\ is("install"))

\* Then nothing is installed, if resolving does not; and until it is saved the
\* lockfile has the entries that it had.
NothingYet ==
  /\ still /\ Before /\ (is("ci") \/ config.guarded) /\ ~ResolveInstalls => NewlyInstalled = {}
  /\ is("install") /\ (Before \/ phase \in {"sync", "save"}) => In(entries) = before.locked

\* A guarded install that has passed the gate, whether it goes on or has been
\* ended since: what it installed was evaluated, what was found is logged, and
\* a blocking one found nothing.
Gate ==
  is("install") /\ config.guarded =>
    /\ PolicyViolations(nodes) \subseteq violations
    /\ phase \in {"install", "sync", "save"} =>
         /\ violations \subseteq logged
         /\ config.enforcement = "block" => violations = {}
    /\ phase \in {"enforce", "install", "sync", "save"} /\ ~dropped =>
         TrustViolations(nodes, before.locked) \subseteq violations
    /\ still /\ ~ResolveInstalls /\ NewlyInstalled # {} =>
         /\ NewlyInstalled \subseteq pmlock
         /\ violations \subseteq logged
         /\ config.enforcement = "block" => violations = {}
         /\ ~dropped => TrustViolations(nodes, before.locked) \subseteq violations

\* A ci run that goes on after its gate has found no package that the policy
\* rejects in what it read of the package manager's lockfile, and installs exactly
\* that lockfile.
CiGate ==
  is("ci") /\ still =>
    /\ phase \in {"install", "sync", "save", "trust", "checksum", "verify", "report"} =>
         pmlock \cap RejectedByPolicy \subseteq Unlisted
    /\ phase \in {"sync", "save", "trust", "checksum", "verify", "report"} =>
         In(nodeModules) = pmlock
    /\ ~ResolveInstalls => NewlyInstalled \cap RejectedByPolicy \subseteq Unlisted

\* What the checks at the end of ci and of audit have compared and found.
Checked ==
  still =>
    /\ is("ci") /\ phase \in {"trust", "checksum", "verify", "report"} => lf = entries
    /\ is("audit") /\ phase \in {"trust", "end"} => lf = entries
    /\ phase \in {"report", "end"} \/ (is("audit") /\ phase = "trust") =>
         auditFound = Mismatches(got, entries)
    /\ phase \in {"checksum", "report", "end"} \/ (is("ci") /\ phase = "verify") =>
         dropped \/ TrustViolations(got \cap In(nodeModules), In(entries)) \subseteq violations

\* With them the two properties that are inductive themselves.
IInv ==
  /\ TypeOK /\ Order /\ NothingYet /\ Gate /\ CiGate /\ Checked
  /\ GreenRunIsTrue /\ ReportAgreesWithExit

-----------------------------------------------------------------------------
(* Helpers. *)

\* The package manager installs exactly the packages that it is given.
LEMMA Installed ==
  ASSUME nodeModules \in State, NEW pkgs \in SUBSET Pkgs
  PROVE  AfterInstall(pkgs) \in State /\ In(AfterInstall(pkgs)) = pkgs
BY DEF AfterInstall, In, State

\* The rules are those of one command, from its first step to its last.
LEMMA RulesKept ==
  ASSUME UNCHANGED <<config, verdicts>>
  PROVE  /\ UNCHANGED nodes => PolicyViolations(nodes)' = PolicyViolations(nodes)
         /\ UNCHANGED <<nodes, before>> =>
              TrustViolations(nodes, before.locked)' = TrustViolations(nodes, before.locked)
         /\ UNCHANGED <<nodeModules, entries, got>> =>
              /\ TrustViolations(got \cap In(nodeModules), In(entries))'
                   = TrustViolations(got \cap In(nodeModules), In(entries))
              /\ Mismatches(got, entries)' = Mismatches(got, entries)
BY DEF PolicyViolations, denied, TrustViolations, Unhashed, requireHash, is, distrusted,
       Mismatches, In

\* No pair, no member.
LEMMA NoPair ==
  ASSUME NEW rule, NEW S, {rule} \X S = {}
  PROVE  S = {}
<1> SUFFICES ASSUME NEW p \in S PROVE FALSE
  OBVIOUS
<1>1. <<rule, p>> \in {rule} \X S
  OBVIOUS
<1> QED
  BY <1>1

\* What it means that the policy, the scorer and the lockfile check find nothing.
LEMMA NoPolicyViolation ==
  ASSUME NEW pkgs, PolicyViolations(pkgs) = {}
  PROVE  pkgs \cap RejectedByPolicy = {}
BY NoPair DEF PolicyViolations, RejectedByPolicy

\* Nothing that the scorer rejects, and with require_hash nothing without a hash.
LEMMA NoTrustViolation ==
  ASSUME NEW pkgs, NEW locked, TrustViolations(pkgs, locked) = {}
  PROVE  /\ pkgs \cap RejectedByScore = {}
         /\ requireHash /\ ~config.auditOnly => pkgs \subseteq locked
<1>1. CASE config.auditOnly
  BY <1>1 DEF RejectedByScore
<1>2. CASE ~config.auditOnly
  <2> DEFINE low == IF config.minScore
                      THEN (pkgs \ Unhashed(pkgs, locked)) \cap distrusted ELSE {}
  <2>3. {"require_hash"} \X Unhashed(pkgs, locked) = {} /\ {"min_score"} \X low = {}
    BY <1>2 DEF TrustViolations
  <2> HIDE DEF low
  <2>1. Unhashed(pkgs, locked) = {} /\ low = {}
    BY <2>3, NoPair
  <2>2. config.minScore => pkgs \cap distrusted = {}
    BY <2>1 DEF low
  <2> QED
    BY <1>2, <2>1, <2>2 DEF Unhashed, RejectedByScore
<1> QED
  BY <1>1, <1>2

\* What the package manager tells of is locked as it is installed, and nothing
\* else is locked.
LEMMA NoMismatch ==
  ASSUME NEW locked \in State, got \subseteq Pkgs, nodeModules \in State,
         Mismatches(got, locked) = {}
  PROVE  /\ \A p \in Pkgs \ Untold : locked[p] = nodeModules[p]
         /\ In(locked) \cap Untold = {}
<1>1. In(locked) \subseteq got /\ \A p \in got : locked[p] = nodeModules[p]
  BY NoPair DEF Mismatches
<1>2. \A p \in Pkgs \ got : locked[p] = "absent"
  BY <1>1 DEF In
<1>3. \A p \in Pkgs \ Untold : p \in got \/ nodeModules[p] = "absent"
  BY DEF Untold, In
<1> QED
  BY <1>1, <1>2, <1>3 DEF Untold

-----------------------------------------------------------------------------
(* The parts of the invariant, action by action. *)

\* Every action keeps the types.
LEMMA TypeNext == TypeOK /\ [Next]_vars => TypeOK'
<1> SUFFICES ASSUME TypeOK, [Next]_vars PROVE TypeOK'
  OBVIOUS
<1> USE ConfigsAssumption, VerdictsAssumption, ResolveAssumption DEF TypeOK, results,
        project, unchangedRun, Exit, Continue
<1>1. ASSUME NEW c \in Configs, Begin(c) PROVE TypeOK'
  BY <1>1 DEF Begin, State, Nothing, In
<1>2. CASE Resolve
  BY <1>2, Installed DEF Resolve
<1>3. CASE EvaluateInstall
  BY <1>3 DEF EvaluateInstall, PolicyViolations, Violation
<1>4. CASE EvaluateCi
  <2>1. violations' \subseteq Violation
    BY <1>4 DEF EvaluateCi, PolicyViolations, Violation
  <2>2. report' \in Report \cup {NoReport}
    <3>1. [passed |-> FALSE, violations |-> violations'] \in Report
      BY <2>1 DEF Report
    <3> QED
      BY <1>4, <3>1 DEF EvaluateCi
  <2>3. phase' \in {"idle", "install"} /\ exit' \in {"running", "ok", "failed"}
    BY <1>4 DEF EvaluateCi, Enforced
  <2> QED
    BY <1>4, <2>1, <2>2, <2>3 DEF EvaluateCi
<1>5. CASE TrustInstall
  BY <1>5 DEF TrustInstall, Trust, TrustViolations, Unhashed, Violation
<1>6. CASE EnforceInstall
  BY <1>6 DEF EnforceInstall, Enforced
<1>7. CASE Install
  <2>1. pmlock' \in SUBSET Pkgs
    BY <1>7 DEF Install
  <2>2. \A part \in SUBSET pmlock' : In(nodeModules) \cup part \in SUBSET Pkgs
    BY <2>1 DEF In
  <2>3. nodeModules' \in State
    BY <1>7, <2>1, <2>2, Installed DEF Install
  <2> QED
    BY <1>7, <2>1, <2>3 DEF Install
<1>8. CASE Sync
  BY <1>8 DEF Sync, State
<1>9. CASE Save
  BY <1>9 DEF Save
<1>10. CASE TrustInstalled
  BY <1>10 DEF TrustInstalled, Trust, TrustViolations, Unhashed, Violation, In
<1>11. CASE Checksum
  BY <1>11 DEF Checksum, Violation
<1>12. CASE VerifyCi
  BY <1>12 DEF VerifyCi, Mismatches, Violation, In
<1>13. CASE ReportCi
  BY <1>13 DEF ReportCi, Report, Enforced
<1>14. CASE VerifyAudit
  BY <1>14 DEF VerifyAudit, Mismatches, Violation, In
<1>15. CASE EndAudit
  BY <1>15 DEF EndAudit, Enforced
<1>16. CASE Fails
  BY <1>16 DEF Fails
<1>17. CASE Drift
  <2>1. pmlock' \subseteq Pkgs /\ still' \in BOOLEAN
    BY <1>17 DEF Drift
  <2>3. drifts' \in 0..MaxDrift
    BY <1>17, ResolveAssumption DEF Drift, TypeOK
  <2>2. nodeModules' \in State
    BY <1>17 DEF Drift, State, In
  <2> QED
    BY <1>17, <2>1, <2>2, <2>3 DEF Drift
<1>18. CASE UNCHANGED vars
  BY <1>18 DEF vars
<1> QED
  BY <1>1, <1>2, <1>3, <1>4, <1>5, <1>6, <1>7, <1>8, <1>9, <1>10, <1>11, <1>12, <1>13,
     <1>14,
     <1>15, <1>16, <1>17, <1>18 DEF Next
\* Commands come to their phases in order.
LEMMA OrderNext ==
  ASSUME TypeOK, Order, [Next]_vars PROVE Order'
<1> USE ConfigsAssumption DEF TypeOK, Order, ConfigType, project, results, unchangedRun,
        Exit, Continue, is
<1>1. ASSUME NEW c \in Configs, Begin(c) PROVE Order'
  BY <1>1 DEF Begin
<1>2. CASE Resolve
  BY <1>2 DEF Resolve
<1>3. CASE EvaluateInstall
  BY <1>3 DEF EvaluateInstall
<1>4. CASE EvaluateCi
  BY <1>4 DEF EvaluateCi, Enforced
<1>5. CASE TrustInstall
  BY <1>5 DEF TrustInstall, Trust
<1>6. CASE EnforceInstall
  BY <1>6 DEF EnforceInstall, Enforced
<1>7. CASE Install
  BY <1>7 DEF Install
<1>8. CASE Sync
  BY <1>8 DEF Sync
<1>9. CASE Save
  BY <1>9 DEF Save
<1>10. CASE TrustInstalled
  BY <1>10 DEF TrustInstalled, Trust
<1>11. CASE Checksum
  BY <1>11 DEF Checksum
<1>12. CASE VerifyCi
  BY <1>12 DEF VerifyCi
<1>13. CASE ReportCi
  BY <1>13 DEF ReportCi, Enforced
<1>14. CASE VerifyAudit
  BY <1>14 DEF VerifyAudit
<1>15. CASE EndAudit
  BY <1>15 DEF EndAudit, Enforced
<1>16. CASE Fails
  BY <1>16 DEF Fails
<1>17. CASE Drift
  BY <1>17 DEF Drift
<1>18. CASE UNCHANGED vars
  BY <1>18 DEF vars
<1> QED
  BY <1>1, <1>2, <1>3, <1>4, <1>5, <1>6, <1>7, <1>8, <1>9, <1>10, <1>11, <1>12, <1>13,
     <1>14, <1>15, <1>16, <1>17, <1>18 DEF Next

\* What may not install does not: only PMInstall and, if the package manager
\* installs as it resolves, Resolve add a package.
LEMMA NothingYetNext ==
  ASSUME TypeOK, Order, NothingYet, [Next]_vars PROVE NothingYet'
<1> USE ConfigsAssumption, ResolveAssumption DEF TypeOK, Order, NothingYet, Before,
        NewlyInstalled, ConfigType, In, project, results, unchangedRun, Exit, Continue,
        is
<1>1. ASSUME NEW c \in Configs, Begin(c) PROVE NothingYet'
  BY <1>1 DEF Begin
<1>2. CASE Resolve
  BY <1>2 DEF Resolve
<1>3. CASE EvaluateInstall
  BY <1>3 DEF EvaluateInstall
<1>4. CASE EvaluateCi
  BY <1>4 DEF EvaluateCi, Enforced
<1>5. CASE TrustInstall
  BY <1>5 DEF TrustInstall, Trust
<1>6. CASE EnforceInstall
  BY <1>6 DEF EnforceInstall, Enforced
<1>7. CASE Install
  BY <1>7 DEF Install
<1>8. CASE Sync
  BY <1>8 DEF Sync
<1>9. CASE Save
  BY <1>9 DEF Save
<1>10. CASE TrustInstalled
  BY <1>10 DEF TrustInstalled, Trust
<1>11. CASE Checksum
  BY <1>11 DEF Checksum
<1>12. CASE VerifyCi
  BY <1>12 DEF VerifyCi
<1>13. CASE ReportCi
  BY <1>13 DEF ReportCi, Enforced
<1>14. CASE VerifyAudit
  BY <1>14 DEF VerifyAudit
<1>15. CASE EndAudit
  BY <1>15 DEF EndAudit, Enforced
<1>16. CASE Fails
  BY <1>16 DEF Fails
<1>17. CASE Drift
  BY <1>17 DEF Drift
<1>18. CASE UNCHANGED vars
  BY <1>18 DEF vars
<1> QED
  BY <1>1, <1>2, <1>3, <1>4, <1>5, <1>6, <1>7, <1>8, <1>9, <1>10, <1>11, <1>12, <1>13,
     <1>14, <1>15, <1>16, <1>17, <1>18 DEF Next

\* The gate of a guarded install: what it finds is kept and logged until the
\* command ends, and its end changes nothing.
LEMMA GateNext ==
  ASSUME TypeOK, Order, NothingYet, Gate, [Next]_vars PROVE Gate'
<1> USE ConfigsAssumption, ResolveAssumption, NoReportAssumption DEF TypeOK, Order,
        ConfigType, project, results, unchangedRun, Exit, Continue, is, Gate,
        NothingYet, Before, NewlyInstalled
<1>1. ASSUME NEW c \in Configs, Begin(c) PROVE Gate'
  BY <1>1 DEF Begin, PolicyViolations
<1>2. CASE Resolve
  BY <1>2, RulesKept DEF Resolve
<1>3. CASE EvaluateInstall
  <2>1. violations' = PolicyViolations(nodes)'
    BY <1>3 DEF EvaluateInstall, PolicyViolations, denied
  <2>2. ~trustOn => TrustViolations(nodes, before.locked)' = {}
    BY <1>3 DEF EvaluateInstall, trustOn, requireHash, TrustViolations, Unhashed
  <2> QED
    BY <1>3, <2>1, <2>2 DEF EvaluateInstall
<1>4. CASE EvaluateCi
  BY <1>4 DEF EvaluateCi, Enforced
<1>5. CASE TrustInstall
  BY <1>5, RulesKept DEF TrustInstall, Trust
<1>6. CASE EnforceInstall
  BY <1>6, RulesKept DEF EnforceInstall, Enforced
<1>7. CASE Install
  BY <1>7, RulesKept DEF Install, AfterInstall, In, State
<1>8. CASE Sync
  BY <1>8, RulesKept DEF Sync
<1>9. CASE Save
  BY <1>9, RulesKept DEF Save
<1>10. CASE TrustInstalled
  BY <1>10 DEF TrustInstalled, Trust
<1>11. CASE Checksum
  BY <1>11 DEF Checksum
<1>12. CASE VerifyCi
  BY <1>12 DEF VerifyCi
<1>13. CASE ReportCi
  BY <1>13 DEF ReportCi, Enforced
<1>14. CASE VerifyAudit
  BY <1>14 DEF VerifyAudit
<1>15. CASE EndAudit
  BY <1>15 DEF EndAudit, Enforced
<1>16. CASE Fails
  BY <1>16, RulesKept DEF Fails
<1>17. CASE Drift
  BY <1>17, RulesKept DEF Drift
<1>18. CASE UNCHANGED vars
  BY <1>18, RulesKept DEF vars
<1> QED
  BY <1>1, <1>2, <1>3, <1>4, <1>5, <1>6, <1>7, <1>8, <1>9, <1>10, <1>11, <1>12, <1>13,
     <1>14, <1>15, <1>16, <1>17, <1>18 DEF Next

\* The gate of ci.
LEMMA CiGateNext ==
  ASSUME TypeOK, Order, NothingYet, CiGate, [Next]_vars PROVE CiGate'
<1> USE ConfigsAssumption, ResolveAssumption, NoReportAssumption DEF TypeOK, Order,
        ConfigType, project, results, unchangedRun, Exit, Continue, is, CiGate,
        NothingYet, Before, NewlyInstalled, RejectedByPolicy, denied, Unlisted
<1>1. ASSUME NEW c \in Configs, Begin(c) PROVE CiGate'
  BY <1>1 DEF Begin
<1>2. CASE Resolve
  BY <1>2 DEF Resolve
<1>3. CASE EvaluateInstall
  BY <1>3 DEF EvaluateInstall
<1>4. CASE EvaluateCi
  BY <1>4, NoPolicyViolation DEF EvaluateCi
<1>5. CASE TrustInstall
  BY <1>5 DEF TrustInstall, Trust
<1>6. CASE EnforceInstall
  BY <1>6 DEF EnforceInstall, Enforced
<1>7. CASE Install
  BY <1>7 DEF Install, AfterInstall, In, State
<1>8. CASE Sync
  BY <1>8 DEF Sync
<1>9. CASE Save
  BY <1>9 DEF Save
<1>10. CASE TrustInstalled
  BY <1>10 DEF TrustInstalled, Trust
<1>11. CASE Checksum
  BY <1>11 DEF Checksum
<1>12. CASE VerifyCi
  BY <1>12 DEF VerifyCi
<1>13. CASE ReportCi
  BY <1>13 DEF ReportCi, Enforced
<1>14. CASE VerifyAudit
  BY <1>14 DEF VerifyAudit
<1>15. CASE EndAudit
  BY <1>15 DEF EndAudit, Enforced
<1>16. CASE Fails
  BY <1>16 DEF Fails
<1>17. CASE Drift
  BY <1>17 DEF Drift
<1>18. CASE UNCHANGED vars
  BY <1>18 DEF vars
<1> QED
  BY <1>1, <1>2, <1>3, <1>4, <1>5, <1>6, <1>7, <1>8, <1>9, <1>10, <1>11, <1>12, <1>13,
     <1>14, <1>15, <1>16, <1>17, <1>18 DEF Next

\* The checks of ci and audit, step by step.
LEMMA CheckedNext ==
  ASSUME TypeOK, Order, Checked, [Next]_vars PROVE Checked'
<1> USE ConfigsAssumption, ResolveAssumption, NoReportAssumption DEF TypeOK, Order,
        ConfigType, project, results, unchangedRun, Exit, Continue, is, Checked
<1>1. ASSUME NEW c \in Configs, Begin(c) PROVE Checked'
  BY <1>1 DEF Begin
<1>2. CASE Resolve
  BY <1>2 DEF Resolve
<1>3. CASE EvaluateInstall
  BY <1>3 DEF EvaluateInstall
<1>4. CASE EvaluateCi
  BY <1>4 DEF EvaluateCi, Enforced
<1>5. CASE TrustInstall
  BY <1>5 DEF TrustInstall, Trust
<1>6. CASE EnforceInstall
  BY <1>6 DEF EnforceInstall, Enforced
<1>7. CASE Install
  BY <1>7 DEF Install
<1>8. CASE Sync
  BY <1>8 DEF Sync
<1>9. CASE Save
  <2>1. ~trustOn => TrustViolations(got \cap In(nodeModules), In(entries))' = {}
    BY <1>9 DEF Save, trustOn, requireHash, TrustViolations, Unhashed
  <2> QED
    BY <1>9, <2>1 DEF Save
<1>10. CASE TrustInstalled
  <2>1. still => lf = entries
    BY <1>10 DEF TrustInstalled
  <2> QED
    BY <1>10, <2>1, RulesKept DEF TrustInstalled, Trust
<1>11. CASE Checksum
  BY <1>11, RulesKept DEF Checksum
<1>12. CASE VerifyCi
  BY <1>12, RulesKept DEF VerifyCi
<1>13. CASE ReportCi
  BY <1>13 DEF ReportCi, Enforced
<1>14. CASE VerifyAudit
  <2>1. ~trustOn => TrustViolations(got \cap In(nodeModules), In(entries))' = {}
    BY <1>14 DEF VerifyAudit, trustOn, requireHash, TrustViolations, Unhashed
  <2>2. auditFound' = Mismatches(got, entries)'
    BY <1>14 DEF VerifyAudit, Mismatches, In
  <2> QED
    BY <1>14, <2>1, <2>2 DEF VerifyAudit
<1>15. CASE EndAudit
  BY <1>15 DEF EndAudit, Enforced
<1>16. CASE Fails
  BY <1>16 DEF Fails
<1>17. CASE Drift
  BY <1>17 DEF Drift
<1>18. CASE UNCHANGED vars
  BY <1>18, RulesKept DEF vars
<1> QED
  BY <1>1, <1>2, <1>3, <1>4, <1>5, <1>6, <1>7, <1>8, <1>9, <1>10, <1>11, <1>12, <1>13,
     <1>14, <1>15, <1>16, <1>17, <1>18 DEF Next

\* A run that ends with success has passed all of them.
LEMMA GreenRunNext ==
  ASSUME TypeOK, Order, Checked, CiGate, GreenRunIsTrue, [Next]_vars PROVE GreenRunIsTrue'
<1> USE ConfigsAssumption, ResolveAssumption, NoReportAssumption DEF TypeOK, Order,
        ConfigType, project, results, unchangedRun, Exit, Continue, is, Checked, CiGate,
        GreenRunIsTrue, RejectedByPolicy, RejectedByScore, denied, distrusted, Unlisted
<1>1. ASSUME NEW c \in Configs, Begin(c) PROVE GreenRunIsTrue'
  BY <1>1 DEF Begin
<1>2. CASE Resolve
  BY <1>2 DEF Resolve
<1>3. CASE EvaluateInstall
  BY <1>3 DEF EvaluateInstall
<1>4. CASE EvaluateCi
  BY <1>4 DEF EvaluateCi, Enforced
<1>5. CASE TrustInstall
  BY <1>5 DEF TrustInstall, Trust
<1>6. CASE EnforceInstall
  BY <1>6 DEF EnforceInstall, Enforced
<1>7. CASE Install
  BY <1>7 DEF Install
<1>8. CASE Sync
  BY <1>8 DEF Sync
<1>9. CASE Save
  BY <1>9 DEF Save
<1>10. CASE TrustInstalled
  BY <1>10 DEF TrustInstalled, Trust
<1>11. CASE Checksum
  BY <1>11 DEF Checksum
<1>12. CASE VerifyCi
  BY <1>12 DEF VerifyCi
<1>13. CASE ReportCi
  <2> SUFFICES ASSUME still, exit' = "ok", config.enforcement = "block"
               PROVE  GreenRunIsTrue'
    BY <1>13 DEF ReportCi
  <2>1. /\ violations = {} /\ auditFound = {} /\ is("ci") /\ phase = "report"
        /\ In(nodeModules) = pmlock
    BY <1>13 DEF ReportCi, Enforced
  <2>2. pmlock \cap RejectedByPolicy \subseteq Unlisted
    BY <1>13, <2>1 DEF ReportCi
  <2>3. dropped \/ got \cap In(nodeModules) \cap RejectedByScore = {}
    BY <1>13, <2>1, NoTrustViolation DEF ReportCi
  <2>4. /\ \A p \in Pkgs \ Untold : entries[p] = nodeModules[p]
        /\ In(entries) \cap Untold = {}
    BY <1>13, <2>1, NoMismatch DEF ReportCi
  <2> QED
    BY <1>13, <2>1, <2>2, <2>3, <2>4 DEF ReportCi, Untold, In
<1>14. CASE VerifyAudit
  BY <1>14 DEF VerifyAudit
<1>15. CASE EndAudit
  <2> SUFFICES ASSUME still, exit' = "ok", config.enforcement = "block"
               PROVE  GreenRunIsTrue'
    BY <1>15 DEF EndAudit
  <2>1. violations = {} /\ auditFound = {} /\ is("audit")
    BY <1>15 DEF EndAudit, Enforced
  <2>2. /\ \A p \in Pkgs \ Untold : entries[p] = nodeModules[p]
        /\ In(entries) \cap Untold = {}
    BY <1>15, <2>1, NoMismatch DEF EndAudit
  <2>3. dropped \/ got \cap In(nodeModules) \cap RejectedByScore = {}
    BY <1>15, <2>1, NoTrustViolation DEF EndAudit
  <2> QED
    BY <1>15, <2>1, <2>2, <2>3 DEF EndAudit, Untold, In
<1>16. CASE Fails
  BY <1>16 DEF Fails
<1>17. CASE Drift
  BY <1>17 DEF Drift
<1>18. CASE UNCHANGED vars
  BY <1>18 DEF vars, Untold, In
<1> QED
  BY <1>1, <1>2, <1>3, <1>4, <1>5, <1>6, <1>7, <1>8, <1>9, <1>10, <1>11, <1>12, <1>13,
     <1>14, <1>15, <1>16, <1>17, <1>18 DEF Next

\* The report of ci is written when the exit code is known.
LEMMA ReportNext ==
  ASSUME TypeOK, Order, ReportAgreesWithExit, [Next]_vars PROVE ReportAgreesWithExit'
<1> USE ConfigsAssumption, ResolveAssumption, NoReportAssumption DEF TypeOK, Order,
        ConfigType, project, results, unchangedRun, Exit, Continue, is,
        ReportAgreesWithExit, Done
<1>1. ASSUME NEW c \in Configs, Begin(c) PROVE ReportAgreesWithExit'
  BY <1>1 DEF Begin
<1>2. CASE Resolve
  BY <1>2 DEF Resolve
<1>3. CASE EvaluateInstall
  BY <1>3 DEF EvaluateInstall
<1>4. CASE EvaluateCi
  BY <1>4 DEF EvaluateCi, Enforced
<1>5. CASE TrustInstall
  BY <1>5 DEF TrustInstall, Trust
<1>6. CASE EnforceInstall
  BY <1>6 DEF EnforceInstall, Enforced
<1>7. CASE Install
  BY <1>7 DEF Install
<1>8. CASE Sync
  BY <1>8 DEF Sync
<1>9. CASE Save
  BY <1>9 DEF Save
<1>10. CASE TrustInstalled
  BY <1>10 DEF TrustInstalled, Trust
<1>11. CASE Checksum
  BY <1>11 DEF Checksum
<1>12. CASE VerifyCi
  BY <1>12 DEF VerifyCi
<1>13. CASE ReportCi
  <2>1. report' \in Report /\ (report'.passed <=> auditFound = {})
    BY <1>13 DEF ReportCi, Report
  <2>2. exit' = "ok" /\ config.enforcement = "block" => auditFound = {}
    BY <1>13 DEF ReportCi, Enforced
  <2>3. exit' \in {"ok", "failed"} /\ config' = config
    BY <1>13 DEF ReportCi, Enforced
  <2> QED
    BY <2>1, <2>2, <2>3
<1>14. CASE VerifyAudit
  BY <1>14 DEF VerifyAudit
<1>15. CASE EndAudit
  BY <1>15 DEF EndAudit, Enforced
<1>16. CASE Fails
  BY <1>16 DEF Fails
<1>17. CASE Drift
  BY <1>17 DEF Drift
<1>18. CASE UNCHANGED vars
  BY <1>18 DEF vars
<1> QED
  BY <1>1, <1>2, <1>3, <1>4, <1>5, <1>6, <1>7, <1>8, <1>9, <1>10, <1>11, <1>12, <1>13,
     <1>14, <1>15, <1>16, <1>17, <1>18 DEF Next

-----------------------------------------------------------------------------

\* It holds before the first command.
LEMMA InitIInv == Init => IInv
<1> SUFFICES ASSUME Init PROVE IInv
  OBVIOUS
<1> USE ConfigsAssumption, ResolveAssumption DEF Init
<1>1. TypeOK
  <2>1. Nothing \in State /\ 0 \in 0..MaxDrift
    BY DEF State, Nothing
  <2>2. [installed |-> {}, locked |-> {}] \in [installed : SUBSET Pkgs, locked : SUBSET Pkgs]
    OBVIOUS
  <2> QED
    BY <2>1, <2>2 DEF TypeOK
<1>2. Order
  BY DEF Order
<1>3. NothingYet
  BY DEF NothingYet, Before
<1>4. Gate
  BY DEF Gate, PolicyViolations, NewlyInstalled, In, Nothing
<1>5. CiGate
  BY DEF CiGate, NewlyInstalled, In, Nothing
<1>6. Checked /\ GreenRunIsTrue /\ ReportAgreesWithExit
  BY DEF Checked, GreenRunIsTrue, ReportAgreesWithExit, Done
<1> QED
  BY <1>1, <1>2, <1>3, <1>4, <1>5, <1>6 DEF IInv

\* Whatever fails, is interrupted or changed by others between two steps, the
\* invariant holds.
THEOREM CommandsInvariant == Spec => []IInv
<1>1. IInv /\ [Next]_vars => IInv'
  BY TypeNext, OrderNext, NothingYetNext, GateNext, CiGateNext, CheckedNext, GreenRunNext,
     ReportNext DEF IInv
<1> QED
  BY <1>1, InitIInv, PTL DEF Spec

\* The commands keep to their types.
THEOREM CommandsTypeCorrect == Spec => []TypeOK
<1>1. IInv => TypeOK
  BY DEF IInv
<1> QED
  BY <1>1, CommandsInvariant, PTL

\* Where resolving does not install (npm and pnpm), a blocking install lets
\* nothing through that was listed and that policy or scorer reject, nor ci what
\* the policy rejects.
THEOREM GateSafe == ASSUME ~ResolveInstalls PROVE Spec => []GateHolds
<1>1. IInv => GateHolds
  <2> SUFFICES ASSUME IInv, still PROVE GateHolds
    BY DEF GateHolds
  <2>1. is("ci") => NewlyInstalled \cap RejectedByPolicy \subseteq Unlisted
    BY DEF IInv, CiGate
  <2>2. ASSUME is("install"), config.guarded, config.enforcement = "block",
               NewlyInstalled # {}
        PROVE  /\ violations = {}
               /\ NewlyInstalled \cap RejectedByPolicy \subseteq Unlisted
               /\ ~dropped => NewlyInstalled \cap (RejectedByHash \cup RejectedByScore) \subseteq Unlisted
    <3>1. /\ violations = {} /\ NewlyInstalled \subseteq pmlock
          /\ PolicyViolations(nodes) = {}
          /\ ~dropped => TrustViolations(nodes, before.locked) = {}
      BY <2>2 DEF IInv, Gate
    <3>2. nodes \cap RejectedByPolicy = {}
      BY <3>1, NoPolicyViolation
    <3>3. ~dropped => nodes \cap (RejectedByHash \cup RejectedByScore) = {}
      <4>1. NewlyInstalled \subseteq Pkgs
        BY DEF NewlyInstalled, In
      <4> QED
        BY <3>1, NoTrustViolation DEF RejectedByHash
    <3> QED
      BY <3>1, <3>2, <3>3 DEF Unlisted
  <2> QED
    BY <2>1, <2>2 DEF GateHolds
<1> QED
  BY <1>1, CommandsInvariant, PTL

\* There, too, a listed package that the policy rejects is in the log before a guarded
\* install with warnings installs it.
THEOREM LetThroughLogged == ASSUME ~ResolveInstalls PROVE Spec => []LetThroughIsLogged
<1>1. IInv => LetThroughIsLogged
  <2> SUFFICES ASSUME IInv, still, is("install"), config.guarded,
                      NEW p \in (NewlyInstalled \cap RejectedByPolicy) \ Unlisted
               PROVE  <<"policy", p>> \in logged
    BY DEF LetThroughIsLogged
  <2>1. p \in nodes /\ PolicyViolations(nodes) \subseteq logged
    BY DEF IInv, Gate, Unlisted
  <2>2. <<"policy", p>> \in PolicyViolations(nodes)
    BY <2>1 DEF PolicyViolations, RejectedByPolicy
  <2> QED
    BY <2>1, <2>2
<1> QED
  BY <1>1, CommandsInvariant, PTL

\* With any adapter, and however little of the project it reads, exit 0 of a
\* blocking ci or audit run is true of what it has read, and nothing else is locked.
THEOREM GreenRunSound == Spec => []GreenRunIsTrue
<1>1. IInv => GreenRunIsTrue
  BY DEF IInv
<1> QED
  BY <1>1, CommandsInvariant, PTL

\* The ci report and the exit code agree.
THEOREM ReportSound == Spec => []ReportAgreesWithExit
<1>1. IInv => ReportAgreesWithExit
  BY DEF IInv
<1> QED
  BY <1>1, CommandsInvariant, PTL
===============================================================================
