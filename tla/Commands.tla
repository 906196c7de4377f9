------------------------------ MODULE Commands ------------------------------
(***************************************************************************)
(* The order of work in scalp install, scalp ci and scalp audit: what is   *)
(* checked, when the package manager installs, what a failure of one step  *)
(* does to the others, and what the exit code and the ci report say.  The  *)
(* checks themselves are sets here: policy.Evaluate rejects the denied     *)
(* packages, the scorer the distrusted ones and those without an integrity *)
(* entry (TrustScorer), the lockfile check those that differ from their    *)
(* entry (LockfileAudit).                                                  *)
(*                                                                         *)
(* One command runs at a time; every call that can fail may fail, the      *)
(* command may be interrupted, and the project may be changed meanwhile.   *)
(* What the adapters read off the package manager need not be what is      *)
(* there: a parser skips entries (LockfileParsers) and a tree may be shown *)
(* in part, or lose a copy (PackageTree).                                  *)
(***************************************************************************)
EXTENDS Naturals

CONSTANTS
  Pkgs,             \* packages
  Configs,          \* the commands that may be given: records of ConfigType
  Verdicts,         \* pairs <<denied, distrusted>> of sets of packages
  ResolveInstalls,  \* TRUE for the adapters (yarn, bun) whose Resolve runs
                    \* the package manager's install
  NoReport,         \* no ci report written by this run
  MaxDrift          \* bound on the changes made by others

ConfigType ==
  [cmd         : {"install", "ci", "audit"},
   guarded     : BOOLEAN,            \* install: mode is guarded
   enforcement : {"block", "warn"},  \* "log" differs from "warn" in output only
   auditOnly   : BOOLEAN,            \* trust.mode is audit-only
   minScore    : BOOLEAN,            \* trust.min_score is positive
   requireHash : BOOLEAN,            \* trust.require_hash, before fork context
   fork        : BOOLEAN,            \* ci: --pr-context fork
   checksum    : {"none", "match", "differs"}]   \* ci: --checksum

ASSUME ConfigsAssumption == Configs \subseteq ConfigType /\ Configs # {}
ASSUME VerdictsAssumption == Verdicts \subseteq (SUBSET Pkgs) \X (SUBSET Pkgs)
ASSUME ResolveAssumption == ResolveInstalls \in BOOLEAN /\ MaxDrift \in Nat

VARIABLES
  pmlock,       \* packages in the package manager's lockfile
  nodeModules,  \* the state of every package's directory
  entries,      \* the state recorded in .scalp/lockfile.json
  verdicts,     \* what policy and scorer think of the packages
  config,       \* the command and its flags
  phase,        \* where it is
  nodes,        \* the packages that ParseLockfile made of pmlock
  got,          \* the packages that GetTree made of nodeModules
  lf,           \* the entries of the Lockfile in memory
  violations,   \* <<rule, package>> found by policy, scorer and checksum
  auditFound,   \* those VerifyAgainstTree found
  logged,       \* violations written to the audit log by this run
  report,       \* the ci report of this run
  exit,         \* "ok" (0) or "failed" (1) when it has ended
  before,       \* history: installed and locked packages when the run began
  dropped,      \* history: the scorer failed and its findings were ignored
  still,        \* history: the run was not disturbed
  drifts        \* number of changes made by others

project == <<pmlock, nodeModules, entries>>
results == <<nodes, got, lf, violations, auditFound, logged, report, dropped>>
vars == <<pmlock, nodeModules, entries, verdicts, config, phase, nodes,
          got, lf, violations, auditFound, logged, report, exit, before, dropped,
          still, drifts>>

denied == verdicts[1]
distrusted == verdicts[2]
State == [Pkgs -> {"absent", "clean", "changed"}]
Nothing == [p \in Pkgs |-> "absent"]
In(state) == {p \in Pkgs : state[p] # "absent"}

Violation ==
  ({"policy", "require_hash", "min_score", "lockfile"} \X Pkgs)
    \cup {<<"checksum", "lockfile">>}
Report == [passed : BOOLEAN, violations : SUBSET Violation]

ASSUME NoReportAssumption == NoReport \notin Report

TypeOK ==
  /\ pmlock \subseteq Pkgs
  /\ nodeModules \in State
  /\ entries \in State
  /\ verdicts \in Verdicts
  /\ config \in Configs
  /\ phase \in {"idle", "resolve", "parse", "trust", "enforce", "install", "sync",
                "save", "checksum", "verify", "report", "end"}
  /\ nodes \subseteq Pkgs
  /\ got \subseteq Pkgs
  /\ lf \in State
  /\ violations \subseteq Violation
  /\ auditFound \subseteq Violation
  /\ logged \subseteq Violation
  /\ report \in Report \cup {NoReport}
  /\ exit \in {"running", "ok", "failed"}
  /\ before \in [installed : SUBSET Pkgs, locked : SUBSET Pkgs]
  /\ dropped \in BOOLEAN
  /\ still \in BOOLEAN
  /\ drifts \in 0..MaxDrift

Init ==
  /\ pmlock = {}
  /\ nodeModules = Nothing
  /\ entries = Nothing
  /\ verdicts \in Verdicts
  /\ config \in Configs
  /\ phase = "idle"
  /\ nodes = {}
  /\ got = {}
  /\ lf = Nothing
  /\ violations = {}
  /\ auditFound = {}
  /\ logged = {}
  /\ report = NoReport
  /\ exit = "running"
  /\ before = [installed |-> {}, locked |-> {}]
  /\ dropped = FALSE
  /\ still = TRUE
  /\ drifts = 0

-----------------------------------------------------------------------------
is(c) == config.cmd = c

\* ci in fork context sets RequireHash, except under audit-only.
requireHash ==
  config.requireHash \/ (is("ci") /\ config.fork /\ ~config.auditOnly)

trustOn == config.minScore \/ requireHash

unchangedRun == <<verdicts, config, before, still, drifts>>

Exit(code) ==
  /\ phase' = "idle"
  /\ exit' = code

Continue(to) ==
  /\ phase' = to
  /\ UNCHANGED exit

\* ApplyEnforcement, and the command returns its error or nil.
Enforced(vs) == IF vs # {} /\ config.enforcement = "block" THEN "failed" ELSE "ok"

Begin(c) ==
  /\ phase = "idle"
  /\ config' = c
  /\ phase' = CASE c.cmd = "audit" -> "verify"
                [] c.cmd = "install" /\ ~c.guarded -> "install"
                [] OTHER -> "resolve"
  /\ exit' = "running"
  /\ nodes' = {}
  /\ got' = {}
  /\ lf' = Nothing
  /\ violations' = {}
  /\ auditFound' = {}
  /\ logged' = {}
  /\ report' = NoReport
  /\ before' = [installed |-> In(nodeModules), locked |-> In(entries)]
  /\ dropped' = FALSE
  /\ still' = TRUE
  /\ UNCHANGED <<project, verdicts, drifts>>

\* Any call of the run may return an error, which ends it: a step that fails
\* before it changed anything, and a context that was cancelled.
Fails ==
  /\ phase # "idle"
  /\ Exit("failed")
  /\ UNCHANGED <<project, results, unchangedRun>>

-----------------------------------------------------------------------------
(* Up to the package manager's install. *)

\* The package manager leaves a package that is there as it is.
AfterInstall(pkgs) ==
  [p \in Pkgs |-> IF p \notin pkgs THEN "absent"
                  ELSE IF nodeModules[p] = "absent" THEN "clean" ELSE nodeModules[p]]

\* npm and pnpm write their lockfile only.
Resolve ==
  /\ phase = "resolve"
  /\ pmlock' \in SUBSET Pkgs
  /\ nodeModules' = IF ResolveInstalls THEN AfterInstall(pmlock') ELSE nodeModules
  /\ Continue("parse")
  /\ UNCHANGED <<entries, results, unchangedRun>>

PolicyViolations(pkgs) ==
  IF config.auditOnly THEN {} ELSE {"policy"} \X (pkgs \cap denied)

\* ParseLockfile, which may leave packages out or read a name wrong, and
\* policy.Evaluate in scalp install.
EvaluateInstall ==
  /\ phase = "parse"
  /\ is("install")
  /\ nodes' \in SUBSET Pkgs
  /\ violations' = PolicyViolations(nodes')
  /\ Continue(IF trustOn THEN "trust" ELSE "enforce")
  /\ UNCHANGED <<project, got, lf, auditFound, logged, report, dropped, unchangedRun>>

\* In scalp ci violations are reported (an error of the report is only logged)
\* and end the run; without any it goes on to install.
EvaluateCi ==
  /\ phase = "parse"
  /\ is("ci")
  /\ nodes' \in SUBSET Pkgs
  /\ violations' = PolicyViolations(nodes')
  /\ \/ /\ violations' = {}
        /\ Continue("install")
        /\ UNCHANGED report
     \/ /\ violations' # {}
        /\ Exit(Enforced(violations'))
        /\ report' \in {[passed |-> FALSE, violations |-> violations'], NoReport}
  /\ UNCHANGED <<project, got, lf, auditFound, logged, dropped, unchangedRun>>

\* Scorer.Evaluate: the packages without an entry, and of the others those
\* below the minimum score.
Unhashed(pkgs, locked) == IF requireHash THEN pkgs \ locked ELSE {}

\* Mutant: the reason of a low score is taken for its rule.
TrustViolationsByReason(pkgs, locked) ==
  IF config.auditOnly THEN {}
  ELSE ({"require_hash"} \X Unhashed(pkgs, locked))
         \cup ({"trust_score"} \X
                 IF config.minScore
                   THEN (pkgs \ Unhashed(pkgs, locked)) \cap distrusted ELSE {})

TrustViolations(pkgs, locked) ==
  IF config.auditOnly THEN {}
  ELSE ({"require_hash"} \X Unhashed(pkgs, locked))
         \cup ({"min_score"} \X
                 IF config.minScore
                   THEN (pkgs \ Unhashed(pkgs, locked)) \cap distrusted ELSE {})

\* It fails when the cache can be neither read nor saved.  (Nor does install
\* call it when the lockfile cannot be loaded, whatever it would find.)
ScorerMayFail(pkgs, locked) ==
  ~config.auditOnly /\ config.minScore /\ pkgs \ Unhashed(pkgs, locked) # {}

\* All three commands only log the error of the scorer and go on without its
\* violations.
Trust(pkgs, locked) ==
  \/ /\ violations' = violations \cup TrustViolations(pkgs, locked)
     /\ UNCHANGED dropped
  \/ /\ ScorerMayFail(pkgs, locked) \/ is("install")
     /\ dropped' = TRUE
     /\ UNCHANGED violations

TrustInstall ==
  /\ phase = "trust"
  /\ is("install")
  /\ Trust(nodes, In(entries))
  /\ Continue("enforce")
  /\ UNCHANGED <<project, nodes, got, lf, auditFound, logged, report, unchangedRun>>

\* Mutants: the error of ApplyEnforcement is dropped; only violations that block
\* are logged.
EnforceInstallIgnored ==
  /\ phase = "enforce"
  /\ logged' = violations
  /\ Continue("install")
  /\ UNCHANGED <<project, nodes, got, lf, violations, auditFound, report, dropped,
                 unchangedRun>>

EnforceInstallLogsBlocked ==
  /\ phase = "enforce"
  /\ IF Enforced(violations) = "failed"
       THEN logged' = violations /\ Exit("failed")
       ELSE UNCHANGED logged /\ Continue("install")
  /\ UNCHANGED <<project, nodes, got, lf, violations, auditFound, report, dropped,
                 unchangedRun>>

\* The violations are logged before they are enforced; a log that fails ends
\* the run having written some of them.
EnforceInstall ==
  /\ phase = "enforce"
  /\ \/ /\ logged' = violations
        /\ IF Enforced(violations) = "failed" THEN Exit("failed") ELSE Continue("install")
     \/ /\ violations # {}
        /\ logged' \in SUBSET violations
        /\ Exit("failed")
  /\ UNCHANGED <<project, nodes, got, lf, violations, auditFound, report, dropped,
                 unchangedRun>>

-----------------------------------------------------------------------------
(* From the install to the saved lockfile, the same in both commands. *)

\* The package manager installs what its lockfile says (without a guarded run,
\* what it resolves to now), or fails having installed part of it.
Install ==
  /\ phase = "install"
  /\ IF is("install") /\ ~config.guarded
       THEN pmlock' \in SUBSET Pkgs ELSE UNCHANGED pmlock
  /\ \/ nodeModules' = AfterInstall(pmlock') /\ Continue("sync")
     \/ \E part \in SUBSET pmlock' :
          nodeModules' = AfterInstall(In(nodeModules) \cup part) /\ Exit("failed")
  /\ UNCHANGED <<entries, results, unchangedRun>>

\* GetTree, lockfile.Load and SyncWithTree.  A tree that the package manager
\* shows in part is accepted with a warning, and it may name packages that have
\* no directory: those keep their entry, and what is not in it loses it.
Sync ==
  /\ phase = "sync"
  /\ got' \in SUBSET Pkgs
  /\ lf' = [p \in Pkgs |-> IF p \notin got' THEN "absent"
                           ELSE IF nodeModules[p] = "absent" THEN entries[p]
                           ELSE nodeModules[p]]
  /\ Continue("save")
  /\ UNCHANGED <<project, nodes, violations, auditFound, logged, report, dropped,
                 unchangedRun>>

\* lockfile.Save; install then logs the hash events, whose error is the exit
\* code of a run that did everything else.
Save ==
  /\ phase = "save"
  /\ entries' = lf
  /\ IF is("ci") THEN Continue(IF trustOn THEN "trust" ELSE "checksum")
     ELSE \E code \in {"ok", "failed"} : Exit(code)
  /\ UNCHANGED <<pmlock, nodeModules, results, unchangedRun>>

-----------------------------------------------------------------------------
(* The checks at the end of scalp ci, and scalp audit. *)

\* The scorer sees the packages of the tree whose directory exists.
TrustInstalled ==
  /\ phase = "trust"
  /\ is("ci") \/ is("audit")
  /\ Trust(got \cap In(nodeModules), In(lf))
  /\ Continue(IF is("ci") THEN "checksum" ELSE "end")
  /\ UNCHANGED <<project, nodes, got, lf, auditFound, logged, report, unchangedRun>>

Checksum ==
  /\ phase = "checksum"
  /\ violations' = violations \cup
       IF config.checksum = "differs" THEN {<<"checksum", "lockfile">>} ELSE {}
  /\ Continue("verify")
  /\ UNCHANGED <<project, nodes, got, lf, auditFound, logged, report, dropped,
                 unchangedRun>>

\* VerifyAgainstTree: entries of packages that are not in the tree or not
\* installed, packages without an entry, and those that differ from theirs.
Mismatches(pkgs, locked) ==
  {"lockfile"} \X ((In(locked) \ pkgs) \cup {p \in pkgs : locked[p] # nodeModules[p]})

VerifyCi ==
  /\ phase = "verify"
  /\ is("ci")
  /\ auditFound' = Mismatches(got, lf)
  /\ Continue("report")
  /\ UNCHANGED <<project, nodes, got, lf, violations, logged, report, dropped,
                 unchangedRun>>

\* Mutant: what the lockfile check found is reported but not enforced.
ReportCiOnly ==
  /\ phase = "report"
  /\ report' = [passed |-> auditFound = {}, violations |-> auditFound]
  /\ Exit(Enforced(violations))
  /\ UNCHANGED <<project, nodes, got, lf, violations, auditFound, logged, dropped,
                 unchangedRun>>

\* The report counts the lockfile check only; the exit code counts everything.
ReportCi ==
  /\ phase = "report"
  /\ report' = [passed |-> auditFound = {}, violations |-> auditFound]
  /\ Exit(Enforced(violations \cup auditFound))
  /\ UNCHANGED <<project, nodes, got, lf, violations, auditFound, logged, dropped,
                 unchangedRun>>

\* scalp audit loads the lockfile and verifies the tree it is given now, whole or
\* not.
VerifyAudit ==
  /\ phase = "verify"
  /\ is("audit")
  /\ got' \in SUBSET Pkgs
  /\ lf' = entries
  /\ auditFound' = Mismatches(got', entries)
  /\ Continue(IF trustOn THEN "trust" ELSE "end")
  /\ UNCHANGED <<project, nodes, violations, logged, report, dropped, unchangedRun>>

\* Mutant: what the lockfile check found is logged but not enforced.
EndAuditLogsOnly ==
  /\ phase = "end"
  /\ logged' = auditFound
  /\ Exit(Enforced(violations))
  /\ UNCHANGED <<project, nodes, got, lf, violations, auditFound, report, dropped,
                 unchangedRun>>

\* It logs what the lockfile check found, then enforces everything.
EndAudit ==
  /\ phase = "end"
  /\ \/ /\ logged' = auditFound
        /\ Exit(Enforced(violations \cup auditFound))
     \/ /\ logged' \in SUBSET auditFound
        /\ Exit("failed")
  /\ UNCHANGED <<project, nodes, got, lf, violations, auditFound, report, dropped,
                 unchangedRun>>

-----------------------------------------------------------------------------
\* Another tool changes the package manager's lockfile, or changes or removes
\* an installed package.
Drift ==
  /\ drifts < MaxDrift
  /\ drifts' = drifts + 1
  /\ still' = FALSE
  /\ \/ /\ pmlock' \in SUBSET Pkgs
        /\ UNCHANGED nodeModules
     \/ /\ \E p \in In(nodeModules), s \in {"absent", "changed"} :
             nodeModules' = [nodeModules EXCEPT ![p] = s]
        /\ UNCHANGED pmlock
  /\ UNCHANGED <<entries, results, verdicts, config, phase, exit, before>>

Next ==
  \/ \E c \in Configs : Begin(c)
  \/ Resolve \/ EvaluateInstall \/ EvaluateCi
  \/ TrustInstall \/ EnforceInstall
  \/ Install \/ Sync \/ Save
  \/ TrustInstalled \/ Checksum \/ VerifyCi \/ ReportCi
  \/ VerifyAudit \/ EndAudit
  \/ Fails \/ Drift

Spec == Init /\ [][Next]_vars

-----------------------------------------------------------------------------
(* Properties. *)

Done(c) == is(c) /\ phase = "idle" /\ exit # "running"
NewlyInstalled == In(nodeModules) \ before.installed

\* What the policy and the scorer reject, given the entries of before the run.
RejectedByPolicy == IF config.auditOnly THEN {} ELSE denied
RejectedByHash ==
  IF requireHash /\ ~config.auditOnly THEN Pkgs \ before.locked ELSE {}
RejectedByScore ==
  IF config.minScore /\ ~config.auditOnly THEN distrusted ELSE {}

\* What the adapter's reading left out: of the package manager's lockfile, and of
\* what is installed.
Unlisted == pmlock \ nodes
Untold == In(nodeModules) \ got

\* A guarded install that blocks lets nothing through that the adapter has read:
\* unless another tool interferes, no package that it listed is installed that
\* the policy rejects, or the scorer when it could tell, and none at all when
\* there is any violation.  A ci run installs nothing that was listed and the
\* policy rejects, whatever its enforcement.
GateHolds ==
  still =>
    /\ is("install") /\ config.guarded /\ config.enforcement = "block" =>
         /\ NewlyInstalled \cap RejectedByPolicy \subseteq Unlisted
         /\ ~dropped => NewlyInstalled \cap (RejectedByHash \cup RejectedByScore) \subseteq Unlisted
         /\ violations # {} => NewlyInstalled = {}
    /\ is("ci") => NewlyInstalled \cap RejectedByPolicy \subseteq Unlisted

\* A blocking run that exits with 0 is right about the project it leaves, as far
\* as the package manager has shown it: what it was told of is locked as it is
\* installed and passes the scorer if that could tell, nothing else is locked,
\* whatever entries were there before; after ci, what was listed passes the
\* policy, too (scalp audit does not evaluate it).
GreenRunIsTrue ==
  still /\ exit = "ok" /\ config.enforcement = "block" /\ (is("ci") \/ is("audit")) =>
    /\ \A p \in Pkgs \ Untold : entries[p] = nodeModules[p]
    /\ In(entries) \cap Untold = {}
    /\ ~dropped => In(nodeModules) \cap RejectedByScore \subseteq Untold
    /\ is("ci") => In(nodeModules) \cap RejectedByPolicy \subseteq Unlisted

\* A listed package that the policy rejects and an install with warnings lets
\* through is in the audit log before it is installed, also when the install
\* fails or the run is interrupted later.
LetThroughIsLogged ==
  still /\ is("install") /\ config.guarded =>
    \A p \in (NewlyInstalled \cap RejectedByPolicy) \ Unlisted : <<"policy", p>> \in logged

\* The ci report never contradicts a blocking run: exit 0 comes with a report
\* that passed, a report that did not pass with exit 1.
ReportAgreesWithExit ==
  Done("ci") /\ config.enforcement = "block" =>
    /\ exit = "ok" => report # NoReport /\ report.passed
    /\ report # NoReport /\ ~report.passed => exit = "failed"

(* What the documents say. *)

\* scalp audit will "Verify .scalp/lockfile.json hashes match node_modules on
\* disk" (README.md:47): with exit 0 of a blocking audit, what is installed is
\* locked as it is.
AuditCoversInstalled ==
  still /\ exit = "ok" /\ config.enforcement = "block" /\ is("audit") =>
    \A p \in In(nodeModules) : entries[p] = nodeModules[p]

\* scalp ci evaluates "every package against policy + trust score" and with
\* violations "exits 1 (never installs)" (scalp-ci.md:19-20).
CiScoresBeforeInstall ==
  is("ci") /\ still /\ ~dropped => NewlyInstalled \cap RejectedByScore = {}

\* In fork context "Every package must have a lockfile integrity entry"
\* (scalp-ci.md:39): a run that installs one without does not pass.
ForkNeedsEntry ==
  Done("ci") /\ config.fork /\ still /\ ~dropped /\ exit = "ok" =>
    NewlyInstalled \cap RejectedByHash = {}

\* "passed is true only when both policy evaluation AND hash audit find zero
\* issues" (scalp-ci.md:94).
PassedMeansNoIssue ==
  Done("ci") /\ report # NoReport => (report.passed => violations = {})

\* "The JSON report is always written - even on failure" (architecture.md:223).
ReportAlwaysWritten == Done("ci") => report # NoReport

\* scalp ci "always blocks on violation" (scalp-ci.md:65).
CiAlwaysBlocks == Done("ci") /\ violations \cup auditFound # {} => exit = "failed"

\* A package without an integrity entry "is an automatic violation - regardless
\* of total score" (trust-score.md:67), so that a guarded install that blocks
\* does not install it when it is listed.
HashIsRequired ==
  is("install") /\ config.guarded /\ config.enforcement = "block" /\ still =>
    NewlyInstalled \cap RejectedByHash \subseteq Unlisted

\* Resolving is "lockfile-only, no install" (scalp-ci.md:18): while scalp ci has
\* not evaluated the packages none is installed.
ResolveOnlyResolves == is("ci") /\ still /\ phase = "parse" => NewlyInstalled = {}

\* "Every event (install, policy violation, ...) gets appended to
\* .scalp/audit.log" (RFC.md:142).
CiViolationsLogged ==
  Done("ci") /\ exit = "ok" => violations \cup auditFound \subseteq logged
=============================================================================
